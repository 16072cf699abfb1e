-------------------------- MODULE DataPath_proofs --------------------------
(***************************************************************************)
(* What holds of the data path for every set of formats and MTUs: the      *)
(* rate, the store behind the audio, the order of the thresholds; and for  *)
(* real formats (RealFormats): whole frames, whole blocks and the types.   *)
(***************************************************************************)
EXTENDS DataPath, TLAPS

\* What a PCM or a DSD configuration says of its buffer: 1 ms of whole frames
\* and the rest of the rate as remainder, or no remainder.
BufferOK(c) ==
  /\ c.format.rate \in Nat
  /\ c.buffer.frame \in Nat
  /\ c.buffer.remainder \in 0 .. 999
  /\ c.buffer.oneMs =>
       /\ c.buffer.bytes = (c.format.rate \div 1000) * c.buffer.frame
       /\ c.buffer.remainder = c.format.rate % 1000
  /\ ~c.buffer.oneMs => c.buffer.remainder = 0

\* The inductive invariant: the debt is less than a frame, and it is all there is.
DriftInv ==
  /\ Format = NoFormat => session = "closed"
  /\ tail # "none" => session # "closed"
  /\ m_framesPerBufferAccumulator \in 0 .. 999
  /\ m_effectiveMTU \in Mtus
  /\ Format # NoFormat =>
       /\ BufferOK(conf)
       /\ ~conf.buffer.oneMs => m_framesPerBufferAccumulator = 0
       /\ drift = m_framesPerBufferAccumulator * conf.buffer.frame
-----------------------------------------------------------------------------
\* The arithmetic of one buffer: 1 ms of whole frames, and one more when the
\* debt has grown to a whole one.
LEMMA OneBuffer ==
  ASSUME NEW acc \in Nat, NEW rest \in Nat, NEW base \in Nat, NEW frame \in Nat
  PROVE  /\ acc * frame + (1000 * base + rest) * frame - 1000 * (base * frame)
              = (acc + rest) * frame
         /\ acc * frame + (1000 * base + rest) * frame - 1000 * (base * frame + frame)
              = (acc + rest - 1000) * frame
<1>1. (1000 * base + rest) * frame = 1000 * (base * frame) + rest * frame
  OBVIOUS
<1>2. (acc + rest) * frame = acc * frame + rest * frame
  OBVIOUS
<1>3. (acc + rest - 1000) * frame = acc * frame + rest * frame - 1000 * frame
  OBVIOUS
<1>4. acc * frame \in Nat /\ rest * frame \in Nat /\ base * frame \in Nat
  OBVIOUS
<1> DEFINE a == acc * frame
           b == base * frame
           r == rest * frame
<1> HIDE DEF a, b, r
<1>5. /\ a + (1000 * b + r) - 1000 * b = a + r
      /\ a + (1000 * b + r) - 1000 * (b + frame) = a + r - 1000 * frame
  BY <1>4 DEF a, b, r
<1> QED BY <1>1, <1>2, <1>3, <1>5 DEF a, b, r

\* A rate in thousands, and its remainder.
LEMMA Thousands ==
  ASSUME NEW n \in Nat
  PROVE  n \div 1000 \in Nat /\ n % 1000 \in 0 .. 999 /\ n = 1000 * (n \div 1000) + (n % 1000)
<1>1. n \div 1000 \in Nat
  OBVIOUS
<1>2. n % 1000 \in 0 .. 999
  OBVIOUS
<1>3. n = 1000 * (n \div 1000) + (n % 1000)
  OBVIOUS
<1> QED BY <1>1, <1>2, <1>3

LEMMA ProductIsNat ==
  ASSUME NEW m \in Nat, NEW n \in Nat
  PROVE  m * n \in Nat
OBVIOUS

\* Whatever the format, configureRing leaves a buffer as BufferOK says, and
\* remembers the format.
LEMMA ConfigureRing ==
  ASSUME NEW f \in [dsd : BOOLEAN, rate : Nat \ {0}, channels : Nat \ {0},
                    bps : Nat \ {0}, inBps : Nat \ {0}, remote : BOOLEAN],
         NEW mtu \in Nat
  PROVE  LET c == configureRing(f, mtu)
         IN c.format = f /\ f # NoFormat /\ BufferOK(c)
<1> DEFINE c == configureRing(f, mtu)
<1>1. f.rate \in Nat /\ f.rate # 0 /\ f.channels \in Nat /\ f.bps \in Nat /\ f.dsd \in BOOLEAN
  OBVIOUS
<1>2. f # NoFormat
  BY <1>1 DEF NoFormat
<1>3. CASE f.dsd
  <2>1. c.format = f /\ c.buffer = DsdBuffer(f, mtu)
    BY <1>3 DEF configureRing, configureRingDSD
  <2>2. /\ c.buffer.frame = 0 /\ c.buffer.remainder = 0 /\ c.buffer.oneMs = FALSE
    BY <2>1 DEF DsdBuffer
  <2> HIDE DEF c
  <2> QED BY <1>1, <1>2, <2>1, <2>2 DEF BufferOK, c
<1>4. CASE ~f.dsd
  <2> DEFINE bytesPerFrame == f.channels * f.bps
  <2>1. bytesPerFrame \in Nat /\ f.rate % 1000 \in 0 .. 999
    <3>1. f.channels * f.bps \in Nat
      BY <1>1, ProductIsNat
    <3>2. f.rate % 1000 \in 0 .. 999
      BY <1>1, Thousands
    <3> QED BY <3>1, <3>2
  <2>2. c.format = f /\ c.buffer = PcmBuffer(f, mtu)
    BY <1>4 DEF configureRing, configureRingPCM
  <2>3. /\ c.buffer.frame = bytesPerFrame
        /\ c.buffer.oneMs => /\ c.buffer.bytes = (f.rate \div 1000) * bytesPerFrame
                             /\ c.buffer.remainder = f.rate % 1000
        /\ ~c.buffer.oneMs => c.buffer.remainder = 0
    <3> DEFINE b == PcmBuffer(f, mtu)
    <3>1. /\ b.frame = f.channels * f.bps
          /\ b.oneMs => /\ b.bytes = (f.rate \div 1000) * (f.channels * f.bps)
                        /\ b.remainder = f.rate % 1000
          /\ ~b.oneMs => b.remainder = 0
      <4>1. b.frame = f.channels * f.bps
        BY DEF PcmBuffer
      <4>2. b.oneMs => b.bytes = (f.rate \div 1000) * (f.channels * f.bps)
        BY ZenonT(60) DEF PcmBuffer
      <4>3. b.oneMs => b.remainder = f.rate % 1000
        BY ZenonT(60) DEF PcmBuffer
      <4>4. ~b.oneMs => b.remainder = 0
        BY ZenonT(60) DEF PcmBuffer
      <4> HIDE DEF b
      <4> QED BY <4>1, <4>2, <4>3, <4>4
    <3> HIDE DEF b, c
    <3> QED BY <2>2, <3>1 DEF b
  <2> HIDE DEF c, bytesPerFrame
  <2>4. c.buffer.remainder \in 0 .. 999
    BY <2>1, <2>3
  <2> QED BY <1>1, <1>2, <2>1, <2>2, <2>3, <2>4 DEF BufferOK, c
<1> QED BY <1>1, <1>3, <1>4

\* One buffer adds to the drift what it adds to the accumulator, in frames.
LEMMA StreamKeeps ==
  ASSUME DriftInv, NEW what, Stream(what)
  PROVE  DriftInv'
<1> DEFINE frame == conf.buffer.frame
           base == Format.rate \div 1000
           rest == conf.buffer.remainder
           acc == m_framesPerBufferAccumulator
<1>1. /\ Format # NoFormat /\ BufferOK(conf) /\ acc \in 0 .. 999
      /\ ~conf.buffer.oneMs => acc = 0
      /\ drift = acc * frame
  BY DEF DriftInv, Stream
<1>2. /\ conf' = conf /\ session' = session /\ tail' = tail
      /\ m_effectiveMTU' = m_effectiveMTU
      /\ m_framesPerBufferAccumulator' = NextAccumulator
      /\ drift' = IF conf.buffer.oneMs
                  THEN drift + Format.rate * frame - 1000 * StreamSize ELSE drift
  BY DEF Stream, control
<1>3. frame \in Nat /\ Format.rate \in Nat /\ rest \in 0 .. 999
  BY <1>1 DEF BufferOK, Format
<1>4. NextAccumulator = IF acc + rest >= 1000 THEN acc + rest - 1000 ELSE acc + rest
  <2>1. Owed = acc + rest
    BY DEF Owed
  <2>2. acc \in Int /\ rest \in Int
    <3>1. acc \in 0 .. 999 /\ rest \in 0 .. 999
      BY <1>1, <1>3, ZenonT(30)
    <3> HIDE DEF acc, rest
    <3> QED BY <3>1
  <2> HIDE DEF acc, rest
  <2> QED BY <2>1, <2>2 DEF NextAccumulator
<1> HIDE DEF acc, frame, rest
<1>5. NextAccumulator \in 0 .. 999
  BY <1>1, <1>3, <1>4
<1>6. /\ ~conf.buffer.oneMs => NextAccumulator = 0
      /\ drift' = NextAccumulator * frame
  <2>1. CASE ~conf.buffer.oneMs
    <3>1. rest = 0 /\ acc = 0
      BY <1>1, <2>1 DEF BufferOK, rest
    <3>2. NextAccumulator = 0
      BY <1>4, <3>1
    <3>3. drift' = acc * frame
      BY <1>1, <1>2, <2>1
    <3> QED BY <3>1, <3>2, <3>3
  <2>2. CASE conf.buffer.oneMs
    <3>1. rest = Format.rate % 1000 /\ conf.buffer.bytes = base * frame
      BY <1>1, <2>2 DEF BufferOK, Format, rest, frame
    <3>2. base \in Nat /\ Format.rate = 1000 * base + rest
      <4>1. base \in Nat /\ Format.rate = 1000 * base + (Format.rate % 1000)
        BY <1>3, Thousands
      <4> QED BY <3>1, <4>1
    <3> HIDE DEF base
    <3>3. StreamSize = base * frame + (IF acc + rest >= 1000 THEN frame ELSE 0)
      BY <3>1, ZenonT(40) DEF StreamSize, Owed, acc, rest, frame
    <3>4. drift' = acc * frame + (1000 * base + rest) * frame - 1000 * StreamSize
      BY <1>1, <1>2, <2>2, <3>2
    <3>5. acc \in Nat /\ rest \in Nat /\ base * frame \in Nat
      BY <1>1, <1>3, <3>2, ProductIsNat
    <3>6. CASE acc + rest >= 1000
      <4>1. StreamSize = base * frame + frame /\ NextAccumulator = acc + rest - 1000
        BY <1>4, <3>3, <3>6
      <4>2. acc * frame + (1000 * base + rest) * frame - 1000 * (base * frame + frame)
              = (acc + rest - 1000) * frame
        BY <1>3, <3>2, <3>5, OneBuffer
      <4>3. drift' = (acc + rest - 1000) * frame
        BY <3>4, <4>1, <4>2
      <4> QED BY <2>2, <4>1, <4>3
    <3>7. CASE ~(acc + rest >= 1000)
      <4>1. StreamSize = base * frame
        BY <3>3, <3>5, <3>7
      <4>2. NextAccumulator = acc + rest
        BY <1>4, <3>7
      <4>3. acc * frame + (1000 * base + rest) * frame - 1000 * (base * frame)
              = (acc + rest) * frame
        BY <1>3, <3>2, <3>5, OneBuffer
      <4>4. drift' = (acc + rest) * frame
        BY <3>4, <4>1, <4>3
      <4> QED BY <2>2, <4>2, <4>4
    <3> QED BY <2>2, <3>6, <3>7
  <2> QED BY <2>1, <2>2
<1>7. Format' = Format
  BY <1>2 DEF Format
<1>8. BufferOK(conf)' /\ (conf.buffer.oneMs)' = conf.buffer.oneMs
      /\ (conf.buffer.frame)' = frame
  BY <1>1, <1>2 DEF BufferOK, frame
<1>9. tail # "none" => session # "closed"
  BY DEF DriftInv
<1>10. m_effectiveMTU \in Mtus
  BY DEF DriftInv
<1> QED BY <1>1, <1>2, <1>5, <1>6, <1>7, <1>8, <1>9, <1>10 DEF DriftInv

\* What the sizes depend on, left alone by everything but open() and the buffers.
sizes == <<conf, m_framesPerBufferAccumulator, drift>>

LEMMA SizesKept ==
  ASSUME DriftInv, UNCHANGED sizes, m_effectiveMTU' \in Mtus,
         session' = "closed" \/ session # "closed", tail' = "none" \/ session' # "closed"
  PROVE  DriftInv'
<1>1. conf' = conf /\ Format' = Format
  BY DEF sizes, Format
<1>2. BufferOK(conf)' = BufferOK(conf)
  BY <1>1 DEF BufferOK
<1> QED BY <1>1, <1>2 DEF DriftInv, sizes
-----------------------------------------------------------------------------
LEMMA DriftInit == Init => DriftInv
BY DEF Init, DriftInv, Format, NoConf, NoFormat

LEMMA DriftStep == DriftInv /\ [Next]_vars => DriftInv'
<1> SUFFICES ASSUME DriftInv, [Next]_vars PROVE DriftInv'
  OBVIOUS
<1> USE DEF sizes, target, control, ring, warmup, history
<1>1. CASE UNCHANGED vars
  <2>1. UNCHANGED sizes /\ m_effectiveMTU' = m_effectiveMTU /\ session' = session /\ tail' = tail
    BY <1>1 DEF vars
  <2> QED BY <2>1, SizesKept DEF DriftInv
<1>2. CASE Reconnect
  <2>1. /\ UNCHANGED sizes /\ m_effectiveMTU' \in Mtus
        /\ session' = "closed" /\ tail' = "none"
    BY <1>2 DEF Reconnect, MayCommand
  <2> QED BY <2>1, SizesKept
<1>3. ASSUME NEW f \in Formats[m_effectiveMTU], Open(f) PROVE DriftInv'
  <2>1. m_effectiveMTU \in Mtus
    BY DEF DriftInv
  <2>2. f \in [dsd : BOOLEAN, rate : Nat \ {0}, channels : Nat \ {0},
               bps : Nat \ {0}, inBps : Nat \ {0}, remote : BOOLEAN]
        /\ m_effectiveMTU \in Nat
    BY <2>1, <1>3, DataPathAssumption
  <2> DEFINE c == configureRing(f, m_effectiveMTU)
  <2>3. c.format = f /\ f # NoFormat /\ BufferOK(c)
    BY <2>2, ConfigureRing
  <2>4. conf' = c /\ m_framesPerBufferAccumulator' = 0 /\ drift' = 0
        /\ m_effectiveMTU' = m_effectiveMTU
    BY <1>3 DEF Open
  <2> HIDE DEF c
  <2>5. c.buffer.frame \in Nat
    BY <2>3 DEF BufferOK
  <2>6. 0 = 0 * c.buffer.frame
    BY <2>5
  <2>7. Format' = f /\ BufferOK(conf)' /\ (conf.buffer.frame)' = c.buffer.frame
    BY <2>3, <2>4 DEF Format, BufferOK
  <2>8. session' = "playing"
    BY <1>3 DEF Open
  <2> QED BY <2>1, <2>3, <2>4, <2>6, <2>7, <2>8 DEF DriftInv
<1>4. CASE PauseAsk \/ StopAsk \/ CloseAsk \/ QuickAsk
  BY <1>4, SizesKept DEF PauseAsk, StopAsk, CloseAsk, QuickAsk, Ask, DriftInv
<1>5. CASE Pause \/ Stop
  BY <1>5, SizesKept DEF Pause, Stop, Halt, DriftInv
<1>6. CASE StopNow \/ CloseMute \/ Close
  BY <1>6, SizesKept DEF StopNow, CloseMute, Close, DriftInv
<1>7. CASE Resume \/ QuickOpen
  BY <1>7, SizesKept DEF Resume, QuickOpen, Restart, DriftInv
<1>8. CASE Push
  BY <1>8, SizesKept DEF Push, DriftInv
<1>9. CASE getNewStream
  <2>1. PICK what : Stream(what)
    BY <1>9 DEF getNewStream, ShutdownSilence, MutedSilence, WarmupSilence, RebufferSilence,
                Underrun, Audio
  <2> QED BY <2>1, StreamKeeps
<1> QED BY <1>1, <1>2, <1>3, <1>4, <1>5, <1>6, <1>7, <1>8, <1>9 DEF Next

\* What the SDK is given keeps to the format's rate for ever: the buffers of
\* getNewStream, through every pause, resume, silence and change of format.
THEOREM RateKept == Spec => []NoDrift
<1>1. DriftInv => NoDrift
  BY DEF DriftInv, NoDrift
<1> QED BY DriftInit, DriftStep, <1>1, PTL DEF Spec
-----------------------------------------------------------------------------
\* Sizes that let the thresholds fit: playback starts at half the ring or less.
FlowOK(c) ==
  /\ c.size \in Nat
  /\ c.prefillTarget \in Nat \ {0}
  /\ 2 * c.prefillTarget <= c.size
  /\ c.buffer.bytes \in Nat
  /\ c.buffer.frame \in Nat

\* The inductive invariant: a ring filled to the target is known to be.
FlowInv ==
  /\ avail \in Int
  /\ m_effectiveMTU \in Mtus
  /\ Format = NoFormat \/ \E mtu \in Mtus : Format \in Formats[mtu]
  /\ tail # "none" => session # "closed"
  /\ session # "closed" =>
       /\ Format # NoFormat
       /\ FlowOK(conf)
       /\ avail >= conf.prefillTarget => m_prefillComplete

AFormat == [dsd : BOOLEAN, rate : Nat \ {0}, channels : Nat \ {0},
            bps : Nat \ {0}, inBps : Nat \ {0}, remote : BOOLEAN]

\* The ring's size is between its limits, so that a power of two rounds it up.
LEMMA RingSize ==
  ASSUME NEW bytesPerSecond \in Nat, NEW tenths \in Nat
  PROVE  roundUpPow2(calculateBufferSize(bytesPerSecond, tenths)) \in RingSizes
<1> DEFINE wanted == (bytesPerSecond * tenths) \div 10
           value == calculateBufferSize(bytesPerSecond, tenths)
<1>1. wanted \in Nat
  <2>1. bytesPerSecond * tenths \in Nat
    BY ProductIsNat
  <2> QED BY <2>1
<1>2. value = AtMost(AtLeast(wanted, 65536), 33554432)
  BY SMT DEF calculateBufferSize, MIN_BUFFER_BYTES, MAX_BUFFER_BYTES
<1> HIDE DEF wanted, value
<1>3. \E size \in RingSizes : value <= size /\ size < 2 * value
  <2>1. value \in Nat /\ 65536 <= value /\ value <= 33554432
    BY SMT, <1>1, <1>2 DEF AtMost, AtLeast
  <2>2. CASE value <= 1048576
    BY SMT, <2>1, <2>2 DEF RingSizes
  <2>3. CASE ~(value <= 1048576)
    BY SMT, <2>1, <2>3 DEF RingSizes
  <2> QED BY <2>2, <2>3
<1> QED BY <1>3 DEF roundUpPow2, value

\* The target is at most half of any ring, and never nothing.
LEMMA PrefillFits ==
  ASSUME NEW prefill \in Nat, prefill >= MIN_PREFILL_BYTES, NEW size \in RingSizes,
         NEW rate \in Nat, NEW dsd \in BOOLEAN
  PROVE  LET target_ == prefillTarget(prefill, size, rate, dsd)
         IN target_ \in Nat \ {0} /\ 2 * target_ <= size
<1>1. size \in Nat /\ size >= 65536
  BY SMT DEF RingSizes
<1>2. CASE HighRate(rate) /\ ~dsd
  BY SMT, <1>1, <1>2 DEF prefillTarget, AtMost, MIN_PREFILL_BYTES
<1>3. CASE ~(HighRate(rate) /\ ~dsd)
  BY SMT, <1>1, <1>3 DEF prefillTarget, AtMost, MIN_PREFILL_BYTES
<1> QED BY <1>2, <1>3

LEMMA PrefillIsNat ==
  ASSUME NEW bytesPerSecond \in Nat, NEW ms \in Nat
  PROVE  /\ calculatePrefill(bytesPerSecond, ms) \in Nat
         /\ calculatePrefill(bytesPerSecond, ms) >= MIN_PREFILL_BYTES
<1>1. ms \div 10 \in Nat
  OBVIOUS
<1>2. bytesPerSecond * (ms \div 10) \in Nat
  BY <1>1, ProductIsNat
<1>3. (bytesPerSecond * (ms \div 10)) \div 100 \in Nat
  BY <1>2
<1> QED BY <1>3 DEF calculatePrefill, AtLeast, MIN_PREFILL_BYTES

LEMMA PrefillMsIsNat ==
  ASSUME NEW dsd \in BOOLEAN, NEW rate \in Nat, NEW low \in BOOLEAN, NEW remote \in BOOLEAN
  PROVE  PrefillMs(dsd, rate, low, remote) \in Nat
<1>1. HighRate(rate) \in BOOLEAN
  BY DEF HighRate
<1> QED BY <1>1 DEF PrefillMs

LEMMA FlowingRing ==
  ASSUME NEW f \in AFormat, NEW mtu \in Nat
  PROVE  LET c == configureRing(f, mtu) IN c.format = f /\ f # NoFormat /\ FlowOK(c)
<1> DEFINE c == configureRing(f, mtu)
<1>1. /\ f.rate \in Nat /\ f.rate # 0 /\ f.channels \in Nat \ {0} /\ f.bps \in Nat \ {0}
      /\ f.dsd \in BOOLEAN /\ f.remote \in BOOLEAN
  BY DEF AFormat
<1>2. c.format = f /\ f # NoFormat /\ c.buffer.frame \in Nat
  BY ConfigureRing DEF AFormat, BufferOK
<1>3. efficientMTU(mtu) \in Nat
  BY DEF efficientMTU
<1>4. CASE f.dsd
  <2> DEFINE bytesPerSecond == (f.rate \div 8) * f.channels
             ms == PrefillMs(TRUE, f.rate, FALSE, FALSE)
             prefill == calculatePrefill(bytesPerSecond, ms)
             size == roundUpPow2(calculateBufferSize(bytesPerSecond, dsdBufferTenths))
             block == 4 * f.channels
             perMs == (f.rate \div 8000) * f.channels
  <2>1. /\ c.size = size /\ c.buffer = DsdBuffer(f, mtu)
        /\ c.prefillTarget = prefillTarget(prefill, size, f.rate, TRUE)
    BY <1>4 DEF configureRing, configureRingDSD
  <2>2. bytesPerSecond \in Nat /\ perMs \in Nat
    <3>1. f.rate \div 8 \in Nat /\ f.rate \div 8000 \in Nat
      BY <1>1
    <3> QED BY <1>1, <3>1, ProductIsNat
  <2>3. c.buffer.bytes \in Nat
    <3>1. block \in Nat \ {0}
      BY <1>1
    <3> HIDE DEF block, perMs, c
    <3>2. RoundedUp(perMs, block) \in Nat
      <4>1. (perMs + block - 1) \div block \in Nat
        BY <2>2, <3>1
      <4> QED BY <3>1, <4>1, ProductIsNat DEF RoundedUp
    <3>3. (efficientMTU(mtu) \div block) * block \in Nat
      <4>1. efficientMTU(mtu) \div block \in Nat
        BY <1>3, <3>1
      <4> QED BY <3>1, <4>1, ProductIsNat
    <3>4. c.buffer.bytes = IF RoundedUp(perMs, block) <= efficientMTU(mtu) THEN RoundedUp(perMs, block)
                           ELSE AtLeast((efficientMTU(mtu) \div block) * block, 64)
      BY <2>1 DEF DsdBuffer, block, perMs
    <3> QED BY <3>2, <3>3, <3>4 DEF AtLeast
  <2> HIDE DEF bytesPerSecond, c
  <2>4. size \in RingSizes
    BY <2>2, RingSize DEF dsdBufferTenths
  <2>5. ms \in Nat
    BY <1>1, PrefillMsIsNat
  <2> HIDE DEF ms, perMs, block
  <2>6. prefill \in Nat /\ prefill >= MIN_PREFILL_BYTES
    BY <2>2, <2>5, PrefillIsNat
  <2> HIDE DEF prefill, size
  <2>7. c.prefillTarget \in Nat \ {0} /\ 2 * c.prefillTarget <= c.size
    BY <1>1, <2>1, <2>4, <2>6, PrefillFits
  <2>8. c.size \in Nat
    BY SMT, <2>1, <2>4 DEF RingSizes
  <2> QED BY <1>2, <2>3, <2>7, <2>8 DEF FlowOK, c
<1>5. CASE ~f.dsd
  <2> DEFINE bytesPerSecond == f.rate * f.channels * f.bps
             ms == PrefillMs(FALSE, f.rate, isLowBitrate(f.rate, f.bps), f.remote)
             prefill == calculatePrefill(bytesPerSecond, ms)
             size == roundUpPow2(PcmRingSize(f))
             frame == f.channels * f.bps
  <2>1. /\ c.size = size /\ c.buffer = PcmBuffer(f, mtu)
        /\ c.prefillTarget = prefillTarget(prefill, size, f.rate, FALSE)
    BY <1>5 DEF configureRing, configureRingPCM
  <2>2. bytesPerSecond \in Nat
    <3>1. f.rate * f.channels \in Nat
      BY <1>1, ProductIsNat
    <3> QED BY <1>1, <3>1, ProductIsNat
  <2>3. c.buffer.bytes \in Nat
    <3>1. frame \in Nat \ {0}
      BY <1>1
    <3> HIDE DEF frame, c
    <3>2. (f.rate \div 1000) * frame \in Nat
      BY <1>1, <3>1, Thousands, ProductIsNat
    <3>3. (efficientMTU(mtu) \div frame) * frame \in Nat
      <4>1. efficientMTU(mtu) \div frame \in Nat
        BY <1>3, <3>1
      <4> QED BY <3>1, <4>1, ProductIsNat
    <3>4. c.buffer.bytes \in {(f.rate \div 1000) * frame, (efficientMTU(mtu) \div frame) * frame}
      BY <2>1 DEF PcmBuffer, frame
    <3> QED BY <3>2, <3>3, <3>4
  <2> HIDE DEF bytesPerSecond, c
  <2>4. size \in RingSizes
    <3>1. pcmBufferTenths(f.rate, f.remote) \in Nat
      BY DEF pcmBufferTenths
    <3> QED BY <2>2, <3>1, RingSize DEF PcmRingSize, bytesPerSecond
  <2>5. ms \in Nat
    <3>1. isLowBitrate(f.rate, f.bps) \in BOOLEAN
      BY DEF isLowBitrate
    <3> QED BY <1>1, <3>1, PrefillMsIsNat
  <2> HIDE DEF ms
  <2>6. prefill \in Nat /\ prefill >= MIN_PREFILL_BYTES
    BY <2>2, <2>5, PrefillIsNat
  <2> HIDE DEF prefill, size
  <2>7. c.prefillTarget \in Nat \ {0} /\ 2 * c.prefillTarget <= c.size
    BY <1>1, <2>1, <2>4, <2>6, PrefillFits
  <2>8. c.size \in Nat
    BY SMT, <2>1, <2>4 DEF RingSizes
  <2> QED BY <1>2, <2>3, <2>7, <2>8 DEF FlowOK, c
<1> QED BY <1>1, <1>4, <1>5
-----------------------------------------------------------------------------
LEMMA FlowInit == Init => FlowInv
<1> SUFFICES ASSUME Init PROVE FlowInv
  OBVIOUS
<1>1. /\ conf = NoConf /\ session = "closed" /\ tail = "none" /\ avail = 0
      /\ m_effectiveMTU \in Mtus
  BY DEF Init
<1>2. Format = NoFormat
  BY <1>1 DEF Format, NoConf
<1>3. Format = NoFormat \/ \E mtu \in Mtus : Format \in Formats[mtu]
  BY <1>2
<1> QED BY <1>1, <1>2, <1>3 DEF FlowInv

LEMMA BlockIsNat ==
  ASSUME NEW f \in AFormat
  PROVE  BlockBytes(f) \in Nat
<1>1. f.rate \in Nat /\ f.channels \in Nat \ {0} /\ f.bps \in Nat \ {0} /\ f.dsd \in BOOLEAN
  BY DEF AFormat
<1>2. CASE f.dsd
  <2>1. calculateDsdSamplesPerCall(f.rate) \in Nat
    <3>1. RoundedUp((f.rate * 3) \div 250, 256) \in Nat
      BY <1>1 DEF RoundedUp
    <3> QED BY SMT, <3>1 DEF calculateDsdSamplesPerCall, AtMost, AtLeast
  <2>2. calculateDsdSamplesPerCall(f.rate) * f.channels \in Nat
    BY <1>1, <2>1, ProductIsNat
  <2> QED BY <1>2, <2>2 DEF BlockBytes
<1>3. CASE ~f.dsd
  <2>1. 2048 * f.channels \in Nat
    BY SMT, <1>1
  <2>2. 2048 * f.channels * f.bps \in Nat
    BY <1>1, <2>1, ProductIsNat
  <2> QED BY SMT, <1>3, <2>2 DEF BlockBytes
<1> QED BY <1>1, <1>2, <1>3

\* What a push takes is a number of bytes.
LEMMA TakenIsInt ==
  ASSUME NEW f \in AFormat, NEW free \in Int
  PROVE  Taken(f, free) \in Int
<1>1. /\ f.rate \in Nat /\ f.channels \in Nat \ {0} /\ f.bps \in Nat \ {0}
      /\ f.inBps \in Nat /\ f.dsd \in BOOLEAN
  BY DEF AFormat
<1> DEFINE unit == IF f.dsd THEN 4 * f.channels ELSE f.bps
           block == BlockBytes(f)
<1>2. unit \in Nat \ {0}
  BY <1>1
<1>3. block \in Int
  BY BlockIsNat
<1> HIDE DEF unit, block
<1>4. AtMost(block, free) \in Int
  BY <1>3 DEF AtMost
<1>5. AtMost(AtMost(block, STAGING_SIZE), free) \in Int
  BY SMT, <1>3 DEF AtMost, STAGING_SIZE
<1>6. \A staged \in Int : (staged \div unit) * unit \in Int
  <2>1. \A staged \in Int : staged \div unit \in Int
    BY <1>2
  <2> QED BY <1>2, <2>1
<1>7. Taken(f, free) \in {AtMost(block, free),
                          (AtMost(AtMost(block, STAGING_SIZE), free) \div unit) * unit}
  BY DEF Taken, block, unit
<1> QED BY <1>4, <1>5, <1>6, <1>7

\* The steps that leave the ring's content, or empty it, and its configuration.
LEMMA FlowKept ==
  ASSUME FlowInv, conf' = conf, m_effectiveMTU' \in Mtus,
         \/ avail' = avail /\ m_prefillComplete' = m_prefillComplete
         \/ avail' = 0,
         session' = "closed" \/ session # "closed", tail' = "none" \/ session' # "closed"
  PROVE  FlowInv'
<1>1. Format' = Format
  BY DEF Format
<1>2. FlowOK(conf)' = FlowOK(conf)
  BY DEF FlowOK
<1>3. avail' \in Int
  BY DEF FlowInv
<1>4. ASSUME session' # "closed" PROVE /\ Format # NoFormat
                                       /\ FlowOK(conf)
                                       /\ avail' >= conf.prefillTarget => m_prefillComplete'
  <2>1. /\ Format # NoFormat /\ FlowOK(conf)
        /\ avail >= conf.prefillTarget => m_prefillComplete
    BY <1>4 DEF FlowInv
  <2>2. CASE avail' = avail /\ m_prefillComplete' = m_prefillComplete
    BY <2>1, <2>2
  <2>3. CASE avail' = 0
    BY <2>1, <2>3 DEF FlowOK
  <2> QED BY <2>1, <2>2, <2>3
<1> QED BY <1>1, <1>2, <1>3, <1>4 DEF FlowInv

LEMMA FlowStep == FlowInv /\ [Next]_vars => FlowInv'
<1> SUFFICES ASSUME FlowInv, [Next]_vars PROVE FlowInv'
  OBVIOUS
<1> USE DEF target, control, ring, warmup, history
<1>0. m_effectiveMTU \in Mtus /\ (tail # "none" => session # "closed")
  BY DEF FlowInv
<1>1. CASE UNCHANGED vars
  BY <1>0, <1>1, FlowKept DEF vars
<1>2. CASE Reconnect
  BY <1>2, FlowKept DEF Reconnect, MayCommand
<1>3. ASSUME NEW f \in Formats[m_effectiveMTU], Open(f) PROVE FlowInv'
  <2>1. f \in AFormat /\ m_effectiveMTU \in Nat
    BY <1>0, <1>3, DataPathAssumption DEF AFormat
  <2> DEFINE c == configureRing(f, m_effectiveMTU)
  <2>2. c.format = f /\ f # NoFormat /\ FlowOK(c)
    BY <2>1, FlowingRing
  <2>3. conf' = c /\ avail' = 0 /\ m_effectiveMTU' = m_effectiveMTU /\ session' = "playing"
    BY <1>3 DEF Open
  <2> HIDE DEF c
  <2>4. Format' = f /\ FlowOK(conf)'
    BY <2>2, <2>3 DEF Format, FlowOK
  <2>5. (avail >= conf.prefillTarget)' = FALSE
    BY <2>2, <2>3 DEF FlowOK
  <2>6. (\E mtu \in Mtus : Format \in Formats[mtu])'
    <3>1. Format' = f
      BY <2>4
    <3> QED BY <1>0, <1>3, <3>1
  <2>7. avail' \in Int
    BY <2>3
  <2> QED BY <1>0, <2>2, <2>3, <2>4, <2>5, <2>6, <2>7 DEF FlowInv
<1>4. CASE PauseAsk \/ StopAsk \/ CloseAsk \/ QuickAsk
  BY <1>0, <1>4, FlowKept DEF PauseAsk, StopAsk, CloseAsk, QuickAsk, Ask
<1>5. CASE Pause \/ Stop
  BY <1>0, <1>5, FlowKept DEF Pause, Stop, Halt
<1>6. CASE StopNow \/ CloseMute \/ Close
  BY <1>0, <1>6, FlowKept DEF StopNow, CloseMute, Close
<1>7. CASE Resume \/ QuickOpen
  BY <1>0, <1>7, FlowKept DEF Resume, QuickOpen, Restart
<1>8. CASE Push
  <2>1. Format \in AFormat
    <3>1. Format # NoFormat /\ (Format = NoFormat \/ \E mtu \in Mtus : Format \in Formats[mtu])
      BY <1>8 DEF Push, FlowInv
    <3>2. PICK mtu \in Mtus : Format \in Formats[mtu]
      BY <3>1
    <3>3. Formats[mtu] \subseteq AFormat
      BY <3>2, DataPathAssumption DEF AFormat
    <3> QED BY <3>2, <3>3
  <2>2. conf.size \in Int /\ avail \in Int
    BY <1>8 DEF Push, FlowInv, FlowOK
  <2> DEFINE first == avail + Taken(Format, Free(avail))
  <2>3. first \in Int
    <3>1. Free(avail) \in Int
      BY <2>2 DEF Free
    <3> QED BY <2>1, <2>2, <3>1, TakenIsInt
  <2> HIDE DEF first
  <2>4. first + Taken(Format, Free(first)) \in Int
    <3>1. Free(first) \in Int
      BY <2>2, <2>3 DEF Free
    <3> QED BY <2>1, <2>3, <3>1, TakenIsInt
  <2>5. avail' \in {first, first + Taken(Format, Free(first))}
    BY <1>8 DEF Push, first
  <2>6. avail' \in Int
    BY <2>3, <2>4, <2>5
  <2>7. /\ conf' = conf /\ session' = session /\ tail' = tail
        /\ m_effectiveMTU' = m_effectiveMTU
        /\ m_prefillComplete' = (m_prefillComplete \/ avail' >= conf.prefillTarget)
    BY <1>8 DEF Push, Prefilled
  <2>8. Format' = Format /\ FlowOK(conf)' = FlowOK(conf)
    BY <2>7 DEF Format, FlowOK
  <2> QED BY <2>6, <2>7, <2>8 DEF FlowInv
<1>9. CASE getNewStream
  <2>1. /\ conf' = conf /\ session' = session /\ tail' = tail /\ session = "playing"
        /\ m_effectiveMTU' = m_effectiveMTU
    BY <1>9 DEF getNewStream, ShutdownSilence, MutedSilence, WarmupSilence, RebufferSilence,
                Underrun, Audio, Stream
  <2>2. CASE avail' = avail /\ m_prefillComplete' = m_prefillComplete
    BY <1>0, <2>1, <2>2, FlowKept
  <2>3. CASE Audio
    <3>1. FlowOK(conf) /\ avail \in Int
      BY <2>1 DEF FlowInv
    <3>2. StreamSize \in Nat
      BY <3>1 DEF StreamSize, FlowOK
    <3>3. /\ avail' = avail - StreamSize /\ m_prefillComplete' = m_prefillComplete
          /\ m_prefillComplete
      BY <2>3 DEF Audio, Warm, Ready
    <3>4. avail' \in Int
      BY <3>1, <3>2, <3>3
    <3>5. Format' = Format /\ FlowOK(conf)' = FlowOK(conf)
      BY <2>1 DEF Format, FlowOK
    <3> QED BY <2>1, <3>3, <3>4, <3>5 DEF FlowInv
  <2> QED BY <1>9, <2>2, <2>3 DEF getNewStream, ShutdownSilence, MutedSilence, WarmupSilence,
                                  RebufferSilence, Underrun
<1> QED BY <1>1, <1>2, <1>3, <1>4, <1>5, <1>6, <1>7, <1>8, <1>9 DEF Next

\* At half the ring, the prefill is over and so is any rebuffering.
LEMMA FlowsThrottled ==
  ASSUME FlowInv, session = "playing"
  PROVE  ThrottledFlows
<1> SUFFICES ASSUME Throttled PROVE m_prefillComplete /\ ~Waits
  BY DEF ThrottledFlows
<1>1. /\ FlowOK(conf) /\ avail \in Int
      /\ avail >= conf.prefillTarget => m_prefillComplete
  BY DEF FlowInv
<1>2. avail >= conf.prefillTarget /\ avail >= conf.size \div 5
  BY <1>1 DEF Throttled, FlowOK
<1> QED BY <1>1, <1>2 DEF Waits, RebufferThreshold, FlowOK

\* No deadlock between the thresholds, for any format and MTU: whenever the audio
\* thread is throttled, the worker waits neither for the prefill nor for the end
\* of rebuffering.
THEOREM ThrottleNeverStarves == Spec => [](session = "playing" => ThrottledFlows)
<1>1. FlowInv => (session = "playing" => ThrottledFlows)
  BY FlowsThrottled
<1> QED BY FlowInit, FlowStep, <1>1, PTL DEF Spec
-----------------------------------------------------------------------------
\* The sizes that hold for every format: a push takes no more than there is room
\* for.
LEMMA TakenFits ==
  ASSUME NEW f \in AFormat, NEW free \in Nat
  PROVE  Taken(f, free) \in 0 .. free
<1>1. /\ f.rate \in Nat /\ f.channels \in Nat \ {0} /\ f.bps \in Nat \ {0}
      /\ f.inBps \in Nat /\ f.dsd \in BOOLEAN
  BY DEF AFormat
<1> DEFINE unit == IF f.dsd THEN 4 * f.channels ELSE f.bps
           block == BlockBytes(f)
<1>2. unit \in Nat \ {0}
  BY <1>1
<1>3. block \in Nat
  BY BlockIsNat
<1> HIDE DEF unit, block
<1>4. AtMost(block, free) \in 0 .. free
  BY <1>3 DEF AtMost
<1> DEFINE staged == AtMost(AtMost(block, STAGING_SIZE), free)
<1>5. staged \in 0 .. free
  BY SMT, <1>3 DEF AtMost, STAGING_SIZE
<1> HIDE DEF staged
<1>6. (staged \div unit) * unit \in 0 .. free
  <2>1. (staged \div unit) * unit \in 0 .. staged
    BY <1>2, <1>5
  <2> QED BY <1>5, <2>1
<1>7. Taken(f, free) \in {AtMost(block, free), (staged \div unit) * unit}
  BY DEF Taken, block, unit, staged
<1> QED BY <1>4, <1>6, <1>7

\* The ring holds less than its size, and what the SDK takes was there.
StoreInv ==
  /\ avail \in Nat
  /\ Format # NoFormat => FlowOK(conf) /\ avail < conf.size

\* After silence, audio waits for a store: shutdown silence is over when a
\* handler is not waiting for it, audio was heard only after the warm-up, and
\* silence not meant as such has the prefill or the threshold to wait for.
FillInv ==
  /\ session = "playing" /\ tail = "none" => m_silenceBuffersRemaining = 0
  /\ session # "closed" /\ heard # "silence" => m_postOnlineDelayDone
  /\ /\ session = "playing" /\ tail = "none" /\ heard = "silence"
     /\ ~m_stopRequested /\ m_prefillComplete /\ ~m_rebuffering
     => avail >= AtMost(conf.prefillTarget, RebufferThreshold)

\* What the steps are made of.
LEMMA Frame ==
  ASSUME [Next]_vars
  PROVE  \/ UNCHANGED vars
         \/ Reconnect
         \/ \E f \in Formats[m_effectiveMTU] : Open(f)
         \/ PauseAsk \/ StopAsk \/ CloseAsk \/ QuickAsk
         \/ Pause \/ Stop \/ StopNow \/ CloseMute \/ Close
         \/ Resume \/ QuickOpen
         \/ Push
         \/ ShutdownSilence \/ MutedSilence \/ WarmupSilence \/ RebufferSilence \/ Underrun
         \/ Audio
BY DEF Next, getNewStream

LEMMA AvailMoves ==
  ASSUME [Next]_vars
  PROVE  \/ Push \/ Audio
         \/ \E f \in Formats[m_effectiveMTU] : Open(f)
         \/ conf' = conf /\ avail' \in {0, avail}
BY Frame DEF Reconnect, PauseAsk, StopAsk, CloseAsk, QuickAsk, Ask, Pause, Stop, Halt, StopNow,
     CloseMute, Close, Resume, QuickOpen, Restart, ShutdownSilence, MutedSilence, WarmupSilence,
     RebufferSilence, Underrun, Stream, vars, target, control, ring

\* A playing session has a format of the set.
LEMMA PlayingFormat ==
  ASSUME FlowInv, session # "closed"
  PROVE  /\ Format \in AFormat /\ Format # NoFormat
         /\ \E mtu \in Mtus : Format \in Formats[mtu]
<1>1. Format # NoFormat /\ (Format = NoFormat \/ \E mtu \in Mtus : Format \in Formats[mtu])
  BY DEF FlowInv
<1>2. PICK mtu \in Mtus : Format \in Formats[mtu]
  BY <1>1
<1>3. Formats[mtu] \subseteq AFormat
  BY <1>2, DataPathAssumption DEF AFormat
<1> QED BY <1>1, <1>2, <1>3

\* A push, of one block or of two, leaves the ring no emptier, and a byte free.
LEMMA PushFits ==
  ASSUME FlowInv, StoreInv, Push
  PROVE  avail' \in Nat /\ avail <= avail' /\ avail' < conf.size
<1>1. session # "closed" /\ Format \in AFormat /\ Format # NoFormat
  BY PlayingFormat DEF Push
<1>2. avail \in Nat /\ conf.size \in Nat /\ avail < conf.size
  BY <1>1 DEF StoreInv, FlowOK
<1> DEFINE first == avail + Taken(Format, Free(avail))
<1>3. avail <= first /\ first < conf.size /\ first \in Nat
  <2>1. Free(avail) \in Nat /\ Free(avail) = conf.size - avail - 1
    BY <1>2 DEF Free
  <2>2. Taken(Format, Free(avail)) \in 0 .. Free(avail)
    BY <1>1, <2>1, TakenFits
  <2> QED BY <1>2, <2>1, <2>2
<1> HIDE DEF first
<1>4. first <= first + Taken(Format, Free(first)) /\ first + Taken(Format, Free(first)) < conf.size
      /\ first + Taken(Format, Free(first)) \in Nat
  <2>1. Free(first) \in Nat /\ Free(first) = conf.size - first - 1
    BY <1>2, <1>3 DEF Free
  <2>2. Taken(Format, Free(first)) \in 0 .. Free(first)
    BY <1>1, <2>1, TakenFits
  <2> QED BY <1>2, <1>3, <2>1, <2>2
<1>5. avail' \in {first, first + Taken(Format, Free(first))}
  BY DEF Push, first
<1> QED BY <1>2, <1>3, <1>4, <1>5

LEMMA StoreInit == Init => StoreInv
BY DEF Init, StoreInv, Format, NoConf

LEMMA StoreStep == FlowInv /\ StoreInv /\ [Next]_vars => StoreInv'
<1> SUFFICES ASSUME FlowInv, StoreInv, [Next]_vars PROVE StoreInv'
  OBVIOUS
<1>1. CASE Push
  <2>1. conf' = conf /\ Format' = Format /\ FlowOK(conf)' = FlowOK(conf) /\ Format # NoFormat
    BY <1>1, PlayingFormat DEF Push, control, Format, FlowOK
  <2> QED BY <1>1, <2>1, PushFits DEF StoreInv
<1>2. CASE Audio
  <2>1. /\ conf' = conf /\ Format' = Format /\ FlowOK(conf)' = FlowOK(conf) /\ Format # NoFormat
        /\ avail' = avail - StreamSize /\ avail >= StreamSize
    BY <1>2, PlayingFormat DEF Audio, Stream, control, Format, FlowOK
  <2>2. StreamSize \in Nat /\ avail \in Nat /\ conf.size \in Nat /\ avail < conf.size
    BY <2>1 DEF StreamSize, FlowOK, StoreInv
  <2>3. avail' \in Nat /\ avail' < conf.size
    BY <2>1, <2>2
  <2> QED BY <2>1, <2>3 DEF StoreInv
<1>3. ASSUME NEW f \in Formats[m_effectiveMTU], Open(f) PROVE StoreInv'
  <2>1. f \in AFormat /\ m_effectiveMTU \in Nat
    BY <1>3, DataPathAssumption DEF AFormat, FlowInv
  <2> DEFINE c == configureRing(f, m_effectiveMTU)
  <2>2. FlowOK(c)
    BY <2>1, FlowingRing
  <2>3. conf' = c /\ avail' = 0
    BY <1>3 DEF Open
  <2> HIDE DEF c
  <2>4. 0 < c.size
    BY <2>2 DEF FlowOK
  <2>5. FlowOK(conf)' /\ avail' \in Nat /\ avail' < conf'.size
    BY <2>2, <2>3, <2>4 DEF FlowOK
  <2> QED BY <2>5 DEF StoreInv
<1>4. CASE conf' = conf /\ avail' \in {0, avail}
  <2>1. Format' = Format /\ FlowOK(conf)' = FlowOK(conf)
    BY <1>4 DEF Format, FlowOK
  <2>2. Format # NoFormat => avail' < conf.size
    BY <1>4 DEF StoreInv, FlowOK
  <2> QED BY <1>4, <2>1, <2>2 DEF StoreInv
<1> QED BY <1>1, <1>2, <1>3, <1>4, AvailMoves
-----------------------------------------------------------------------------
LEMMA FillInit == Init => FillInv
BY DEF Init, FillInv

\* The shutdown silence is over whenever a session plays and no handler waits.
LEMMA SilenceOverStep ==
  ASSUME FillInv, [Next]_vars
  PROVE  (session = "playing" /\ tail = "none" => m_silenceBuffersRemaining = 0)'
<1>1. CASE session' = session /\ tail' = tail
           /\ m_silenceBuffersRemaining' = m_silenceBuffersRemaining
  BY <1>1 DEF FillInv
<1>2. CASE m_silenceBuffersRemaining' = 0
  BY <1>2
<1>3. CASE tail' # "none" \/ session' # "playing"
  BY <1>3
<1>4. CASE ShutdownSilence
  BY <1>4 DEF ShutdownSilence, Stream, control, FillInv
<1> QED BY <1>1, <1>2, <1>3, <1>4, Frame
      DEF Reconnect, Open, PauseAsk, StopAsk, CloseAsk, QuickAsk, Ask, Pause, Stop, Halt, StopNow,
          CloseMute, Close, Resume, QuickOpen, Restart, Push, MutedSilence, WarmupSilence,
          RebufferSilence, Underrun, Audio, Warm, Ready, NoMoreSilence, Stream, vars, control

\* Audio was heard only when the warm-up is over.
LEMMA HeardWarmStep ==
  ASSUME FlowInv, FillInv, [Next]_vars
  PROVE  (session # "closed" /\ heard # "silence" => m_postOnlineDelayDone)'
<1>1. CASE session' = "closed" \/ heard' = "silence"
  BY <1>1
<1>2. CASE /\ session' # "closed" => session # "closed"
           /\ heard' = heard /\ m_postOnlineDelayDone' = m_postOnlineDelayDone
  BY <1>2 DEF FillInv
<1>3. CASE Audio
  BY <1>3 DEF Audio, Warm, Ready, warmup
<1>4. tail # "none" => session # "closed"
  BY DEF FlowInv
<1> QED BY <1>1, <1>2, <1>3, <1>4, Frame
      DEF Reconnect, Open, PauseAsk, StopAsk, CloseAsk, QuickAsk, Ask, Pause, Stop, Halt, StopNow,
          MayCommand, CloseMute, Close, Resume, QuickOpen, Restart, Push, ShutdownSilence,
          MutedSilence, WarmupSilence, RebufferSilence, Underrun, Stream, vars, control, warmup,
          history

\* What a worker in silence waits for, and what it has when it does not wait.
FilledOrWaits ==
  /\ session = "playing" /\ tail = "none" /\ heard = "silence"
  /\ ~m_stopRequested /\ m_prefillComplete /\ ~m_rebuffering
  => avail >= AtMost(conf.prefillTarget, RebufferThreshold)

LEMMA FilledStep ==
  ASSUME FlowInv, StoreInv, FillInv, [Next]_vars
  PROVE  FilledOrWaits'
<1> DEFINE least == AtMost(conf.prefillTarget, RebufferThreshold)
<1>0. FilledOrWaits
  BY DEF FillInv, FilledOrWaits
<1>1. CASE session' # "playing" \/ tail' # "none" \/ heard' = "audio" \/ m_stopRequested'
           \/ m_rebuffering' \/ ~m_prefillComplete'
  BY <1>1 DEF FilledOrWaits
<1>2. CASE /\ conf' = conf /\ avail' = avail /\ m_prefillComplete' = m_prefillComplete
           /\ m_rebuffering' = m_rebuffering /\ heard = "silence"
           /\ session' = session /\ tail' = tail /\ m_stopRequested' = m_stopRequested
  <2>1. least' = least
    BY <1>2 DEF RebufferThreshold
  <2> QED BY <1>0, <1>2, <2>1, Zenon DEF FilledOrWaits, least
<1>3. CASE Push
  <2>1. FlowOK(conf)
    BY <1>3 DEF Push, FlowInv
  <2>2. /\ conf' = conf /\ session' = session /\ tail' = tail /\ m_stopRequested' = m_stopRequested
        /\ m_rebuffering' = m_rebuffering /\ heard' = heard /\ conf'.prefillTarget = conf.prefillTarget
        /\ m_prefillComplete' = (m_prefillComplete \/ avail' >= conf.prefillTarget)
    BY <1>3 DEF Push, control, history, Prefilled
  <2>3. avail' \in Nat /\ avail \in Nat /\ avail <= avail'
    BY <1>3, PushFits DEF StoreInv
  <2>4. least' = least /\ least \in Nat /\ least <= conf.prefillTarget /\ conf.prefillTarget \in Nat
    <3>1. RebufferThreshold \in Nat /\ RebufferThreshold' = RebufferThreshold
      BY <2>1, <2>2 DEF RebufferThreshold, FlowOK
    <3> HIDE DEF RebufferThreshold
    <3>2. least \in Nat /\ least <= conf.prefillTarget /\ conf.prefillTarget \in Nat
      BY <2>1, <3>1 DEF AtMost, FlowOK
    <3> QED BY <2>2, <3>1, <3>2, Zenon
  <2> SUFFICES ASSUME session = "playing", tail = "none", heard = "silence", ~m_stopRequested,
                      m_prefillComplete', ~m_rebuffering
               PROVE  avail' >= least'
    BY <2>2 DEF FilledOrWaits
  <2>5. CASE m_prefillComplete
    <3>1. avail >= least
      BY <1>0, <2>5, Zenon DEF FilledOrWaits, least
    <3> HIDE DEF least
    <3> QED BY <2>3, <2>4, <3>1
  <2>6. CASE avail' >= conf.prefillTarget
    <3> HIDE DEF least
    <3> QED BY <2>3, <2>4, <2>6
  <2> QED BY <2>2, <2>5, <2>6
<1>4. CASE ShutdownSilence
  BY <1>1, <1>4 DEF ShutdownSilence, Stream, control, FillInv
<1>5. CASE MutedSilence
  BY <1>1, <1>5 DEF MutedSilence, Stream, control, ring
<1>6. CASE WarmupSilence
  <2>1. heard = "silence"
    BY <1>6 DEF WarmupSilence, Stream, FillInv
  <2> QED BY <1>2, <1>6, <2>1 DEF WarmupSilence, Stream, control, ring
<1>7. CASE RebufferSilence
  BY <1>1, <1>7 DEF RebufferSilence, Waits, ring
<1>8. CASE Underrun \/ Audio
  BY <1>1, <1>8 DEF Underrun, Audio, Stream
<1>9. CASE heard # "silence" /\ UNCHANGED heard
  BY <1>9 DEF FilledOrWaits
<1> QED BY <1>1, <1>2, <1>3, <1>4, <1>5, <1>6, <1>7, <1>8, <1>9, Frame
      DEF Reconnect, Open, PauseAsk, StopAsk, CloseAsk, QuickAsk, Ask, Pause, Stop, Halt, StopNow,
          CloseMute, Close, Resume, QuickOpen, Restart, vars, control, ring, history

LEMMA FillStep == FlowInv /\ StoreInv /\ FillInv /\ [Next]_vars => FillInv'
BY SilenceOverStep, HeardWarmStep, FilledStep DEF FillInv, FilledOrWaits

\* After silence, audio comes back with a store behind it, for every format and
\* MTU and in every order of commands, pushes and buffers.
THEOREM ComesBackFilled == Spec => AudioResumesFilled
<1>1. FlowInv /\ FillInv /\ [Next]_vars =>
        [heard = "silence" /\ heard' = "audio" /\ tail = "none" =>
           avail >= AtMost(conf.prefillTarget, RebufferThreshold)]_vars
  <2> SUFFICES ASSUME FlowInv, FillInv, Next, heard = "silence", heard' = "audio", tail = "none"
               PROVE  avail >= AtMost(conf.prefillTarget, RebufferThreshold)
    OBVIOUS
  <2>1. Audio
    BY Frame DEF Reconnect, Open, PauseAsk, StopAsk, CloseAsk, QuickAsk, Ask, Pause, Stop, Halt,
       StopNow, CloseMute, Close, Resume, QuickOpen, Restart, Push, ShutdownSilence, MutedSilence,
       WarmupSilence, RebufferSilence, Underrun, Stream, vars, history
  <2>2. /\ session = "playing" /\ ~m_stopRequested /\ m_prefillComplete
        /\ m_rebuffering => ~(avail < RebufferThreshold)
    BY <2>1 DEF Audio, Warm, Ready, Waits, Stream
  <2>3. CASE m_rebuffering
    <3>1. FlowOK(conf) /\ avail \in Int
      BY <2>2 DEF FlowInv
    <3> QED BY <2>2, <2>3, <3>1 DEF FlowOK, RebufferThreshold, AtMost
  <2>4. CASE ~m_rebuffering
    BY <2>2, <2>4 DEF FillInv
  <2> QED BY <2>3, <2>4
<1> QED BY FlowInit, FlowStep, StoreInit, StoreStep, FillInit, FillStep, <1>1, PTL
        DEF Spec, AudioResumesFilled
-----------------------------------------------------------------------------
\* Multiples of a unit.
LEMMA IsMultiple ==
  ASSUME NEW u \in Nat \ {0}, NEW k \in Int
  PROVE  (k * u) % u = 0
OBVIOUS

LEMMA MultipleOf ==
  ASSUME NEW u \in Nat \ {0}, NEW n \in Int, n % u = 0
  PROVE  n \div u \in Int /\ n = (n \div u) * u
OBVIOUS

LEMMA MultiplesAdd ==
  ASSUME NEW u \in Nat \ {0}, NEW m \in Int, NEW n \in Int, m % u = 0, n % u = 0
  PROVE  (m + n) % u = 0 /\ (m - n) % u = 0
<1> DEFINE j == m \div u
           k == n \div u
<1>1. j \in Int /\ m = j * u /\ k \in Int /\ n = k * u
  BY MultipleOf
<1> HIDE DEF j, k
<1>2. (j + k) * u = m + n /\ (j - k) * u = m - n
  BY <1>1
<1>3. ((j + k) * u) % u = 0 /\ ((j - k) * u) % u = 0
  BY <1>1, IsMultiple
<1> QED BY <1>2, <1>3

\* What is asked of a ring, and the ring: no less is given, and no less than
\* MIN_BUFFER_BYTES, up to MAX_BUFFER_BYTES.
WantedRing(bytesPerSecond, tenths) == (bytesPerSecond * tenths) \div 10
GivenRing(bytesPerSecond, tenths) == roundUpPow2(calculateBufferSize(bytesPerSecond, tenths))

LEMMA RoundedRing ==
  ASSUME NEW bytesPerSecond \in Nat, NEW tenths \in Nat
  PROVE  /\ GivenRing(bytesPerSecond, tenths) \in Nat
         /\ WantedRing(bytesPerSecond, tenths) \in Nat
         /\ GivenRing(bytesPerSecond, tenths) >= 65536
         /\ \/ GivenRing(bytesPerSecond, tenths) >= WantedRing(bytesPerSecond, tenths)
            \/ GivenRing(bytesPerSecond, tenths) >= 33554432
<1> DEFINE wanted == WantedRing(bytesPerSecond, tenths)
           value == calculateBufferSize(bytesPerSecond, tenths)
           size == GivenRing(bytesPerSecond, tenths)
<1>1. wanted \in Nat
  <2>1. bytesPerSecond * tenths \in Nat
    BY ProductIsNat
  <2> QED BY <2>1 DEF WantedRing
<1>2. value = AtMost(AtLeast(wanted, 65536), 33554432)
  BY DEF calculateBufferSize, MIN_BUFFER_BYTES, MAX_BUFFER_BYTES, WantedRing
<1>3. size = roundUpPow2(value)
  BY DEF GivenRing
<1> HIDE DEF wanted, value, size
<1>4. value \in Nat /\ 65536 <= value /\ value <= 33554432
      /\ (wanted <= value \/ value = 33554432)
  BY SMT, <1>1, <1>2 DEF AtMost, AtLeast
<1>5. \E s \in RingSizes : value <= s /\ s < 2 * value
  <2>1. CASE value <= 1048576
    BY SMT, <1>4, <2>1 DEF RingSizes
  <2>2. CASE ~(value <= 1048576)
    BY SMT, <1>4, <2>2 DEF RingSizes
  <2> QED BY <2>1, <2>2
<1>6. size \in RingSizes /\ value <= size
  BY <1>3, <1>5 DEF roundUpPow2
<1>7. size \in Nat
  BY SMT, <1>6 DEF RingSizes
<1>8. size >= 65536 /\ (size >= wanted \/ size >= 33554432)
  BY <1>1, <1>4, <1>6, <1>7
<1> QED BY SMT, <1>1, <1>7, <1>8 DEF size, wanted

\* What the sizes of a real format have in common: blocks of whole frames that
\* the staging area holds and that go in whole while the ring is at most half
\* full, two of them while it is at most a quarter full, and buffers of whole
\* frames.
FitOK(c) ==
  LET unit == FrameUnit(c.format)
      block == BlockBytes(c.format)
  IN /\ unit \in Nat \ {0}
     /\ block \in Nat \ {0} /\ block % unit = 0
     /\ block <= STAGING_SIZE
     /\ 8 * block <= 3 * c.size
     /\ c.buffer.bytes % unit = 0 /\ c.buffer.frame % unit = 0

LEMMA FittingPcm ==
  ASSUME NEW f \in AFormat, NEW mtu \in Nat, RealFormat(f), ~f.dsd
  PROVE  FitOK(configureRing(f, mtu))
<1> DEFINE c == configureRing(f, mtu)
           unit == f.channels * f.bps
           block == 2048 * unit
           bytesPerSecond == f.rate * f.channels * f.bps
           tenths == pcmBufferTenths(f.rate, f.remote)
           wanted == WantedRing(bytesPerSecond, tenths)
           size == GivenRing(bytesPerSecond, tenths)
<1>1. f.rate \in Nat \ {0} /\ f.channels \in Nat \ {0} /\ f.bps \in Nat \ {0}
  BY DEF AFormat
<1>2. unit \in Nat \ {0}
  BY <1>1
<1>3. c.format = f /\ c.size = size /\ c.buffer = PcmBuffer(f, mtu)
  BY DEF configureRing, configureRingPCM, PcmRingSize, GivenRing
<1>4. FrameUnit(f) = unit /\ BlockBytes(f) = block
  <2>1. 2048 * f.channels * f.bps = 2048 * (f.channels * f.bps)
    BY <1>1
  <2> QED BY <2>1 DEF FrameUnit, BlockBytes
<1>5. c.buffer.frame = unit /\ \E k \in Int : c.buffer.bytes = k * unit
  <2>1. f.rate \div 1000 \in Int
    BY <1>1
  <2>2. efficientMTU(mtu) \div unit \in Int
    <3>1. efficientMTU(mtu) \in Nat
      BY DEF efficientMTU
    <3> HIDE DEF unit
    <3> QED BY <1>2, <3>1
  <2>3. c.buffer.bytes \in {(f.rate \div 1000) * unit, (efficientMTU(mtu) \div unit) * unit}
        /\ c.buffer.frame = unit
    BY <1>3 DEF PcmBuffer
  <2> HIDE DEF unit
  <2> QED BY <2>1, <2>2, <2>3
<1>6. unit <= 32 /\ (f.rate >= 11025 \/ unit <= 12)
  BY DEF RealFormat
<1>7. 8 * block <= 3 * size
  <2>1. bytesPerSecond = f.rate * unit
    BY <1>1
  <2>0. bytesPerSecond \in Nat
    BY <1>1
  <2>2. tenths \in Nat /\ tenths >= 5
    BY DEF pcmBufferTenths
  <2> HIDE DEF bytesPerSecond, tenths
  <2>3. /\ size \in Nat /\ wanted \in Nat /\ size >= 65536
        /\ size >= wanted \/ size >= 33554432
    BY SMT, <2>0, <2>2, RoundedRing
  <2> HIDE DEF size, wanted, unit
  <2>4. CASE unit <= 12 \/ size >= 33554432
    BY <1>2, <1>6, <2>3, <2>4
  <2>5. CASE f.rate >= 11025 /\ size >= wanted
    <3>1. bytesPerSecond >= 11025 * unit
      BY <1>1, <1>2, <2>1, <2>5
    <3>2. bytesPerSecond * tenths >= 5 * bytesPerSecond /\ bytesPerSecond * tenths \in Nat
      BY <2>0, <2>2
    <3> DEFINE product == bytesPerSecond * tenths
    <3>3. product \in Nat /\ product >= 55125 * unit
      BY <1>2, <2>0, <3>1, <3>2
    <3> HIDE DEF product
    <3>4. product \div 10 >= 5512 * unit
      BY <1>2, <3>3
    <3>5. wanted = product \div 10
      BY DEF product, wanted, WantedRing
    <3> QED BY <1>2, <2>3, <2>5, <3>4, <3>5
  <2> QED BY <1>6, <2>3, <2>4, <2>5
<1> HIDE DEF c, unit, size
<1>8. block \in Nat \ {0} /\ block <= 65536 /\ block % unit = 0
  BY <1>2, <1>6, IsMultiple
<1>9. c.buffer.bytes % unit = 0 /\ c.buffer.frame % unit = 0
  <2>1. PICK k \in Int : c.buffer.bytes = k * unit
    BY <1>5
  <2>2. (k * unit) % unit = 0 /\ unit % unit = 0
    BY <1>2, IsMultiple
  <2> QED BY <1>5, <2>1, <2>2
<1> HIDE DEF block
<1> QED BY <1>2, <1>3, <1>4, <1>7, <1>8, <1>9 DEF FitOK, c, STAGING_SIZE

\* DSD: whole groups of 256 samples of 12 ms, of which a ring of 0.8 s holds many.
LEMMA DsdSamples ==
  ASSUME NEW rate \in Nat, NEW samples, samples = calculateDsdSamplesPerCall(rate)
  PROVE  /\ samples \in Nat \ {0} /\ samples <= 131072
         /\ \E k \in Nat : samples = k * 256
         /\ samples <= 8192 \/ 250 * samples <= 3 * rate + 64000
<1> DEFINE ms == (rate * 3) \div 250
           groups == (ms + 256 - 1) \div 256
<1>1. ms \in Nat /\ 250 * ms <= 3 * rate
  OBVIOUS
<1>2. samples = AtMost(AtLeast(groups * 256, 8192), 131072)
  BY SMT DEF calculateDsdSamplesPerCall, RoundedUp
<1> HIDE DEF ms
<1>3. groups \in Nat /\ groups * 256 <= ms + 255
  BY SMT, <1>1
<1> HIDE DEF groups
<1>4. /\ samples \in {groups * 256, 32 * 256, 512 * 256} /\ samples >= 8192 /\ samples <= 131072
      /\ samples <= 8192 \/ samples <= groups * 256
  BY ONLY SMT, <1>2, <1>3 DEF AtMost, AtLeast
<1>5. \E k \in Nat : samples = k * 256
  BY ONLY <1>3, <1>4
<1>6. samples \in Nat \ {0}
  BY ONLY <1>3, <1>4
<1>7. samples <= 8192 \/ 250 * samples <= 3 * rate + 64000
  BY ONLY <1>1, <1>3, <1>4, <1>6, rate \in Nat
<1> QED BY ONLY <1>4, <1>5, <1>6, <1>7

LEMMA DsdRatio ==
  ASSUME NEW samples \in Nat, samples > 8192, NEW eighth \in Nat,
         250 * samples <= 24 * eighth + 64021, NEW n \in 1 .. 4
  PROVE  samples * n <= 3 * ((eighth * n * 8) \div 10)
<1>1. CASE n = 1
  <2>1. 3 * ((eighth * 8) \div 10) >= samples
    OBVIOUS
  <2> QED BY <1>1, <2>1
<1>2. CASE n = 2
  <2>1. 3 * ((eighth * 16) \div 10) >= 2 * samples
    OBVIOUS
  <2>2. eighth * n * 8 = eighth * 16 /\ samples * n = 2 * samples
    BY <1>2
  <2> QED BY <2>1, <2>2
<1>3. CASE n = 3
  <2>1. 3 * ((eighth * 24) \div 10) >= 3 * samples
    OBVIOUS
  <2>2. eighth * n * 8 = eighth * 24 /\ samples * n = 3 * samples
    BY <1>3
  <2> QED BY <2>1, <2>2
<1>4. CASE n = 4
  <2>1. 3 * ((eighth * 32) \div 10) >= 4 * samples
    OBVIOUS
  <2>2. eighth * n * 8 = eighth * 32 /\ samples * n = 4 * samples
    BY <1>4
  <2> QED BY <2>1, <2>2
<1> QED BY <1>1, <1>2, <1>3, <1>4

LEMMA FittingDsd ==
  ASSUME NEW f \in AFormat, NEW mtu \in Nat, mtu >= 83, RealFormat(f), f.dsd
  PROVE  FitOK(configureRing(f, mtu))
<1> DEFINE c == configureRing(f, mtu)
           unit == 4 * f.channels
           samples == calculateDsdSamplesPerCall(f.rate)
           block == (samples * f.channels) \div 8
           bytesPerSecond == (f.rate \div 8) * f.channels
           wanted == WantedRing(bytesPerSecond, 8)
           size == GivenRing(bytesPerSecond, 8)
<1>1. f.rate \in Nat \ {0} /\ f.channels \in 1 .. 4
  BY DEF AFormat, RealFormat
<1>2. unit \in Nat \ {0} /\ unit <= 16
  BY <1>1
<1>3. c.format = f /\ c.size = size /\ c.buffer = DsdBuffer(f, mtu)
  BY DEF configureRing, configureRingDSD, GivenRing, dsdBufferTenths
<1>4. FrameUnit(f) = unit /\ BlockBytes(f) = block
  BY DEF FrameUnit, BlockBytes
<1>5. c.buffer.frame = 0 /\ \E k \in Int : c.buffer.bytes = k * unit
  <2> DEFINE eff == efficientMTU(mtu)
             perMs == (f.rate \div 8000) * f.channels
  <2>1. eff \in Nat /\ eff >= 80
    BY DEF efficientMTU
  <2>2. /\ c.buffer.frame = 0
        /\ c.buffer.bytes = IF RoundedUp(perMs, unit) <= eff THEN RoundedUp(perMs, unit)
                            ELSE AtLeast((eff \div unit) * unit, 64)
    BY <1>3 DEF DsdBuffer
  <2>3. perMs \in Nat
    <3>1. f.rate \div 8000 \in Nat
      BY <1>1
    <3> QED BY <1>1, <3>1
  <2> HIDE DEF eff, perMs, unit, c
  <2>4. RoundedUp(perMs, unit) = ((perMs + unit - 1) \div unit) * unit
        /\ (perMs + unit - 1) \div unit \in Int
    BY <1>2, <2>3 DEF RoundedUp
  <2>5. (eff \div unit) * unit >= 64 /\ eff \div unit \in Int
    BY <1>2, <2>1
  <2>6. AtLeast((eff \div unit) * unit, 64) = (eff \div unit) * unit
    <3> DEFINE whole == (eff \div unit) * unit
    <3>1. whole \in Int /\ whole >= 64
      BY <1>2, <2>5
    <3> HIDE DEF whole
    <3>2. AtLeast(whole, 64) = whole
      BY <3>1 DEF AtLeast
    <3> QED BY <3>2 DEF whole
  <2> QED BY <2>2, <2>4, <2>5, <2>6
<1>6. /\ samples \in Nat \ {0} /\ samples <= 131072
      /\ \E k \in Nat : samples = k * 256
      /\ samples <= 8192 \/ 250 * samples <= 3 * f.rate + 64000
  BY <1>1, DsdSamples
<1>7. bytesPerSecond \in Nat
  BY <1>1
<1> HIDE DEF c, samples
<1>8. /\ size \in Nat /\ wanted \in Nat /\ size >= 65536
      /\ size >= wanted \/ size >= 33554432
  BY <1>7, RoundedRing
<1> HIDE DEF size, wanted
<1>9. 8 * block <= samples * f.channels
  <2>1. samples * f.channels \in Nat
    BY <1>1, <1>6
  <2> QED BY <2>1
<1>10. block \in Nat \ {0} /\ \E k \in Int : block = k * unit
  <2>1. PICK k \in Nat : samples = k * 256
    BY <1>6
  <2>2. block = (32 * k) * f.channels /\ k # 0
    <3>1. samples * f.channels = 8 * ((32 * k) * f.channels)
      BY <1>1, <2>1
    <3>2. (32 * k) * f.channels \in Nat
      BY <1>1
    <3> DEFINE bytes == (32 * k) * f.channels
    <3> HIDE DEF bytes
    <3>3. (8 * bytes) \div 8 = bytes
      BY <3>2 DEF bytes
    <3> QED BY <1>6, <2>1, <3>1, <3>3 DEF bytes
  <2>3. (32 * k) * f.channels = (8 * k) * unit /\ (32 * k) * f.channels \in Nat \ {0}
    BY <1>1, <2>2
  <2> QED BY <2>2, <2>3
<1> HIDE DEF block
<1>11. 8 * block <= 524288
  BY <1>1, <1>6, <1>9, <1>10
<1>12. 8 * block <= 3 * size
  <2>1. CASE samples <= 8192
    BY <1>1, <1>6, <1>8, <1>9, <1>10, <2>1
  <2>2. CASE size >= 33554432
    BY <1>8, <1>10, <1>11, <2>2
  <2>3. CASE samples > 8192 /\ size >= wanted
    <3> DEFINE eighth == f.rate \div 8
    <3>1. eighth \in Nat /\ f.rate <= 8 * eighth + 7
      BY <1>1
    <3>2. bytesPerSecond = eighth * f.channels
      OBVIOUS
    <3>3. wanted = (eighth * f.channels * 8) \div 10
      BY DEF wanted, WantedRing
    <3> HIDE DEF eighth, bytesPerSecond, wanted
    <3>4. 250 * samples <= 24 * eighth + 64021
      BY <1>1, <1>6, <2>3, <3>1
    <3>5. samples * f.channels <= 3 * ((eighth * f.channels * 8) \div 10)
      BY <1>1, <1>6, <2>3, <3>1, <3>4, DsdRatio
    <3> DEFINE product == samples * f.channels
    <3>6. product \in Nat /\ 8 * block <= product /\ product <= 3 * wanted
      BY <1>1, <1>6, <1>9, <3>3, <3>5
    <3> HIDE DEF product
    <3> QED BY <1>8, <1>10, <2>3, <3>6
  <2> QED BY <1>6, <1>8, <2>1, <2>2, <2>3
<1> HIDE DEF unit
<1>13. block % unit = 0 /\ c.buffer.bytes % unit = 0 /\ c.buffer.frame % unit = 0
  <2>1. PICK k \in Int : block = k * unit
    BY <1>10
  <2>2. PICK j \in Int : c.buffer.bytes = j * unit
    BY <1>5
  <2>3. (k * unit) % unit = 0 /\ (j * unit) % unit = 0 /\ 0 % unit = 0
    BY <1>2, IsMultiple
  <2> QED BY <1>5, <2>1, <2>2, <2>3
<1> QED BY <1>2, <1>3, <1>4, <1>10, <1>11, <1>12, <1>13 DEF FitOK, c, STAGING_SIZE
-----------------------------------------------------------------------------
\* Each format fits the MTU it is opened on.
LEMMA Fitting ==
  ASSUME RealFormats, NEW mtu \in Mtus, NEW f \in Formats[mtu]
  PROVE  FitOK(configureRing(f, mtu))
<1>1. mtu \in Nat /\ mtu >= 83 /\ RealFormat(f) /\ f \in AFormat
  BY DataPathAssumption DEF RealFormats, AFormat
<1> QED BY <1>1, FittingPcm, FittingDsd

\* The ring and its configuration hold whole frames, whose blocks fit.
FitInv == session # "closed" => FitOK(conf) /\ avail % FrameUnit(Format) = 0

\* Where there is room for a block, all of it is taken, by every kind of push.
LEMMA BlockTaken ==
  ASSUME NEW f \in AFormat, NEW free \in Nat,
         FrameUnit(f) \in Nat \ {0}, BlockBytes(f) \in Nat, BlockBytes(f) % FrameUnit(f) = 0,
         BlockBytes(f) <= STAGING_SIZE, BlockBytes(f) <= free
  PROVE  Taken(f, free) = BlockBytes(f)
<1> DEFINE block == BlockBytes(f)
<1>1. block \in Nat /\ AtMost(block, free) = block /\ AtMost(AtMost(block, STAGING_SIZE), free) = block
  BY SMT DEF AtMost, STAGING_SIZE
<1>2. CASE f.dsd
  <2>1. Taken(f, free) = (block \div (4 * f.channels)) * (4 * f.channels)
    BY <1>1, <1>2 DEF Taken
  <2>2. FrameUnit(f) = 4 * f.channels
    BY <1>2 DEF FrameUnit
  <2>3. block = (block \div FrameUnit(f)) * FrameUnit(f)
    BY <1>1, MultipleOf
  <2> QED BY <2>1, <2>2, <2>3
<1>3. CASE ~f.dsd /\ f.bps = f.inBps
  BY <1>1, <1>3 DEF Taken
<1>4. CASE ~f.dsd /\ f.bps # f.inBps
  <2>1. Taken(f, free) = (block \div f.bps) * f.bps
    BY <1>1, <1>4 DEF Taken
  <2>0. 2048 * f.channels \in Int
    BY DEF AFormat
  <2>2. f.bps \in Nat \ {0}
    BY DEF AFormat
  <2>3. block = (2048 * f.channels) * f.bps
    BY <1>4 DEF BlockBytes
  <2>4. block % f.bps = 0
    BY <2>0, <2>2, <2>3, IsMultiple
  <2>5. block \in Int
    BY <1>1
  <2>6. block = (block \div f.bps) * f.bps
    BY ONLY <2>2, <2>4, <2>5, MultipleOf, Zenon
  <2> QED BY <2>1, <2>6
<1> QED BY <1>2, <1>3, <1>4

\* The block of an audio thread that is not throttled goes in whole, and so does
\* the second one, where it pushes two.
LEMMA BlocksFit ==
  ASSUME FlowInv, StoreInv, FitInv, session # "closed"
  PROVE  /\ BlockFits
         /\ ~Throttled /\ 4 * avail < conf.size =>
              Taken(Format, Free(avail + BlockBytes(Format))) = BlockBytes(Format)
<1> DEFINE block == BlockBytes(Format)
<1>1. Format \in AFormat /\ FlowOK(conf) /\ avail \in Nat /\ avail < conf.size
  BY PlayingFormat DEF StoreInv
<1>2. /\ FrameUnit(Format) \in Nat \ {0}
      /\ block \in Nat \ {0} /\ block % FrameUnit(Format) = 0 /\ block <= STAGING_SIZE
      /\ 8 * block <= 3 * conf.size
  BY DEF FitInv, FitOK, Format
<1>3. conf.size \in Nat
  BY <1>1 DEF FlowOK
<1>4. ASSUME ~Throttled PROVE Taken(Format, Free(avail)) = block
  <2>1. Free(avail) \in Nat /\ block <= Free(avail)
    <3> HIDE DEF block
    <3> QED BY <1>1, <1>2, <1>3, <1>4 DEF Throttled, Free
  <2> QED BY <1>1, <1>2, <2>1, BlockTaken
<1>5. ASSUME 4 * avail < conf.size PROVE Taken(Format, Free(avail + block)) = block
  <2>1. Free(avail + block) \in Nat /\ block <= Free(avail + block)
    <3> HIDE DEF block
    <3> QED BY <1>1, <1>2, <1>3, <1>5 DEF Free
  <2> QED BY <1>1, <1>2, <2>1, BlockTaken
<1> QED BY <1>4, <1>5 DEF BlockFits

LEMMA FitInit == Init => FitInv
BY DEF Init, FitInv

LEMMA FitStep ==
  ASSUME RealFormats
  PROVE  FlowInv /\ StoreInv /\ FitInv /\ [Next]_vars => FitInv'
<1> SUFFICES ASSUME FlowInv, StoreInv, FitInv, [Next]_vars, session' # "closed" PROVE FitInv'
  BY DEF FitInv
<1>1. ASSUME conf' = conf, session # "closed", avail' % FrameUnit(Format) = 0 PROVE FitInv'
  <2>1. Format' = Format /\ FitOK(conf)' = FitOK(conf)
    BY <1>1 DEF Format, FitOK
  <2> QED BY <1>1, <2>1 DEF FitInv
<1>2. CASE Push
  <2> DEFINE unit == FrameUnit(Format)
             block == BlockBytes(Format)
  <2>1. session # "closed" /\ conf' = conf /\ ~Throttled
    BY <1>2 DEF Push, control
  <2>2. unit \in Nat \ {0} /\ block \in Nat /\ block % unit = 0 /\ avail % unit = 0 /\ avail \in Nat
    BY <2>1 DEF FitInv, FitOK, Format, StoreInv
  <2>3. /\ Taken(Format, Free(avail)) = block
        /\ 4 * avail < conf.size => Taken(Format, Free(avail + block)) = block
    BY <2>1, BlocksFit DEF BlockFits
  <2>4. avail' = avail + block \/ avail' = (avail + block) + block
    BY <1>2, <2>3 DEF Push, Blocks
  <2> HIDE DEF unit, block
  <2>5. avail \in Int /\ block \in Int /\ avail + block \in Int
    BY <2>2
  <2>6. (avail + block) % unit = 0
    BY ONLY <2>2, <2>5, MultiplesAdd, Zenon
  <2>7. ((avail + block) + block) % unit = 0
    BY ONLY <2>2, <2>5, <2>6, MultiplesAdd, Zenon
  <2> QED BY <1>1, <2>1, <2>4, <2>6, <2>7 DEF unit
<1>3. CASE Audio
  <2> DEFINE unit == FrameUnit(Format)
  <2>1. session # "closed" /\ conf' = conf /\ avail' = avail - StreamSize
    BY <1>3 DEF Audio, Stream, control
  <2>2. /\ unit \in Nat \ {0} /\ avail % unit = 0 /\ avail \in Nat
        /\ conf.buffer.bytes % unit = 0 /\ conf.buffer.frame % unit = 0
        /\ conf.buffer.bytes \in Nat /\ conf.buffer.frame \in Nat
    BY <2>1 DEF FitInv, FitOK, Format, StoreInv, FlowInv, FlowOK
  <2> HIDE DEF unit
  <2>3. avail \in Int /\ conf.buffer.bytes \in Int /\ conf.buffer.frame \in Int
    BY <2>2
  <2>4. (conf.buffer.bytes + conf.buffer.frame) % unit = 0
    BY ONLY <2>2, <2>3, MultiplesAdd, Zenon
  <2>5. StreamSize \in {conf.buffer.bytes, conf.buffer.bytes + conf.buffer.frame}
    BY <2>3 DEF StreamSize
  <2>6. StreamSize \in Int /\ StreamSize % unit = 0
    BY <2>2, <2>3, <2>4, <2>5
  <2>7. (avail - StreamSize) % unit = 0
    BY ONLY <2>2, <2>3, <2>6, MultiplesAdd, Zenon
  <2> QED BY <1>1, <2>1, <2>7 DEF unit
<1>4. ASSUME NEW f \in Formats[m_effectiveMTU], Open(f) PROVE FitInv'
  <2> DEFINE c == configureRing(f, m_effectiveMTU)
  <2>1. FitOK(c)
    BY <1>4, Fitting DEF FlowInv
  <2>2. conf' = c /\ avail' = 0
    BY <1>4 DEF Open
  <2> HIDE DEF c
  <2>3. FitOK(conf)' /\ Format' = c.format
    BY <2>1, <2>2 DEF FitOK, Format
  <2>4. FrameUnit(Format)' = FrameUnit(c.format) /\ FrameUnit(c.format) \in Nat \ {0}
    BY <2>1, <2>3 DEF FitOK, FrameUnit
  <2>5. 0 % FrameUnit(c.format) = 0
    BY <2>4
  <2> QED BY <2>2, <2>3, <2>4, <2>5 DEF FitInv
<1>5. CASE conf' = conf /\ avail' \in {0, avail} /\ session # "closed"
  <2>1. FrameUnit(Format) \in Nat \ {0} /\ avail % FrameUnit(Format) = 0
    BY <1>5 DEF FitInv, FitOK, Format
  <2>2. 0 % FrameUnit(Format) = 0
    BY <2>1
  <2> QED BY <1>1, <1>5, <2>1, <2>2
<1>6. tail # "none" => session # "closed"
  BY DEF FlowInv
<1>7. \/ session # "closed" \/ \E f \in Formats[m_effectiveMTU] : Open(f)
  BY <1>6, Frame
     DEF Reconnect, PauseAsk, StopAsk, CloseAsk, QuickAsk, Ask, Pause, Stop, Halt, StopNow,
         CloseMute, Close, Resume, QuickOpen, Restart, Push, ShutdownSilence, MutedSilence,
         WarmupSilence, RebufferSilence, Underrun, Audio, Stream, vars, control
<1> QED BY <1>2, <1>3, <1>4, <1>5, <1>7, AvailMoves

\* Every operation keeps whole frames in the ring, for every real format.
THEOREM FramesKept ==
  ASSUME RealFormats
  PROVE  Spec => []WholeFrames
<1>1. FitInv => WholeFrames
  BY DEF FitInv, WholeFrames
<1> QED BY FlowInit, FlowStep, StoreInit, StoreStep, FitInit, FitStep, <1>1, PTL DEF Spec

\* The thresholds fit for every real format: neither side waits for the other,
\* and no block is cut at the end of the ring.
THEOREM SizesFit ==
  ASSUME RealFormats
  PROVE  Spec => []ThresholdsFit
<1>1. FlowInv /\ StoreInv /\ FitInv => ThresholdsFit
  <2> SUFFICES ASSUME FlowInv, StoreInv, FitInv, session = "playing"
               PROVE  ThrottledFlows /\ BlockFits
    BY DEF ThresholdsFit
  <2>1. ThrottledFlows
    BY FlowsThrottled
  <2>2. BlockFits
    BY BlocksFit
  <2> QED BY <2>1, <2>2
<1> QED BY FlowInit, FlowStep, StoreInit, StoreStep, FitInit, FitStep, <1>1, PTL DEF Spec
-----------------------------------------------------------------------------
\* A rate that scales no shutdown silence: PCM's, which stays when DSD is opened.
PcmRate(rate) == rate \in Nat /\ rate \div DSD64 = 0

\* What TypeOK says beyond the other invariants.
TypeInv ==
  /\ PcmRate(m_sampleRate) /\ m_isFirstConnect \in BOOLEAN
  /\ session \in {"closed", "playing", "paused", "stopped"}
  /\ tail \in {"none", "resume", "pause", "stop", "close"}
  /\ m_prefillComplete \in BOOLEAN /\ m_postOnlineDelayDone \in BOOLEAN
  /\ m_rebuffering \in BOOLEAN /\ m_stopRequested \in BOOLEAN
  /\ m_stabilizationCount \in 0 .. 3000 /\ m_silenceBuffersRemaining \in 0 .. 400
  /\ drift \in Int /\ heard \in {"silence", "audio"}

LEMMA TypeInit == Init => TypeInv
<1>1. ASSUME Init PROVE PcmRate(m_sampleRate)
  BY <1>1, SMT DEF Init, PcmRate, DSD64
<1>2. ASSUME Init PROVE /\ m_stabilizationCount \in 0 .. 3000 /\ drift \in Int
                        /\ m_silenceBuffersRemaining \in 0 .. 400
  BY <1>2 DEF Init
<1>3. ASSUME Init PROVE /\ m_isFirstConnect \in BOOLEAN /\ m_rebuffering \in BOOLEAN
                        /\ m_prefillComplete \in BOOLEAN /\ m_postOnlineDelayDone \in BOOLEAN
                        /\ m_stopRequested \in BOOLEAN
  <2>1. /\ m_isFirstConnect = TRUE /\ m_rebuffering = FALSE /\ m_prefillComplete = FALSE
        /\ m_postOnlineDelayDone = FALSE /\ m_stopRequested = FALSE
    BY <1>3 DEF Init
  <2> QED BY ONLY <2>1, Zenon
<1>4. ASSUME Init PROVE session = "closed" /\ tail = "none" /\ heard = "silence"
  BY <1>4 DEF Init
<1> QED BY <1>1, <1>2, <1>3, <1>4 DEF TypeInv

LEMMA WarmupTarget ==
  ASSUME NEW dsd, NEW rate \in Nat, NEW bps \in Nat, NEW channels \in Nat,
         NEW first, NEW mtu \in Nat, mtu >= 83
  PROVE  stabilizationTarget(dsd, rate, bps, channels, first, mtu) \in 0 .. 3000
<1> DEFINE ms == IF dsd THEN DsdWarmupMs(rate) ELSE IF first THEN 200 ELSE 100
           bytesPerSecond == IF dsd THEN (rate * 2) \div 8 ELSE rate * channels * bps
           wanted == (bytesPerSecond \div 25) * ms
           packets == (mtu - 3) * 40
           buffers == CeilDiv(wanted, packets)
<1>1. ms \in Nat
  <2>1. rate \div DSD64 \in Nat
    BY DEF DSD64
  <2> QED BY <2>1 DEF DsdWarmupMs, AtLeast
<1>2. bytesPerSecond \in Nat
  <2>1. rate * channels \in Nat
    BY ProductIsNat
  <2>2. rate * channels * bps \in Nat
    BY <2>1, ProductIsNat
  <2>3. (rate * 2) \div 8 \in Nat
    OBVIOUS
  <2> QED BY <2>2, <2>3
<1>3. packets \in Nat \ {0}
  OBVIOUS
<1> HIDE DEF ms, bytesPerSecond, packets
<1>4. wanted \in Nat
  <2>1. bytesPerSecond \div 25 \in Nat
    BY <1>2
  <2> QED BY <1>1, <2>1, ProductIsNat
<1> HIDE DEF wanted
<1>5. buffers \in Nat
  BY <1>3, <1>4 DEF CeilDiv
<1>6. stabilizationTarget(dsd, rate, bps, channels, first, mtu)
        = AtLeast(AtMost(buffers, 3000), IF dsd THEN 50 ELSE 20)
  BY DEF stabilizationTarget, buffers, wanted, packets, bytesPerSecond, ms
<1> HIDE DEF buffers
<1> QED BY <1>5, <1>6 DEF AtLeast, AtMost

LEMMA SilenceAsked ==
  ASSUME NEW buffers \in 0 .. 50, NEW dsd \in BOOLEAN, NEW rate, PcmRate(rate)
  PROVE  SilenceBuffers(buffers, dsd, rate) \in 0 .. 400
<1>1. AtLeast(rate \div DSD64, 1) = 1
  BY DEF AtLeast, PcmRate
<1>2. SilenceBuffers(buffers, dsd, rate) = buffers * 1
  BY <1>1 DEF SilenceBuffers
<1> QED BY <1>2

\* What open() stores of a real format's rate.
LEMMA OpenedRate ==
  ASSUME RealFormats, FlowInv, NEW f \in Formats[m_effectiveMTU], ~f.dsd
  PROVE  PcmRate(f.rate)
<1>1. f \in AFormat /\ RealFormat(f)
  BY DataPathAssumption DEF RealFormats, AFormat, FlowInv
<1>2. f.rate \in Nat /\ f.rate <= 1536000
  BY SMT, <1>1 DEF AFormat, RealFormat
<1>3. f.rate \div 2822400 = 0
  BY SMT, <1>2
<1> QED BY SMT, <1>2, <1>3 DEF PcmRate, DSD64

LEMMA ControlTypes ==
  ASSUME RealFormats, FlowInv, TypeInv, [Next]_vars
  PROVE  (/\ PcmRate(m_sampleRate) /\ m_isFirstConnect \in BOOLEAN
          /\ session \in {"closed", "playing", "paused", "stopped"}
          /\ tail \in {"none", "resume", "pause", "stop", "close"}
          /\ m_stopRequested \in BOOLEAN /\ m_rebuffering \in BOOLEAN
          /\ heard \in {"silence", "audio"})'
<1> USE DEF vars, target, control, ring, warmup, history, Stream, Ask, Halt, Restart
<1>1. PcmRate(m_sampleRate')
  <2>1. CASE m_sampleRate' = m_sampleRate
    BY <2>1 DEF TypeInv
  <2>2. ASSUME NEW f \in Formats[m_effectiveMTU], Open(f) PROVE PcmRate(m_sampleRate')
    BY <2>2, OpenedRate DEF Open, TypeInv
  <2> QED BY <2>1, <2>2, Frame
          DEF Reconnect, PauseAsk, StopAsk, CloseAsk, QuickAsk, Pause, Stop, StopNow, CloseMute,
              Close, Resume, QuickOpen, Push, ShutdownSilence, MutedSilence, WarmupSilence,
              RebufferSilence, Underrun, Audio
<1>2. m_isFirstConnect' \in BOOLEAN
  <2>1. m_isFirstConnect' \in BOOLEAN \/ m_isFirstConnect' = m_isFirstConnect
    BY Frame
       DEF Reconnect, Open, PauseAsk, StopAsk, CloseAsk, QuickAsk, Pause, Stop, StopNow, CloseMute,
           Close, Resume, QuickOpen, Push, ShutdownSilence, MutedSilence, WarmupSilence, Warm,
           RebufferSilence, Underrun, Audio
  <2> QED BY <2>1 DEF TypeInv
<1>3. session' \in {"closed", "playing", "paused", "stopped"}
  <2>1. session' \in {"closed", "playing", "paused", "stopped", session}
    BY Frame
       DEF Reconnect, Open, PauseAsk, StopAsk, CloseAsk, QuickAsk, Pause, Stop, StopNow, CloseMute,
           Close, Resume, QuickOpen, Push, ShutdownSilence, MutedSilence, WarmupSilence, Warm,
           RebufferSilence, Underrun, Audio
  <2> QED BY <2>1 DEF TypeInv
<1>4. tail' \in {"none", "resume", "pause", "stop", "close"}
  <2>1. tail' \in {"none", "resume", "pause", "stop", "close", tail}
    BY Frame
       DEF Reconnect, Open, PauseAsk, StopAsk, CloseAsk, QuickAsk, Pause, Stop, StopNow, CloseMute,
           Close, Resume, QuickOpen, Push, ShutdownSilence, MutedSilence, WarmupSilence, Warm,
           RebufferSilence, Underrun, Audio
  <2> QED BY <2>1 DEF TypeInv
<1>5. m_stopRequested' \in BOOLEAN /\ m_rebuffering' \in BOOLEAN
  <2>1. m_stopRequested' \in BOOLEAN \/ m_stopRequested' = m_stopRequested
    BY Frame
       DEF Reconnect, Open, PauseAsk, StopAsk, CloseAsk, QuickAsk, Pause, Stop, StopNow, CloseMute,
           Close, Resume, QuickOpen, Push, ShutdownSilence, MutedSilence, WarmupSilence, Warm,
           RebufferSilence, Underrun, Audio
  <2>2. m_rebuffering' \in BOOLEAN \/ m_rebuffering' = m_rebuffering
    BY Frame
       DEF Reconnect, Open, PauseAsk, StopAsk, CloseAsk, QuickAsk, Pause, Stop, StopNow, CloseMute,
           Close, Resume, QuickOpen, Push, ShutdownSilence, MutedSilence, WarmupSilence, Warm,
           RebufferSilence, Underrun, Audio
  <2> QED BY <2>1, <2>2 DEF TypeInv
<1>6. heard' \in {"silence", "audio"}
  <2>1. heard' \in {"silence", "audio", heard}
    BY Frame
       DEF Reconnect, Open, PauseAsk, StopAsk, CloseAsk, QuickAsk, Pause, Stop, StopNow, CloseMute,
           Close, Resume, QuickOpen, Push, ShutdownSilence, MutedSilence, WarmupSilence, Warm,
           RebufferSilence, Underrun, Audio
  <2> QED BY <2>1 DEF TypeInv
<1> QED BY <1>1, <1>2, <1>3, <1>4, <1>5, <1>6

LEMMA RingTypes ==
  ASSUME RealFormats, FlowInv, TypeInv, [Next]_vars
  PROVE  (/\ m_prefillComplete \in BOOLEAN /\ m_postOnlineDelayDone \in BOOLEAN
          /\ m_stabilizationCount \in 0 .. 3000 /\ m_silenceBuffersRemaining \in 0 .. 400)'
<1> USE DEF vars, target, control, ring, warmup, history, Stream, Ask, Halt, Restart
<1>1. m_prefillComplete' \in BOOLEAN
  <2>1. m_prefillComplete' \in BOOLEAN \/ m_prefillComplete' = m_prefillComplete
    BY Frame
       DEF Reconnect, Open, PauseAsk, StopAsk, CloseAsk, QuickAsk, Pause, Stop, StopNow, CloseMute,
           Close, Resume, QuickOpen, Push, ShutdownSilence, MutedSilence, WarmupSilence, Warm,
           RebufferSilence, Underrun, Audio
  <2> QED BY <2>1 DEF TypeInv
<1>2. CASE WarmupSilence
  <2>1. session # "closed" /\ m_silenceBuffersRemaining' = m_silenceBuffersRemaining
    BY <1>2 DEF WarmupSilence, Ready, NoMoreSilence
  <2>2. PICK mtu \in Mtus : Format \in Formats[mtu]
    BY <2>1, PlayingFormat
  <2>3. Format \in AFormat /\ m_effectiveMTU \in Nat /\ m_effectiveMTU >= 83
    BY <2>1, PlayingFormat, DataPathAssumption DEF FlowInv, RealFormats
  <2> DEFINE goal == stabilizationTarget(Format.dsd, m_sampleRate, Format.bps, Format.channels,
                                         m_isFirstConnect, m_effectiveMTU)
             over == m_stabilizationCount + 1 >= goal
  <2>4. goal \in 0 .. 3000
    <3>1. m_sampleRate \in Nat /\ Format.bps \in Nat /\ Format.channels \in Nat
      BY <2>3 DEF AFormat, TypeInv, PcmRate
    <3>2. m_effectiveMTU \in Nat /\ m_effectiveMTU >= 83
      BY <2>3
    <3> QED BY ONLY <3>1, <3>2, WarmupTarget
  <2>5. /\ m_postOnlineDelayDone' = over
        /\ m_stabilizationCount' = IF over THEN 0 ELSE m_stabilizationCount + 1
    BY <1>2 DEF WarmupSilence
  <2> HIDE DEF goal
  <2>6. m_stabilizationCount \in 0 .. 3000 /\ m_silenceBuffersRemaining \in 0 .. 400
    BY DEF TypeInv
  <2>7. m_stabilizationCount' \in 0 .. 3000
    <3>1. \/ m_stabilizationCount' = 0
          \/ /\ m_stabilizationCount' = m_stabilizationCount + 1
             /\ ~(m_stabilizationCount + 1 >= goal)
      BY <2>5
    <3>2. goal \in Int /\ goal <= 3000 /\ m_stabilizationCount \in Nat
      BY <2>4, <2>6
    <3>3. CASE m_stabilizationCount' = 0
      BY <3>3
    <3>4. CASE /\ m_stabilizationCount' = m_stabilizationCount + 1
               /\ ~(m_stabilizationCount + 1 >= goal)
      BY ONLY <3>2, <3>4
    <3> QED BY ONLY <3>1, <3>3, <3>4
  <2>8. m_postOnlineDelayDone' \in BOOLEAN
    BY <2>5
  <2>9. m_silenceBuffersRemaining' \in 0 .. 400
    BY <2>1, <2>6
  <2> QED BY <1>1, <2>7, <2>8, <2>9
<1>3. CASE ShutdownSilence
  <2>1. m_silenceBuffersRemaining \in 0 .. 400 /\ m_stabilizationCount \in 0 .. 3000
        /\ m_postOnlineDelayDone \in BOOLEAN
    BY DEF TypeInv
  <2> QED BY <1>1, <1>3, <2>1 DEF ShutdownSilence
<1>4. CASE PauseAsk \/ StopAsk \/ CloseAsk \/ QuickAsk
  <2>1. session # "closed"
    BY <1>4 DEF PauseAsk, StopAsk, CloseAsk, QuickAsk
  <2>2. Format.dsd \in BOOLEAN /\ PcmRate(m_sampleRate)
    BY <2>1, PlayingFormat DEF AFormat, TypeInv
  <2>3. PICK buffers \in {10, 20, 30, 50} :
          m_silenceBuffersRemaining' = SilenceBuffers(buffers, Format.dsd, m_sampleRate)
    BY <1>4 DEF PauseAsk, StopAsk, CloseAsk, QuickAsk, requestShutdownSilence
  <2>4. m_silenceBuffersRemaining' \in 0 .. 400
    <3>1. buffers \in 0 .. 50
      OBVIOUS
    <3>2. SilenceBuffers(buffers, Format.dsd, m_sampleRate) \in 0 .. 400
      BY ONLY <2>2, <3>1, SilenceAsked
    <3> QED BY ONLY <2>3, <3>2, Zenon
  <2>5. m_stabilizationCount' = m_stabilizationCount
        /\ m_postOnlineDelayDone' = m_postOnlineDelayDone
    BY <1>4 DEF PauseAsk, StopAsk, CloseAsk, QuickAsk
  <2> QED BY <1>1, <2>4, <2>5 DEF TypeInv
<1>5. CASE /\ m_stabilizationCount' \in {0, m_stabilizationCount}
           /\ m_silenceBuffersRemaining' \in {0, m_silenceBuffersRemaining}
           /\ m_postOnlineDelayDone' \in BOOLEAN \/ m_postOnlineDelayDone' = m_postOnlineDelayDone
  <2>1. m_silenceBuffersRemaining \in 0 .. 400 /\ m_stabilizationCount \in 0 .. 3000
    BY DEF TypeInv
  <2>2. m_silenceBuffersRemaining' \in 0 .. 400 /\ m_stabilizationCount' \in 0 .. 3000
    BY <1>5, <2>1
  <2> QED BY <1>1, <1>5, <2>2 DEF TypeInv
<1> QED BY <1>2, <1>3, <1>4, <1>5, Frame
        DEF Reconnect, Open, Pause, Stop, StopNow, CloseMute, Close, Resume, QuickOpen, Push,
            MutedSilence, RebufferSilence, Underrun, Audio, Warm, Ready, NoMoreSilence

LEMMA TypeStep ==
  ASSUME RealFormats
  PROVE  DriftInv /\ FlowInv /\ TypeInv /\ [Next]_vars => TypeInv'
<1> SUFFICES ASSUME DriftInv, FlowInv, TypeInv, [Next]_vars PROVE TypeInv'
  OBVIOUS
<1>1. drift' \in Int
  <2>1. DriftInv'
    BY DriftStep
  <2>2. CASE Format' # NoFormat
    <3>1. /\ drift' = m_framesPerBufferAccumulator' * conf'.buffer.frame
          /\ m_framesPerBufferAccumulator' \in 0 .. 999 /\ conf'.buffer.frame \in Nat
      BY <2>1, <2>2 DEF DriftInv, BufferOK
    <3> DEFINE acc == m_framesPerBufferAccumulator'
               frame == conf'.buffer.frame
    <3> HIDE DEF acc, frame
    <3>2. acc * frame \in Int
      BY <3>1 DEF acc, frame
    <3> QED BY <3>1, <3>2 DEF acc, frame
  <2>3. CASE drift' = drift
    BY <2>3 DEF TypeInv
  <2>4. CASE conf' = conf /\ session # "closed"
    BY <2>2, <2>4 DEF DriftInv, Format
  <2>5. ASSUME NEW f \in Formats[m_effectiveMTU], Open(f) PROVE drift' \in Int
    BY <2>5 DEF Open
  <2> QED BY <2>3, <2>4, <2>5, Frame
          DEF Reconnect, PauseAsk, StopAsk, CloseAsk, QuickAsk, Ask, Pause, Stop, Halt, StopNow,
              CloseMute, Close, Resume, QuickOpen, Restart, Push, ShutdownSilence, MutedSilence,
              WarmupSilence, RebufferSilence, Underrun, Audio, Stream, vars, control, history
<1> QED BY <1>1, ControlTypes, RingTypes DEF TypeInv

\* Types: among them the ring is never fuller than its size less one, the debt is
\* less than a frame, and the counters of silent buffers are bounded.
THEOREM TypeCorrect ==
  ASSUME RealFormats
  PROVE  Spec => []TypeOK
<1>1. DriftInv /\ FlowInv /\ StoreInv /\ TypeInv => TypeOK
  <2> SUFFICES ASSUME DriftInv, FlowInv, StoreInv, TypeInv PROVE TypeOK
    OBVIOUS
  <2>1. /\ session = "closed" => tail = "none"
        /\ session # "closed" => Format # NoFormat
        /\ m_framesPerBufferAccumulator \in 0 .. 999 /\ m_effectiveMTU \in Mtus
    BY DEF DriftInv
  <2>2. conf.format \in (UNION {Formats[mtu] : mtu \in Mtus}) \cup {NoFormat}
    BY DEF FlowInv, Format
  <2>3. avail \in Nat /\ (Format # NoFormat => avail < conf.size)
    BY DEF StoreInv
  <2>4. m_sampleRate \in Nat
    BY DEF TypeInv, PcmRate
  <2> QED BY <2>1, <2>2, <2>3, <2>4 DEF TypeOK, TypeInv
<1> QED BY DriftInit, DriftStep, FlowInit, FlowStep, StoreInit, StoreStep, TypeInit, TypeStep, <1>1,
           PTL DEF Spec
=============================================================================
