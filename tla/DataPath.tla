------------------------------ MODULE DataPath ------------------------------
(***************************************************************************)
(* DirettaSync's data path with its real sizes: what open() configures for *)
(* a format, the blocks the audio thread pushes into the ring, and the     *)
(* buffers the SDK's worker takes out of it in getNewStream, through       *)
(* warm-up, prefill, underrun, rebuffering and shutdown silence.           *)
(*                                                                         *)
(* Whole configurations are exchanged with the worker joined, so a step    *)
(* sees one configuration; RingAccess and Playback have the finer steps.   *)
(* The SDK takes buffers from play() to stop(), any number between any two *)
(* blocks of the audio thread.                                             *)
(***************************************************************************)
EXTENDS BufferSizing

CONSTANTS
  Mtus,       \* what measureMTU may return
  Formats,    \* Formats[mtu]: records [dsd, rate, channels, bps, inBps, remote]
  CommandBlocks \* bound: the blocks in the ring when a command comes

ASSUME DataPathAssumption ==
  /\ Mtus \subseteq Nat /\ CommandBlocks \subseteq Nat
  /\ Formats \in [Mtus -> SUBSET [dsd : BOOLEAN, rate : Nat \ {0}, channels : Nat \ {0},
                                   bps : Nat \ {0}, inBps : Nat \ {0}, remote : BOOLEAN]]

\* The formats and links that the sizes are made for: PCM up to 1536 kHz, frames
\* of up to 32 bytes, and up to 12 bytes below 11 kHz; DSD of up to four channels;
\* packets of 80 bytes.  A hypothesis of the theorems that need it, so that a
\* wider set of formats can still be checked.
RealFormat(f) ==
  IF f.dsd THEN f.channels <= 4
  ELSE /\ f.rate <= 1536000 /\ f.channels * f.bps <= 32
       /\ f.rate >= 11025 \/ f.channels * f.bps <= 12
RealFormats == \A mtu \in Mtus : mtu >= 83 /\ \A f \in Formats[mtu] : RealFormat(f)

VARIABLES
  m_effectiveMTU, m_sampleRate, m_isFirstConnect,
  session,            \* "closed", "playing", "paused" or "stopped"
  conf,               \* what configureRing stored
  avail,              \* bytes in the ring
  m_framesPerBufferAccumulator,
  m_prefillComplete, m_postOnlineDelayDone, m_stabilizationCount, m_rebuffering,
  m_silenceBuffersRemaining, m_stopRequested,
  tail,               \* the handler that waits for the shutdown silence, or "none"
  \* history: 1000 times the bytes due for the buffers handed out since the
  \* configuration, less the bytes in them; and what the last buffer held
  drift, heard

target  == <<m_effectiveMTU, m_sampleRate, m_isFirstConnect>>
warmup  == <<m_postOnlineDelayDone, m_stabilizationCount>>
ring    == <<avail, m_prefillComplete, m_rebuffering>>
control == <<session, conf, tail, m_stopRequested>>
history == <<drift, heard>>
vars == <<target, control, ring, warmup, m_framesPerBufferAccumulator,
          m_silenceBuffersRemaining, history>>

NoFormat == [dsd |-> FALSE, rate |-> 0, channels |-> 0, bps |-> 0, inBps |-> 0, remote |-> FALSE]
NoConf == [format |-> NoFormat, size |-> 0]
Format == conf.format

TypeOK ==
  /\ m_effectiveMTU \in Mtus /\ m_sampleRate \in Nat /\ m_isFirstConnect \in BOOLEAN
  /\ session \in {"closed", "playing", "paused", "stopped"}
  /\ tail \in {"none", "resume", "pause", "stop", "close"}
  /\ session = "closed" => tail = "none"
  /\ conf.format \in (UNION {Formats[mtu] : mtu \in Mtus}) \cup {NoFormat}
  /\ session # "closed" => Format # NoFormat
  /\ avail \in Nat /\ (Format # NoFormat => avail < conf.size)
  /\ m_framesPerBufferAccumulator \in 0 .. 999
  /\ m_prefillComplete \in BOOLEAN /\ m_postOnlineDelayDone \in BOOLEAN
  /\ m_rebuffering \in BOOLEAN /\ m_stopRequested \in BOOLEAN
  /\ m_stabilizationCount \in 0 .. 3000 /\ m_silenceBuffersRemaining \in 0 .. 400
  /\ drift \in Int /\ heard \in {"silence", "audio"}

Init ==
  /\ m_effectiveMTU \in Mtus
  /\ m_sampleRate = 44100 /\ m_isFirstConnect = TRUE
  /\ session = "closed" /\ conf = NoConf /\ tail = "none" /\ m_stopRequested = FALSE
  /\ avail = 0 /\ m_prefillComplete = FALSE /\ m_rebuffering = FALSE
  /\ m_postOnlineDelayDone = FALSE /\ m_stabilizationCount = 0
  /\ m_framesPerBufferAccumulator = 0 /\ m_silenceBuffersRemaining = 0
  /\ drift = 0 /\ heard = "silence"
-----------------------------------------------------------------------------
(* Handlers that hold m_lifecycleMutex. *)

\* Bound: what comes while playing comes when the ring holds a number of blocks,
\* and not in the middle of the warm-up.
MayCommand ==
  /\ tail = "none"
  /\ session = "playing" =>
       m_stabilizationCount = 0 /\ \E n \in CommandBlocks : avail = n * BlockBytes(Format)

\* What open() compares: not whether the stream is remote.
SameFormat(f, g) == [f EXCEPT !.remote = FALSE] = [g EXCEPT !.remote = FALSE]

\* reconnectSelectedTarget: the session is reset and the MTU measured again.
Reconnect ==
  /\ MayCommand
  /\ m_effectiveMTU' \in Mtus
  /\ m_isFirstConnect' = TRUE
  /\ session' = "closed" /\ m_stopRequested' = TRUE
  /\ avail' = 0 /\ m_prefillComplete' = FALSE /\ m_rebuffering' = FALSE
  /\ m_postOnlineDelayDone' = FALSE /\ m_silenceBuffersRemaining' = 0
  /\ UNCHANGED <<m_sampleRate, conf, tail, m_stabilizationCount,
                 m_framesPerBufferAccumulator, history>>

\* open() with everything configured anew: fullReset, configureRingPCM or DSD,
\* which alone stores a sample rate, and the start.
Open(f) ==
  /\ MayCommand
  /\ session = "closed" \/ ~SameFormat(f, Format)
  /\ conf' = configureRing(f, m_effectiveMTU)
  /\ m_sampleRate' = IF f.dsd THEN m_sampleRate ELSE f.rate
  /\ session' = "playing" /\ m_stopRequested' = FALSE
  /\ avail' = 0 /\ m_prefillComplete' = FALSE /\ m_rebuffering' = FALSE
  /\ m_postOnlineDelayDone' = FALSE /\ m_stabilizationCount' = 0
  /\ m_framesPerBufferAccumulator' = 0 /\ m_silenceBuffersRemaining' = 0
  /\ drift' = 0 /\ heard' = "silence"
  /\ UNCHANGED <<m_effectiveMTU, m_isFirstConnect, tail>>

requestShutdownSilence(buffers) ==
  m_silenceBuffersRemaining' = SilenceBuffers(buffers, Format.dsd, m_sampleRate)

\* A handler that asks for silence while the session plays, and then waits for
\* it to go out, or for its timeout.
Ask(handler, buffers) ==
  /\ tail' = handler
  /\ requestShutdownSilence(buffers)
  /\ UNCHANGED <<target, session, conf, m_stopRequested, ring, warmup,
                 m_framesPerBufferAccumulator, history>>

PauseAsk == /\ MayCommand /\ session = "playing"
            /\ Ask("pause", IF Format.dsd THEN 30 ELSE 10)
StopAsk  == /\ MayCommand /\ session = "playing"
            /\ Ask("stop", IF Format.dsd THEN 50 ELSE 20)
CloseAsk == /\ MayCommand /\ session = "playing"
            /\ Ask("close", IF Format.dsd THEN 50 ELSE 20)
\* open() for the format that is open: only DSD asks for silence first.
QuickAsk == /\ MayCommand /\ session # "closed" /\ Format.dsd /\ Ask("resume", 30)

Halt(handler, state) ==
  /\ tail = handler /\ tail' = "none" /\ session' = state
  /\ UNCHANGED <<target, conf, m_stopRequested, ring, warmup,
                 m_framesPerBufferAccumulator, m_silenceBuffersRemaining, history>>

Pause == Halt("pause", "paused")
Stop  == Halt("stop", "stopped")

\* stopPlayback(immediate): no silence.
StopNow ==
  /\ MayCommand /\ session = "playing" /\ session' = "stopped"
  /\ UNCHANGED <<target, conf, tail, m_stopRequested, ring, warmup,
                 m_framesPerBufferAccumulator, m_silenceBuffersRemaining, history>>

\* close() mutes the worker before it stops the SDK and joins the worker.
CloseMute ==
  /\ session # "closed" /\ ~m_stopRequested
  /\ tail = "close" \/ (tail = "none" /\ session # "playing")
  /\ m_stopRequested' = TRUE /\ tail' = "close"
  /\ UNCHANGED <<target, session, conf, ring, warmup,
                 m_framesPerBufferAccumulator, m_silenceBuffersRemaining, history>>

Close ==
  /\ tail = "close" /\ m_stopRequested
  /\ session' = "closed" /\ tail' = "none" /\ m_rebuffering' = FALSE
  /\ UNCHANGED <<target, conf, m_stopRequested, avail, m_prefillComplete, warmup,
                 m_framesPerBufferAccumulator, m_silenceBuffersRemaining, history>>

\* What a resume and the quick open() do: the ring is emptied and filled anew.
Restart ==
  /\ session' = "playing" /\ tail' = "none" /\ m_stopRequested' = FALSE
  /\ avail' = 0 /\ m_prefillComplete' = FALSE /\ m_silenceBuffersRemaining' = 0
  /\ heard' = "silence"
  /\ UNCHANGED <<target, conf, m_framesPerBufferAccumulator, drift>>

Resume ==
  /\ session = "paused" /\ tail = "none"
  /\ Restart /\ UNCHANGED <<m_rebuffering, warmup>>

QuickOpen ==
  /\ session # "closed"
  /\ IF Format.dsd THEN tail = "resume" ELSE MayCommand
  /\ Restart /\ m_rebuffering' = FALSE
  /\ m_stabilizationCount' = 0 /\ UNCHANGED m_postOnlineDelayDone
-----------------------------------------------------------------------------
(* The audio thread: audioThreadFunc and sendAudio. *)

\* The decoder is left alone while the ring is more than half full; below a
\* quarter, though not empty, a second block follows the first.
Throttled == 2 * avail > conf.size
Blocks == IF avail > 0 /\ 4 * avail < conf.size THEN {1, 2} ELSE {1}

Free(level) == conf.size - level - 1

\* Variant, for the mutation runs: the prefill is over with the first block.
PrefilledAtOnce(level) == level > 0

Prefilled(level) == level >= conf.prefillTarget

\* One block or two, as much of each as fits, unless muted.
Push ==
  /\ session = "playing" /\ tail = "none" /\ ~m_stopRequested
  /\ ~Throttled
  /\ \E blocks \in Blocks :
       LET first == avail + Taken(Format, Free(avail))
       IN avail' = IF blocks = 1 THEN first ELSE first + Taken(Format, Free(first))
  /\ m_prefillComplete' = (m_prefillComplete \/ Prefilled(avail'))
  /\ UNCHANGED <<target, control, m_rebuffering, warmup, m_framesPerBufferAccumulator,
                 m_silenceBuffersRemaining, history>>
-----------------------------------------------------------------------------
(* The SDK's worker: getNewStream, one action for each of its outcomes. *)

\* Variant, for the mutation runs: without the drift correction.
OwedNothing == m_framesPerBufferAccumulator

Owed == m_framesPerBufferAccumulator + conf.buffer.remainder

\* Variant, for the mutation runs: the debt is never paid.
DebtKept == Owed

\* The accumulator after this buffer, and this buffer's size.
NextAccumulator == IF Owed >= 1000 THEN Owed - 1000 ELSE Owed
StreamSize == conf.buffer.bytes + (IF Owed >= 1000 THEN conf.buffer.frame ELSE 0)

\* Every outcome hands out a buffer of the size due.
Stream(what) ==
  /\ session = "playing"
  /\ m_framesPerBufferAccumulator' = NextAccumulator
  /\ heard' = what
  /\ drift' = IF conf.buffer.oneMs
              THEN drift + Format.rate * conf.buffer.frame - 1000 * StreamSize ELSE drift
  /\ UNCHANGED <<m_effectiveMTU, m_sampleRate, control>>

ShutdownSilence ==
  /\ m_silenceBuffersRemaining > 0
  /\ Stream("silence")
  /\ m_silenceBuffersRemaining' = m_silenceBuffersRemaining - 1
  /\ UNCHANGED <<m_isFirstConnect, ring, warmup>>

NoMoreSilence == m_silenceBuffersRemaining = 0 /\ UNCHANGED m_silenceBuffersRemaining

MutedSilence ==
  /\ NoMoreSilence /\ (m_stopRequested \/ ~m_prefillComplete)
  /\ Stream("silence")
  /\ UNCHANGED <<m_isFirstConnect, ring, warmup>>

Ready == NoMoreSilence /\ ~m_stopRequested /\ m_prefillComplete

WarmupSilence ==
  /\ Ready /\ ~m_postOnlineDelayDone
  /\ Stream("silence")
  /\ LET over == m_stabilizationCount + 1 >=
                 stabilizationTarget(Format.dsd, m_sampleRate, Format.bps, Format.channels,
                                     m_isFirstConnect, m_effectiveMTU)
     IN /\ m_postOnlineDelayDone' = over
        /\ m_stabilizationCount' = IF over THEN 0 ELSE m_stabilizationCount + 1
        /\ m_isFirstConnect' = (m_isFirstConnect /\ ~over)
  /\ UNCHANGED ring

Warm == Ready /\ m_postOnlineDelayDone /\ UNCHANGED <<m_isFirstConnect, warmup>>

\* Variant, for the mutation runs: a threshold above the throttle's.
ThreeFifths == (conf.size \div 5) * 3

\* REBUFFER_THRESHOLD_PCT of the ring.
RebufferThreshold == conf.size \div 5

Waits == m_rebuffering /\ avail < RebufferThreshold

RebufferSilence == Warm /\ Waits /\ Stream("silence") /\ UNCHANGED ring

Underrun ==
  /\ Warm /\ ~Waits /\ avail < StreamSize
  /\ Stream("silence")
  /\ m_rebuffering' = TRUE
  /\ UNCHANGED <<avail, m_prefillComplete>>

Audio ==
  /\ Warm /\ ~Waits /\ avail >= StreamSize
  /\ Stream("audio")
  /\ m_rebuffering' = FALSE
  /\ avail' = avail - StreamSize
  /\ UNCHANGED m_prefillComplete

getNewStream ==
  ShutdownSilence \/ MutedSilence \/ WarmupSilence \/ RebufferSilence \/ Underrun \/ Audio
-----------------------------------------------------------------------------
Next ==
  \/ Reconnect
  \/ \E f \in Formats[m_effectiveMTU] : Open(f)
  \/ PauseAsk \/ StopAsk \/ CloseAsk \/ QuickAsk
  \/ Pause \/ Stop \/ StopNow \/ CloseMute \/ Close
  \/ Resume \/ QuickOpen
  \/ Push
  \/ getNewStream

Spec == Init /\ [][Next]_vars
-----------------------------------------------------------------------------
(* Properties. *)

\* What the SDK has been given is what the format's rate asks for, less the
\* fraction of a frame in the accumulator, however many buffers went out and
\* through every pause: buffers of whole frames play 44.1 kHz at its rate.
NoDrift ==
  Format # NoFormat => drift = m_framesPerBufferAccumulator * conf.buffer.frame

\* The ring holds whole frames: no mixture of block sizes, buffer sizes, extra
\* frames and partial pushes shifts the channels against each other.
WholeFrames == session # "closed" => avail % FrameUnit(Format) = 0

\* The thresholds fit together: when the audio thread is throttled, the worker
\* is not waiting for more, neither for the prefill nor after an underrun; when
\* it is not, its block goes in whole.  Otherwise each side would wait for the
\* other for ever, or frames would be cut at the end of the ring.
ThrottledFlows == Throttled => m_prefillComplete /\ ~Waits
BlockFits == ~Throttled => Taken(Format, Free(avail)) = BlockBytes(Format)
ThresholdsFit == session = "playing" /\ tail = "none" => ThrottledFlows /\ BlockFits

\* Audio comes back after silence with a store behind it, the prefill or the
\* rebuffering threshold, never in bursts of a few buffers ("CD skip" effect).
AudioResumesFilled ==
  [][heard = "silence" /\ heard' = "audio" /\ tail = "none" =>
       avail >= AtMost(conf.prefillTarget, RebufferThreshold)]_vars

\* DSD is warmed up for the time the comment in getNewStream gives, 50 ms for
\* DSD64 and in proportion to the rate, to a tenth of it.
DsdWarmupScales ==
  [][session = "playing" /\ ~m_postOnlineDelayDone /\ m_postOnlineDelayDone' /\ Format.dsd =>
       (m_stabilizationCount + 1) * conf.buffer.bytes * 100 >=
         9 * DsdWarmupMs(Format.rate) * ((Format.rate * Format.channels) \div 800)]_vars
=============================================================================
