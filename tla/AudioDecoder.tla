---------------------------- MODULE AudioDecoder ----------------------------
(***************************************************************************)
(* One AudioDecoder: an open file, and readSamples as the loop it is.  The *)
(* container gives packets, the codec frames, the caller asks for blocks   *)
(* of yet another size; what does not fit a block waits in a ring of DSD   *)
(* bytes or in the PCM FIFO.                                               *)
(*                                                                         *)
(* Data: sample p of the left channel is 2p, of the right channel 2p + 1,  *)
(* which are also the places of their bytes in an interleaved DFF file.    *)
(* Files have two channels.  The engine asks for the file's own rate and   *)
(* depth, so the resampler changes the sample format only.                 *)
(***************************************************************************)
EXTENDS Integers, Sequences

CONSTANTS
  RemainderSize,  \* DSD_REMAINDER_SIZE, a power of two
  DffChunk,       \* DFF_READ_CHUNK
  Files,          \* records [kind, length, stored, block, split, codec, raw, stated, fmt]
  Reads,          \* the sizes of the blocks asked for, in samples or bytes a channel
  MaxErrors       \* bound: the errors of the source, the codec and the resampler

\* kind: "dsf" (any container FFmpeg reads raw DSD from), "dff" or "pcm";
\* length: what the file claims, in samples, or in bytes for "dff"; stored: what
\* can be read of it; block: samples a packet has.  Used by "pcm": split, the
\* samples in a frame of a packet; codec; raw, bits_per_raw_sample; stated and fmt,
\* the sample format at open and of the frames.
ASSUME AudioDecoderAssumption ==
  /\ RemainderSize \in Nat \ {0} /\ DffChunk \in Nat \ {0} /\ MaxErrors \in Nat
  /\ Reads \subseteq Nat \ {0}
  /\ \A f \in Files : /\ f.kind \in {"dsf", "dff", "pcm"}
                      /\ f.length \in Nat /\ f.stored \in 0 .. f.length
                      /\ f.block \in Nat \ {0} /\ f.split \in 1 .. f.block
                      /\ f.kind = "dsf" => f.block <= RemainderSize

VARIABLES
  file,               \* the file that is open
  at,                 \* how much of it has been read: samples, or bytes of "dff"
  m_eof,
  m_dsdRemainderLeft, m_dsdRemainderRight, m_dsdRemainderReadPos, m_dsdRemainderWritePos,
  sample_fmt,         \* of m_codecContext
  frames,             \* what m_codecContext has decoded and nobody received
  m_swrContext,       \* the format it converts from
  m_pcmFifo,
  m_bypassMode, m_resamplerInitialized,
  reading, need,      \* readSamples runs, and wants so much
  receiving,          \* the loop over a packet's frames runs
  leftData, rightData,\* what it has so far
  errors,
  \* history: the sample the next read must begin with, and the samples that a
  \* decoding error lost in this one
  expected, lost

remainder == <<m_dsdRemainderLeft, m_dsdRemainderRight,
               m_dsdRemainderReadPos, m_dsdRemainderWritePos>>
codec     == <<sample_fmt, frames, m_swrContext, m_pcmFifo, m_bypassMode, m_resamplerInitialized>>
read      == <<reading, need, receiving, leftData, rightData>>
history   == <<expected, lost>>
vars == <<file, at, m_eof, remainder, codec, read, errors, history>>

Closed == [kind |-> "closed", length |-> 0, stored |-> 0, block |-> 1, split |-> 1,
           codec |-> "none", raw |-> 0, stated |-> "none", fmt |-> "none"]
Packed == {"s16", "s32"}
NoMemory == [p \in 0 .. RemainderSize - 1 |-> -1]

AtMost(n, high) == IF n > high THEN high ELSE n
\* Samples first, ..., first + n - 1 of a channel.
Left(first, n)  == [i \in 1 .. n |-> 2 * (first + i - 1)]
Right(first, n) == [i \in 1 .. n |-> 2 * (first + i - 1) + 1]

\* Whole samples read of the file.
Samples == IF file.kind = "dff" THEN at \div 2 ELSE at
m_rawDSD == file.kind \in {"dsf", "dff"}
-----------------------------------------------------------------------------
(* What open() finds out about a PCM file. *)

isCompressed(f) == f.codec \notin {"pcm_s16", "pcm_s24", "pcm_s32"}

DepthOfCodec(f) ==
  CASE f.codec = "pcm_s16" -> 16 [] f.codec = "pcm_s24" -> 24 [] f.codec = "pcm_s32" -> 32
    [] OTHER -> CASE f.stated \in {"s16", "s16p"} -> 16
                  [] f.stated \in {"s32", "s32p", "flt", "fltp"} -> 32
                  [] OTHER -> 24

realBitDepth(f) ==
  LET depth == IF f.raw \in 1 .. 32 THEN f.raw ELSE DepthOfCodec(f)
  IN IF depth \in {16, 24, 32} THEN depth ELSE 24

\* The samples that the engine asks for: 24 bits travel in 32.
OutFormat(f) == IF realBitDepth(f) = 16 THEN "s16" ELSE "s32"

canBypass(f, fmt) == ~isCompressed(f) /\ fmt \in Packed /\ fmt = OutFormat(f)

\* What readSamples relies on: the codec makes one frame of a packet, and its
\* frames have the format stated at open, unless they are copied as they are.
Regular(f) == f.kind = "pcm" => /\ f.split = f.block
                                /\ f.fmt = f.stated \/ canBypass(f, f.stated)
RegularFiles == \A f \in Files : Regular(f)
-----------------------------------------------------------------------------
(* The ring of DSD bytes left over from a packet. *)

dsdRemainderAvailable == (m_dsdRemainderWritePos - m_dsdRemainderReadPos) % RemainderSize
dsdRemainderFree == (m_dsdRemainderReadPos - m_dsdRemainderWritePos - 1) % RemainderSize

\* The memory after the first n of data are pushed.
Pushed(memory, data, n) ==
  [p \in 0 .. RemainderSize - 1 |->
     LET i == (p - m_dsdRemainderWritePos) % RemainderSize
     IN IF i < n THEN data[i + 1] ELSE memory[p]]

dsdRemainderPush(left, right) ==
  LET n == AtMost(Len(left), dsdRemainderFree)
  IN /\ m_dsdRemainderLeft' = Pushed(m_dsdRemainderLeft, left, n)
     /\ m_dsdRemainderRight' = Pushed(m_dsdRemainderRight, right, n)
     /\ m_dsdRemainderWritePos' = (m_dsdRemainderWritePos + n) % RemainderSize
     /\ UNCHANGED m_dsdRemainderReadPos

Popped(memory, n) ==
  [i \in 1 .. n |-> memory[(m_dsdRemainderReadPos + i - 1) % RemainderSize]]

dsdRemainderPop(n) ==
  /\ leftData' = Popped(m_dsdRemainderLeft, n)
  /\ rightData' = Popped(m_dsdRemainderRight, n)
  /\ m_dsdRemainderReadPos' = (m_dsdRemainderReadPos + n) % RemainderSize
  /\ UNCHANGED <<m_dsdRemainderLeft, m_dsdRemainderRight, m_dsdRemainderWritePos>>

dsdRemainderClear ==
  /\ m_dsdRemainderReadPos' = 0 /\ m_dsdRemainderWritePos' = 0
  /\ UNCHANGED <<m_dsdRemainderLeft, m_dsdRemainderRight>>
-----------------------------------------------------------------------------
TypeOK ==
  /\ file \in Files \cup {Closed}
  /\ at \in 0 .. file.stored /\ m_eof \in BOOLEAN
  /\ m_dsdRemainderReadPos \in 0 .. RemainderSize - 1
  /\ m_dsdRemainderWritePos \in 0 .. RemainderSize - 1
  /\ m_bypassMode \in BOOLEAN /\ m_resamplerInitialized \in BOOLEAN
  /\ reading \in BOOLEAN /\ need \in Nat /\ receiving \in BOOLEAN
  /\ receiving => reading /\ frames # <<>>
  /\ Len(leftData) = Len(rightData) /\ Len(leftData) <= need
  /\ ~reading => leftData = <<>> /\ lost = 0
  /\ m_rawDSD => m_pcmFifo = <<>> /\ frames = <<>>
  /\ errors \in 0 .. MaxErrors /\ expected \in Nat /\ lost \in Nat

\* Variant, for the mutation runs: the FIFO survives close().
ResetButFifo ==
  /\ file' = Closed /\ at' = 0 /\ m_eof' = FALSE
  /\ sample_fmt' = "none" /\ frames' = <<>> /\ m_swrContext' = "none" /\ UNCHANGED m_pcmFifo
  /\ m_bypassMode' = FALSE /\ m_resamplerInitialized' = FALSE

\* What close() leaves.
Reset ==
  /\ file' = Closed /\ at' = 0 /\ m_eof' = FALSE
  /\ sample_fmt' = "none" /\ frames' = <<>> /\ m_swrContext' = "none" /\ m_pcmFifo' = <<>>
  /\ m_bypassMode' = FALSE /\ m_resamplerInitialized' = FALSE

Init ==
  /\ file = Closed /\ at = 0 /\ m_eof = FALSE
  /\ m_dsdRemainderLeft = NoMemory /\ m_dsdRemainderRight = NoMemory
  /\ m_dsdRemainderReadPos = 0 /\ m_dsdRemainderWritePos = 0
  /\ sample_fmt = "none" /\ frames = <<>> /\ m_swrContext = "none" /\ m_pcmFifo = <<>>
  /\ m_bypassMode = FALSE /\ m_resamplerInitialized = FALSE
  /\ reading = FALSE /\ need = 0 /\ receiving = FALSE /\ leftData = <<>> /\ rightData = <<>>
  /\ errors = 0 /\ expected = 0 /\ lost = 0
-----------------------------------------------------------------------------
\* A failing open() leaves the decoder as it was.
Open(f) ==
  /\ file = Closed
  /\ file' = f /\ m_eof' = FALSE
  /\ sample_fmt' = IF f.kind = "pcm" THEN f.stated ELSE "none"
  /\ UNCHANGED <<at, remainder, frames, m_swrContext, m_pcmFifo, m_bypassMode,
                 m_resamplerInitialized, read, errors, history>>

Close ==
  /\ file # Closed /\ ~reading
  /\ Reset /\ dsdRemainderClear
  /\ expected' = 0 /\ lost' = 0
  /\ UNCHANGED <<read, errors>>

\* The container goes to the start of a packet at or before the place; the
\* parser of DFF files cannot seek.  What a failing seek may have changed is
\* inside FFmpeg, which then gives the same packets as before.
Seek(p) ==
  /\ file # Closed /\ ~reading /\ file.kind # "dff" /\ p < file.stored
  /\ at' = (p \div file.block) * file.block
  /\ m_eof' = FALSE
  /\ IF m_rawDSD THEN dsdRemainderClear /\ UNCHANGED <<frames, m_pcmFifo>>
     ELSE frames' = <<>> /\ m_pcmFifo' = <<>> /\ UNCHANGED remainder
  /\ expected' = at'
  /\ UNCHANGED <<file, sample_fmt, m_swrContext, m_bypassMode, m_resamplerInitialized,
                 read, errors, lost>>
-----------------------------------------------------------------------------
(* readSamples: first what is left over, then packets until there is enough. *)

Fails == errors < MaxErrors /\ errors' = errors + 1

\* The bypass, if the codec's format allows it, or a resampler from that format.
initResampler ==
  /\ m_pcmFifo' = <<>>
  /\ m_bypassMode' = canBypass(file, sample_fmt)
  /\ m_swrContext' = IF canBypass(file, sample_fmt) THEN "none" ELSE sample_fmt
  /\ m_resamplerInitialized' = TRUE

initResamplerFails ==
  /\ Fails
  /\ m_bypassMode' = FALSE /\ m_swrContext' = "none" /\ m_resamplerInitialized' = FALSE
  /\ m_pcmFifo' = <<>>

\* At the end of the file there is nothing left over, and nothing is read.
ReadDsd(n) ==
  /\ m_rawDSD /\ ~reading /\ ~m_eof
  /\ reading' = TRUE /\ need' = n
  /\ dsdRemainderPop(AtMost(dsdRemainderAvailable, n))
  /\ UNCHANGED <<file, at, m_eof, codec, receiving, errors, history>>

ReadPcm(n) ==
  /\ file.kind = "pcm" /\ ~reading /\ ~m_eof
  /\ reading' = TRUE
  /\ \/ /\ ~m_resamplerInitialized
        /\ initResampler
        /\ need' = n /\ leftData' = <<>> /\ rightData' = <<>>
        /\ UNCHANGED errors
     \/ /\ ~m_resamplerInitialized
        /\ initResamplerFails
        /\ need' = 0 /\ leftData' = <<>> /\ rightData' = <<>>
     \/ /\ m_resamplerInitialized
        /\ need' = n
        /\ \E k \in {AtMost(Len(m_pcmFifo), n)} :
             /\ leftData' = [i \in 1 .. k |-> m_pcmFifo[i][1]]
             /\ rightData' = [i \in 1 .. k |-> m_pcmFifo[i][2]]
             /\ m_pcmFifo' = SubSeq(m_pcmFifo, k + 1, Len(m_pcmFifo))
        /\ UNCHANGED <<m_swrContext, m_bypassMode, m_resamplerInitialized, errors>>
  /\ UNCHANGED <<file, at, m_eof, remainder, sample_fmt, frames, receiving, history>>

StillNeed == need - Len(leftData)
Wants == reading /\ StillNeed > 0 /\ ~m_eof

\* Variant, for the mutation runs: what is left over is counted from the
\* packet's start.
ExcessFromStart(data, taken) == SubSeq(data, 1, Len(data) - taken)

Excess(data, taken) == SubSeq(data, taken + 1, Len(data))

\* A packet's channels: as much as is needed is taken, the rest is left over.
TakeDsd(left, right) ==
  \E take \in {AtMost(Len(left), StillNeed)} :
    /\ leftData' = leftData \o SubSeq(left, 1, take)
    /\ rightData' = rightData \o SubSeq(right, 1, take)
    /\ dsdRemainderPush(Excess(left, take), Excess(right, take))

DsfPacket ==
  /\ Wants /\ file.kind = "dsf" /\ at < file.stored
  /\ \E size \in {AtMost(file.block, file.stored - at)} :
       /\ TakeDsd(Left(at, size), Right(at, size))
       /\ at' = at + size
  /\ UNCHANGED <<file, m_eof, codec, reading, need, receiving, errors, history>>

m_dffDataRemaining == file.length - at

Even(n) == n - (n % 2)
interleavedToRead ==
  AtMost(AtMost(StillNeed * 2, Even(m_dffDataRemaining)), Even(DffChunk))

\* Variant, for the mutation runs: the source is asked again and again.
EndOfFileRetried == Wants /\ ~receiving /\ at = file.stored /\ UNCHANGED vars

\* The end of the file, or an error of the source, which is taken for the end.
EndOfFile ==
  /\ Wants /\ ~receiving /\ (file.kind = "dff" => interleavedToRead > 0)
  /\ \/ at = file.stored /\ UNCHANGED errors
     \/ Fails
  /\ m_eof' = TRUE
  /\ UNCHANGED <<file, at, remainder, codec, read, history>>

\* avio_read gives less than it was asked for only at the end of the source; an
\* odd byte there has no partner and is dropped.
DffPacket ==
  /\ Wants /\ file.kind = "dff" /\ interleavedToRead > 0 /\ at < file.stored
  /\ \E bytesRead \in {AtMost(interleavedToRead, file.stored - at)} :
       /\ TakeDsd([i \in 1 .. bytesRead \div 2 |-> at + 2 * (i - 1)],
                  [i \in 1 .. bytesRead \div 2 |-> at + 2 * (i - 1) + 1])
       /\ at' = at + bytesRead
  /\ UNCHANGED <<file, m_eof, codec, reading, need, receiving, errors, history>>

\* Nothing remains of the data chunk: the flag is set only if an odd byte is left.
DffEnd ==
  /\ Wants /\ file.kind = "dff" /\ interleavedToRead = 0
  /\ m_eof' = (m_dffDataRemaining > 0)
  /\ need' = Len(leftData)
  /\ UNCHANGED <<file, at, remainder, codec, reading, receiving, leftData, rightData, errors, history>>

\* A packet of size samples, from at on, as the codec's frames.
FramesOf(size) ==
  [i \in 1 .. (size + file.split - 1) \div file.split |->
     [from |-> at + (i - 1) * file.split,
      size |-> AtMost(file.split, size - (i - 1) * file.split)]]

\* A packet goes to the codec, behind the frames nobody received; the codec
\* decodes it and then knows its format.
PcmPacket ==
  /\ Wants /\ file.kind = "pcm" /\ ~receiving /\ at < file.stored
  /\ \E size \in {AtMost(file.block, file.stored - at)} :
       /\ frames' = frames \o FramesOf(size)
       /\ at' = at + size
  /\ receiving' = TRUE
  /\ sample_fmt' = file.fmt
  /\ UNCHANGED <<file, m_eof, remainder, m_swrContext, m_pcmFifo, m_bypassMode,
                 m_resamplerInitialized, reading, need, leftData, rightData, errors, history>>

\* A packet the codec refuses, because it is corrupt or because there are frames
\* to be received first, is dropped, and the read ends with what it has.
PcmPacketFails ==
  /\ Wants /\ file.kind = "pcm" /\ ~receiving /\ at < file.stored
  /\ Fails \/ (frames # <<>> /\ UNCHANGED errors)
  /\ \E size \in {AtMost(file.block, file.stored - at)} :
       at' = at + size /\ lost' = size
  /\ need' = Len(leftData)
  /\ UNCHANGED <<file, m_eof, remainder, codec, reading, receiving, leftData, rightData,
                 expected>>

\* The same for a frame.
PcmFrameFails ==
  /\ Wants /\ receiving
  /\ Fails
  /\ lost' = Head(frames).size /\ frames' = Tail(frames)
  /\ need' = Len(leftData) /\ receiving' = FALSE
  /\ UNCHANGED <<file, at, m_eof, remainder, sample_fmt, m_swrContext, m_pcmFifo,
                 m_bypassMode, m_resamplerInitialized, reading, leftData, rightData, expected>>

\* A frame whose format the bypass does not expect ends the bypass.
Mismatch == m_bypassMode /\ file.fmt # OutFormat(file)

LeaveBypass ==
  /\ Wants /\ receiving /\ Mismatch
  /\ initResampler
  /\ UNCHANGED <<file, at, m_eof, remainder, sample_fmt, frames, read, errors, history>>

LeaveBypassFails ==
  /\ Wants /\ receiving /\ Mismatch
  /\ initResamplerFails
  /\ lost' = Head(frames).size /\ frames' = Tail(frames)
  /\ need' = Len(leftData) /\ receiving' = FALSE
  /\ UNCHANGED <<file, at, m_eof, remainder, sample_fmt, reading, leftData, rightData, expected>>

\* A frame's samples as they arrive in the block: of the format asked for, or noise.
Delivered(frame) ==
  LET expectedFormat == IF m_bypassMode THEN OutFormat(file) ELSE m_swrContext
  IN [i \in 1 .. frame.size |->
        IF file.fmt = expectedFormat
          THEN <<2 * (frame.from + i - 1), 2 * (frame.from + i - 1) + 1>> ELSE <<-1, -1>>]

\* Variant, for the mutation runs: the whole frame goes to the FIFO.
FifoOfWholeFrame(samples, taken) == samples

FifoExcess(samples, taken) == SubSeq(samples, taken + 1, Len(samples))

PcmFrame ==
  /\ Wants /\ receiving /\ ~Mismatch
  /\ \E samples \in {Delivered(Head(frames))} :
       \E take \in {AtMost(Len(samples), StillNeed)} :
         /\ leftData' = leftData \o [i \in 1 .. take |-> samples[i][1]]
         /\ rightData' = rightData \o [i \in 1 .. take |-> samples[i][2]]
         /\ m_pcmFifo' = m_pcmFifo \o FifoExcess(samples, take)
  /\ frames' = Tail(frames) /\ receiving' = (frames' # <<>>)
  /\ UNCHANGED <<file, at, m_eof, remainder, sample_fmt, m_swrContext, m_bypassMode,
                 m_resamplerInitialized, reading, need, errors, history>>

\* The block goes to the caller.
Return ==
  /\ reading /\ (StillNeed = 0 \/ m_eof)
  /\ reading' = FALSE /\ receiving' = FALSE /\ leftData' = <<>> /\ rightData' = <<>> /\ need' = 0
  /\ expected' = expected + Len(leftData) + lost /\ lost' = 0
  /\ UNCHANGED <<file, at, m_eof, remainder, codec, errors>>
-----------------------------------------------------------------------------
Step ==
  \/ EndOfFile \/ DsfPacket \/ DffPacket \/ DffEnd
  \/ PcmPacket \/ PcmPacketFails \/ PcmFrame \/ PcmFrameFails \/ LeaveBypass \/ LeaveBypassFails
  \/ Return

Next ==
  \/ \E f \in Files : Open(f)
  \/ Close
  \/ \E p \in 0 .. file.stored : Seek(p)
  \/ \E n \in Reads : ReadDsd(n) \/ ReadPcm(n)
  \/ Step

\* readSamples runs on: the source answers or times out (ten seconds).
Spec == Init /\ [][Next]_vars /\ WF_vars(Step)
-----------------------------------------------------------------------------
(* Properties. *)

\* What a read hands out follows what the read before it handed out, or the place
\* of the last seek, sample by sample, the two channels together and in the
\* format asked for, wherever packets, frames, blocks and ring positions end.
Contiguous ==
  /\ leftData = Left(expected, Len(leftData))
  /\ rightData = Right(expected, Len(rightData))

Unreceived == IF frames = <<>> THEN 0 ELSE at - frames[1].from

\* Nothing that was taken out of the file gets lost between reads, at the end
\* least of all: it was handed out, or waits for the next read.
NothingLost ==
  ~reading =>
    /\ expected + dsdRemainderAvailable + Len(m_pcmFifo) + Unreceived = Samples
    /\ m_eof => expected = Samples

\* A read ends.
ReadEnds == reading ~> ~reading

\* "Number of samples actually read (0 = EOF)": a read of a decoder that is set up
\* gives nothing only at the end of the file.
ZeroIsEof ==
  [][reading /\ ~reading' /\ m_resamplerInitialized /\ leftData = <<>> => m_eof \/ at = file.stored]_vars
=============================================================================
