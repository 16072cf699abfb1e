------------------------------ MODULE SendPath ------------------------------
(***************************************************************************)
(* From a decoded block to the bytes in the ring: the output callback      *)
(* compares formats, opens, gives the alignment hint and offers the block; *)
(* sendAudio converts as the negotiated format says.  The SDK worker takes *)
(* bytes out, and the IPC thread pauses, resumes and stops in between.     *)
(* Bytes, blocks and the ring are small; every comparison is the code's.   *)
(***************************************************************************)
EXTENDS SampleConversions, FormatNegotiation

CONSTANTS
  Environments,     \* records [build, mode, pcm, dsd]: the build, the option, the sink
  Tracks,           \* records [uri, rate, bits, dsd, aligned, blocks]
  Frames,           \* frames of a PCM block (2048 in the code)
  DsdBytes,         \* bytes per channel of a DSD block
  RingSize, StagingSize,
  DeferredTimeout,  \* DEFERRED_TIMEOUT_SAMPLES
  MaxRetries,       \* FlowControl::MAX_RETRIES
  PopSize,          \* bytes the worker takes at once
  MaxBeyond         \* bound: bytes behind a block that the callback is followed to

BlockKinds == {"silent", "quiet", "loud"}
SourceKinds == {"no", "DSF", "DFF"}
Alignments == {"Unknown", "LsbAligned", "MsbAligned"}

ASSUME SendPathAssumption ==
  /\ Frames \in Nat \ {0} /\ DsdBytes \in Nat \ {0} /\ MaxRetries \in Nat \ {0}
  /\ RingSize \in Nat \ {0} /\ StagingSize \in Nat /\ DeferredTimeout \in Nat /\ PopSize \in Nat
  /\ MaxBeyond \in Nat
  /\ \A e \in Environments : e.build \in Builds /\ e.dsd \subseteq DsdLayouts
  /\ \A t \in Tracks : /\ t.uri # "none" /\ t.bits \in Nat
                       /\ t.dsd \in SourceKinds /\ t.aligned \in Alignments
                       /\ t.blocks \in Seq(BlockKinds)

VARIABLES
  env,
  play,     \* the engine's track and the block it decodes next
  sync,     \* DirettaSync: open, playing, paused, muted, format, and what configure* stored
  cache,    \* what sendAudio works with, and whether the generation moved since
  s24,      \* m_s24PackMode and m_deferredSampleCount
  hintKey,  \* m_lastS24HintKey
  avail,    \* bytes in the ring
  block,    \* the block in the callback: its track, number, read pointer, frames left, retries
  heard,    \* bytes the current block put into the ring since it was last cleared
  from,     \* what had been read of the block when the ring was last cleared
  hinted    \* the ring still has the alignment the callback last gave for this key

vars == <<env, play, sync, cache, s24, hintKey, avail, block, heard, from, hinted>>

Channels == 2
NoTrack == [uri |-> "none"]
NoFormat == [none |-> TRUE]

SmallerOf(a, b) == IF a < b THEN a ELSE b
-----------------------------------------------------------------------------
(* The decoder's blocks. *)

IsDsd(t) == t.dsd # "no"
FormatOf(t) == [rate |-> t.rate, bits |-> t.bits, dsd |-> IsDsd(t)]
Container(t) == InputBps(t.bits)
BlockLength(t) == IF IsDsd(t) THEN Channels * DsdBytes ELSE Frames * Channels * Container(t)

\* Byte i of block n.  24-bit samples are in the upper three bytes of their
\* container: FFmpeg's S32; a quiet one fills the lower half of them.
SourceByte(t, n, i) ==
  LET noise == ((37 * i + 11 * n) % 255) + 1
      place == i % Container(t)
  IN IF IsDsd(t) THEN noise
     ELSE CASE t.blocks[n] = "silent" -> 0
            [] t.blocks[n] = "quiet"  -> IF place = 1 THEN noise ELSE 0
            [] t.blocks[n] = "loud"   -> IF t.bits = 24 /\ place = 0 THEN 0 ELSE noise

Decoded ==
  [t \in Tracks |-> [n \in DOMAIN t.blocks |-> [i \in 1 .. BlockLength(t) |-> SourceByte(t, n, i - 1)]]]

\* What lies behind a pointer into the block; 255 stands for the memory after it.
ReadFrom(t, n, at, length) ==
  LET inside == SmallerOf(at + length, BlockLength(t))
  IN SubSeq(Decoded[t][n], at + 1, inside)
       \o [i \in 1 .. length - (inside - SmallerOf(at, inside)) |-> 255]
-----------------------------------------------------------------------------
(* The ring buffer's pushes: [sent |-> input bytes taken, out |-> ring bytes, s24]. *)

Free == RingSize - avail - 1
Nothing == [sent |-> 0, out |-> <<>>, s24 |-> s24]

\* n samples of in bytes each as what the conversion makes of them.
Pushed(in, n, out, s) == [sent |-> in * n, out |-> out, s24 |-> s]

Samples(src, in, out) ==
  SmallerOf(Len(src) \div in, SmallerOf(StagingSize \div out, Free \div out))

detectS24PackMode(src, n) ==
  LET checked == 0 .. SmallerOf(n, 64) - 1
      lowZero  == \A i \in checked : src[4 * i + 1] = 0
      highZero == \A i \in checked : src[4 * i + 4] = 0
  IN CASE lowZero /\ highZero  -> "Deferred"
       [] lowZero /\ ~highZero -> "MsbAligned"
       [] OTHER                -> "LsbAligned"

\* The pack mode after a push of n samples: a known one stays, silence is counted.
DetectAlignment(src, n) ==
  LET detected == detectS24PackMode(src, n)
      silence  == s24.deferred + n
  IN IF s24.mode \in {"LsbAligned", "MsbAligned"} THEN s24
     ELSE IF detected # "Deferred" THEN [mode |-> detected, deferred |-> 0]
     ELSE [mode |-> IF silence > DeferredTimeout THEN "LsbAligned" ELSE s24.mode, deferred |-> silence]

Effective(s) == IF env.build = "neon" \/ s.mode = "MsbAligned" THEN "MsbAligned" ELSE "LsbAligned"

push24BitPacked(src) ==
  LET n == Samples(src, 4, 3)
      s == DetectAlignment(src, n)
  IN IF n = 0 THEN Nothing
     ELSE Pushed(4, n, IF Effective(s) = "MsbAligned"
                       THEN convert24BitPackedShifted(env.build, src, n)
                       ELSE convert24BitPacked(env.build, src, n), s)

push16To32(src) ==
  LET n == Samples(src, 2, 4) IN Pushed(2, n, convert16To32(env.build, src, n), s24)

push16To24(src) ==
  LET n == Samples(src, 2, 3) IN Pushed(2, n, convert16To24(env.build, src, n), s24)

push(src) == LET n == SmallerOf(Len(src), Free) IN Pushed(1, n, SubSeq(src, 1, n), s24)

\* Whole groups of 4 bytes per channel, as many as fit: the first bytes of the
\* planar block are then taken for a smaller planar block.
pushDSDPlanar(src, reverse, swap) ==
  LET bytes  == SmallerOf(Len(src), SmallerOf(StagingSize, Free))
      usable == ((bytes \div Channels) \div 4) * 4 * Channels
      planar == SubSeq(src, 1, usable)
      out == CASE reverse /\ swap   -> convertDSD_BitReverseSwap(env.build, planar, Channels)
               [] reverse /\ ~swap  -> convertDSD_BitReverse(env.build, planar, Channels)
               [] ~reverse /\ swap  -> convertDSD_ByteSwap(env.build, planar, Channels)
               [] OTHER             -> convertDSD_Passthrough(env.build, planar, Channels)
  IN Pushed(1, usable, out, s24)

\* sendAudio: nothing while muted; otherwise frames of the width the cached
\* configuration takes the block to have.
SendAudio(c, t, n, at, frames) ==
  LET Read(width) == ReadFrom(t, n, at, frames * width * Channels)
  IN IF sync.muted THEN Nothing ELSE
     CASE c.path = "dsd"     -> pushDSDPlanar(ReadFrom(t, n, at, Channels * DsdBytes), c.reverse, c.swap)
       [] c.path = "pack24"  -> push24BitPacked(Read(4))
       [] c.path = "16to32"  -> push16To32(Read(2))
       [] c.path = "16to24"  -> push16To24(Read(2))
       [] c.path = "copy"    -> push(Read(DirettaBps(c.sink)))
-----------------------------------------------------------------------------
(* open() *)

\* What configureSinkPCM/DSD and configureRingPCM/DSD leave for a format.
Configure(t) ==
  IF IsDsd(t)
  THEN LET layout == configureSinkDSD(env.dsd)
       IN [path |-> IF layout = NoLayout THEN "none" ELSE "dsd", sink |-> layout, source |-> t.dsd,
           reverse |-> DsdReverse(layout, t.dsd), swap |-> DsdSwap(layout)]
  ELSE LET bits == configureSinkPCM(env.mode, env.pcm, t.bits)
       IN [path |-> IF bits = NoWidth THEN "none" ELSE PcmPath(t.bits, bits), sink |-> bits,
           source |-> "no", reverse |-> FALSE, swap |-> FALSE]

NoConfiguration ==
  [path |-> "none", sink |-> NoWidth, source |-> "no", reverse |-> FALSE, swap |-> FALSE]

FreshS24 == [mode |-> "Unknown", deferred |-> 0]

QuickResume(t) == sync.open /\ sync.format = FormatOf(t)

\* The callback's format check: a change stops playback first; open() then has
\* the same format and only clears the ring, or configures everything.  A sink
\* with no format for the track fails it, and closes the session.
NeedsOpen(t) == ~sync.playing \/ (sync.open /\ sync.format # FormatOf(t))

Opened(t) == [open |-> TRUE, playing |-> TRUE, paused |-> FALSE, muted |-> FALSE, format |-> FormatOf(t),
              conf |-> IF QuickResume(t) THEN sync.conf ELSE Configure(t)]

\* Variant, for the mutation runs: without the track's URI.
HintKeyOfFormat(t) == FormatOf(t)

\* The hint goes out once per track, keyed by what identifies it.
HintKeyOf(t) == <<t.uri, FormatOf(t)>>

GiveHint(t, key, s, h) ==
  IF IsDsd(t) \/ key = HintKeyOf(t)
  THEN hintKey' = key /\ s24' = s /\ hinted' = h
  ELSE /\ hintKey' = HintKeyOf(t)
       /\ s24' = IF t.bits = 24 /\ t.aligned # "Unknown"
                 THEN [s EXCEPT !.mode = t.aligned] ELSE FreshS24
       /\ hinted' = TRUE
-----------------------------------------------------------------------------
Init ==
  /\ env \in Environments
  /\ play = [track |-> NoTrack, next |-> 1]
  /\ sync = [open |-> FALSE, playing |-> FALSE, paused |-> FALSE, muted |-> FALSE,
             format |-> NoFormat, conf |-> NoConfiguration]
  /\ cache = [conf |-> NoConfiguration, stale |-> FALSE]
  /\ s24 = FreshS24
  /\ hintKey = <<>>
  /\ avail = 0
  /\ block = [track |-> NoTrack, number |-> 0, at |-> 0, left |-> 0, retries |-> 0]
  /\ heard = <<>>
  /\ from = 0
  /\ hinted = FALSE

\* The engine goes to a track, by a command or at the end of the last one.
Start(t) ==
  /\ block.left = 0
  /\ play' = [track |-> t, next |-> 1]
  /\ UNCHANGED <<env, sync, cache, s24, hintKey, avail, block, heard, from, hinted>>

\* Variant, for the mutation runs: only a full ring is left to drain.
ThrottledWhenFull == sync.playing /\ avail + 1 >= RingSize

\* audioThreadFunc: a ring more than half full is left to drain.
Throttled == sync.playing /\ 2 * avail > RingSize

BlockReady ==
  /\ block.left = 0
  /\ play.track # NoTrack /\ play.next <= Len(play.track.blocks)
  /\ ~Throttled

\* The callback up to the send: format check, open, hint.
Begin ==
  LET t == play.track IN
  /\ BlockReady
  /\ NeedsOpen(t) => QuickResume(t) \/ Configure(t).path # "none"
  /\ play' = [play EXCEPT !.next = @ + 1]
  /\ block' = [track |-> t, number |-> play.next, at |-> 0,
               left |-> IF IsDsd(t) THEN 1 ELSE Frames, retries |-> 0]
  /\ heard' = <<>> /\ from' = 0
  /\ IF NeedsOpen(t)
     THEN /\ sync' = Opened(t)
          /\ cache' = [cache EXCEPT !.stale = @ \/ ~QuickResume(t)]
          /\ avail' = 0
          /\ GiveHint(t, <<>>, FreshS24, FALSE)
     ELSE /\ GiveHint(t, hintKey, s24, hinted)
          /\ UNCHANGED <<sync, cache, avail>>
  /\ UNCHANGED env

\* The same, with a sink that has no format for the track: the engine stops.
BeginRefused ==
  LET t == play.track IN
  /\ BlockReady
  /\ NeedsOpen(t) /\ ~QuickResume(t) /\ Configure(t).path = "none"
  /\ sync' = [sync EXCEPT !.open = FALSE, !.playing = FALSE, !.paused = FALSE, !.muted = FALSE]
  /\ play' = [play EXCEPT !.track = NoTrack]
  /\ UNCHANGED <<env, cache, s24, hintKey, avail, block, heard, from, hinted>>

Attempt == SendAudio(IF cache.stale THEN sync.conf ELSE cache.conf,
                     block.track, block.number, block.at, block.left)

\* What was sent, in frames of the decoder's width; DSD counts any of it as all.
FramesLeft(sent) ==
  IF IsDsd(block.track) THEN 0 ELSE block.left - (sent \div (Container(block.track) * Channels))

SendSome ==
  /\ block.left > 0
  /\ Attempt.sent > 0
  /\ block.at < BlockLength(block.track) + MaxBeyond
  /\ \E a \in {Attempt} :
       /\ block' = [block EXCEPT !.at = @ + a.sent, !.left = FramesLeft(a.sent), !.retries = 0]
       /\ heard' = heard \o a.out
       /\ avail' = avail + Len(a.out)
       /\ s24' = a.s24
  /\ cache' = [conf |-> IF cache.stale THEN sync.conf ELSE cache.conf, stale |-> FALSE]
  /\ UNCHANGED <<env, play, sync, hintKey, from, hinted>>

\* Nothing taken: wait and try again, a bounded number of times.
SendNothing ==
  /\ block.left > 0
  /\ Attempt.sent = 0
  /\ block.retries + 1 < MaxRetries
  /\ block' = [block EXCEPT !.retries = @ + 1]
  /\ UNCHANGED <<env, play, sync, cache, s24, hintKey, avail, heard, from, hinted>>

\* The last one: the callback fails and the engine stops.
SendGivesUp ==
  /\ block.left > 0
  /\ Attempt.sent = 0
  /\ block.retries + 1 >= MaxRetries
  /\ block' = [block EXCEPT !.left = 0, !.track = NoTrack]
  /\ play' = [play EXCEPT !.track = NoTrack]
  /\ UNCHANGED <<env, sync, cache, s24, hintKey, avail, heard, from, hinted>>

\* getNewStream takes a buffer out of the ring.
Pop ==
  /\ sync.playing /\ ~sync.muted
  /\ avail >= PopSize
  /\ avail' = avail - PopSize
  /\ UNCHANGED <<env, play, sync, cache, s24, hintKey, block, heard, from, hinted>>

pausePlayback ==
  /\ sync.playing /\ ~sync.paused
  /\ sync' = [sync EXCEPT !.paused = TRUE, !.muted = TRUE]
  /\ UNCHANGED <<env, play, cache, s24, hintKey, avail, block, heard, from, hinted>>

\* The ring is emptied, and with it what it knew of the alignment.
resumePlayback ==
  /\ sync.paused
  /\ sync' = [sync EXCEPT !.paused = FALSE, !.muted = FALSE, !.playing = TRUE]
  /\ avail' = 0 /\ s24' = FreshS24 /\ hinted' = FALSE
  /\ heard' = <<>> /\ from' = block.at
  /\ UNCHANGED <<env, play, cache, hintKey, block>>

stopPlayback ==
  /\ sync.playing
  /\ sync' = [sync EXCEPT !.playing = FALSE, !.paused = FALSE, !.muted = TRUE]
  /\ UNCHANGED <<env, play, cache, s24, hintKey, avail, block, heard, from, hinted>>

Callback == Begin \/ BeginRefused \/ SendSome \/ SendNothing \/ SendGivesUp

Next ==
  \/ \E t \in Tracks : Start(t)
  \/ Callback
  \/ Pop \/ pausePlayback \/ resumePlayback \/ stopPlayback

Spec == Init /\ [][Next]_vars
-----------------------------------------------------------------------------
(* What the sizes, the sinks and the files are like; the theorems name what they *)
(* need of it.                                                                 *)

\* DSD comes in whole groups, a block goes through the staging area in one piece,
\* and half a ring is more than a block: ThresholdsFit of DataPath for real sizes.
BlocksFit ==
  /\ DsdBytes % 4 = 0
  /\ \A bytes \in {Channels * Frames * 4, Channels * DsdBytes} :
       bytes <= StagingSize /\ 2 * (bytes + 1) <= RingSize

\* A file of a given name and format has its samples in one place.
OneAlignment ==
  \A t, u \in Tracks : t.uri = u.uri /\ FormatOf(t) = FormatOf(u) => t.aligned = u.aligned
-----------------------------------------------------------------------------
(* Properties *)

\* What the control is made of, and then the quantities.
ControlTypes ==
  /\ env \in Environments
  /\ play \in [track : Tracks \cup {NoTrack}, next : Nat \ {0}]
  /\ DOMAIN sync = {"open", "playing", "paused", "muted", "format", "conf"}
  /\ \A flag \in {"open", "playing", "paused", "muted"} : sync[flag] \in BOOLEAN
  /\ sync.paused => sync.playing /\ sync.muted
  /\ sync.playing => sync.open
  /\ DOMAIN cache = {"conf", "stale"} /\ cache.stale \in BOOLEAN
  /\ DOMAIN s24 = {"mode", "deferred"} /\ s24.mode \in Alignments
  /\ DOMAIN block = {"track", "number", "at", "left", "retries"}
  /\ block.track \in Tracks \cup {NoTrack} /\ block.number \in Nat
  /\ hinted \in BOOLEAN

TypeOK ==
  /\ ControlTypes
  /\ s24 \in [mode : Alignments, deferred : Nat]
  /\ avail \in 0 .. RingSize - 1
  /\ block \in [track : Tracks \cup {NoTrack}, number : Nat, at : Nat,
                left : 0 .. Frames, retries : 0 .. MaxRetries - 1]
  /\ heard \in Seq(0 .. 255)
  /\ from \in Nat

\* Byte j of a PCM block on the wire: the top bytes of the sample, or all of them
\* over zeros.
WireByte(t, n, j, width) ==
  LET place == (j % width) + Container(t) - width
  IN IF place < 0 THEN 0 ELSE SourceByte(t, n, (j \div width) * Container(t) + place)

Bit(byte, k) == (byte \div <<1, 2, 4, 8, 16, 32, 64, 128>>[k + 1]) % 2

\* Bit k, in the order of time, of channel c: in the file, and in what went out.
SourceBit(t, n, c, k) ==
  Bit(SourceByte(t, n, c * DsdBytes + (k \div 8)), IF t.dsd = "DSF" THEN k % 8 ELSE 7 - (k % 8))

WireBit(layout, c, k) ==
  LET place == (k \div 8) % 4
      byte  == heard[4 * (Channels * (k \div 32) + c)
                       + (IF layout \in {"LSB_LITTLE", "MSB_LITTLE"} THEN 3 - place ELSE place) + 1]
  IN Bit(byte, IF layout \in {"MSB_BIG", "MSB_LITTLE"} THEN 7 - (k % 8) ELSE k % 8)

PcmHeard(t, n, width) ==
  \A j \in 1 .. Len(heard) :
    heard[j] = WireByte(t, n, (from \div Container(t)) * width + j - 1, width)

DsdHeard(t, n, layout) ==
  \A c \in 0 .. Channels - 1 : \A k \in 0 .. ((Len(heard) * 8) \div Channels) - 1 :
    WireBit(layout, c, k) = SourceBit(t, n, c, k)

InCallback == block.track # NoTrack

\* A block that went through from the start is in the ring to its last byte.
WholeLength(t) == IF IsDsd(t) THEN BlockLength(t) ELSE Frames * Channels * DirettaBps(sync.conf.sink)

\* The conversion in force is one for this track: the packing knows where the
\* 24 bits are, and the layout was computed for a file of this kind.
ConversionFits(t) ==
  CASE cache.conf.path = "pack24" -> t.bits = 24 /\ Effective(s24) = "MsbAligned"
    [] cache.conf.path = "dsd"    -> cache.conf.source = t.dsd
    [] OTHER                      -> Container(t) <= DirettaBps(cache.conf.sink)

\* What goes into the ring is the block, sample by sample or bit by bit, in the
\* sink's layout and to its end, on every build and for every pair of source and
\* sink for which the code has a conversion.
SinkHearsTrack ==
  InCallback /\ heard # <<>> /\ ConversionFits(block.track) =>
    /\ IF IsDsd(block.track) THEN DsdHeard(block.track, block.number, sync.conf.sink)
       ELSE PcmHeard(block.track, block.number, DirettaBps(sync.conf.sink))
    /\ block.left = 0 /\ from = 0 => Len(heard) = WholeLength(block.track)

\* The ring has a conversion from this track to the width or layout that open()
\* chose.  It has none from 24 or 32 bits to a sink of 16, which open() accepts.
Converts(t) ==
  IsDsd(t) \/ sync.conf.path = "pack24" \/ Container(t) <= DirettaBps(sync.conf.sink)

\* With the throttle of the audio thread a block always finds room: sendAudio
\* takes it whole or, muted, not at all.  The pushes and the callback disagree on
\* what a part of a block is (a direct copy may stop inside a frame, a DSD block
\* loses the rest of both channels), so this is what keeps the samples in step.
\* Not so without a conversion: see ReadsInsideBlock.
BlocksGoWhole == InCallback /\ block.left > 0 /\ Converts(block.track) => block.at = 0

\* Silence, quiet passages, a new track of the same format or a reopened session
\* never replace the alignment that the decoder reported, as long as nobody
\* emptied the ring behind the callback's back.
HintKept ==
  /\ InCallback /\ hinted
  /\ cache.conf.path = "pack24" /\ ~cache.stale
  /\ block.track.bits = 24 /\ block.track.aligned = "MsbAligned"
  => s24.mode = "MsbAligned"

\* "authoritative - we trust it completely": a pack mode that detection chose
\* never contradicts the decoder's report.
HintObeyed ==
  /\ InCallback
  /\ cache.conf.path = "pack24" /\ ~cache.stale
  /\ block.track.bits = 24 /\ block.track.aligned = "MsbAligned"
  => s24.mode # "LsbAligned"

\* "DirettaSync handles all format conversions": the callback offers frames of
\* the decoder's width, and sendAudio takes them as such; it never reads on
\* behind the block, and the loop ends with it.  Refuted by a sink of 16 bits and
\* a source of 24: half of a block counts as all that was offered, what is left is
\* offered again, and the last frame, never counted, from behind the block.
ReadsInsideBlock ==
  InCallback /\ block.left > 0 /\ ~IsDsd(block.track) => block.at < BlockLength(block.track)

\* "Use detected source format": a DSD block is laid out for its own kind of file.
LayoutOfSource ==
  InCallback /\ IsDsd(block.track) /\ heard # <<>> => cache.conf.source = block.track.dsd

-----------------------------------------------------------------------------
(* The invariant behind the properties. *)

\* The session, and the block in hand, have the format of a track that open()
\* found a format of the sink for; sendAudio's copy of it lags until its next call.
ConfiguredFor(t) ==
  t \in Tracks /\ sync.format = FormatOf(t) /\ sync.conf = Configure(t) /\ sync.conf.path # "none"

SessionConfigured ==
  /\ sync.open \/ InCallback => \E t \in Tracks : ConfiguredFor(t)
  /\ InCallback => sync.format = FormatOf(block.track)
  /\ ~cache.stale => cache.conf = sync.conf

BlockInTrack == InCallback => block.number \in DOMAIN block.track.blocks

\* A block that is not sent yet and that the ring can convert is there from its
\* first byte, all of its frames are left, and at most half of the ring is full.
BlockUntouched ==
  block.left > 0 =>
    /\ InCallback
    /\ Converts(block.track) =>
         /\ block.at = 0 /\ heard = <<>> /\ from = 0
         /\ block.left = (IF IsDsd(block.track) THEN 1 ELSE Frames)
         /\ 2 * avail <= RingSize

\* The key is that of the PCM track in hand, and while the hint for a key stands
\* the pack mode is what the file was reported to have.
HintFollowsKey ==
  /\ InCallback /\ ~IsDsd(block.track) => hintKey = HintKeyOf(block.track)
  /\ hinted => \A u \in Tracks : u.bits = 24 /\ u.aligned = "MsbAligned" /\ hintKey = HintKeyOf(u)
                                  => s24.mode = "MsbAligned"

ControlInv == ControlTypes /\ SessionConfigured /\ BlockInTrack /\ HintFollowsKey

IInv == TypeOK /\ ControlInv /\ BlockUntouched /\ SinkHearsTrack
=============================================================================
