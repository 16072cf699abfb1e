# Diretta host daemon: formal models

TLA+ modules for the daemon in `src/src/`: a process that decodes audio files
and streams them to a Diretta target on the network, steered by a controller
over a Unix socket. The modules model its control: who holds which lock, what is
read before a wait and used after it, what each error path leaves behind; and its
arithmetic where a wrong size or byte would be heard. Audio data is abstracted
to what the properties can tell apart.

To check a module: `tlc -workers 2 -config Playback.cfg MCPlayback.tla`.
To check the proofs: `tlapm Ring_proofs.tla`, and the same for
`AudioEngine_proofs`, `SyncLifecycle_proofs`, `Playback_proofs`, `SendPath_proofs`,
`DataPath_proofs`, `AudioDecoder_proofs` and `Daemon_proofs`.

## 1. The system

### Threads

| thread | code | what it does |
|---|---|---|
| command | `IPCServer::eventLoop` | every IPC handler, one at a time, under `DirettaRenderer::m_mutex` |
| audio | `DirettaRenderer::audioThreadFunc` | `AudioEngine::process()`, and from it the output, track-change and end-of-track callbacks |
| preload | `AudioEngine::m_preloadThread` | opens the next track |
| worker | `DirettaSync::startSyncWorker` | the SDK's loop, which calls `getNewStream()` |
| position | `positionThreadFunc` | a position event per second |
| main, signals, log drain | `main.cpp` | start, stop, statistics, log output |

### Locks

`DirettaRenderer::m_mutex` (commands; the audio thread only tries it),
`AudioEngine::m_mutex` (held all through `process()`, callbacks included),
`m_pendingMutex`, `DirettaSync::m_lifecycleMutex` (recursive; not taken by
`enable()` and `disable()`), `m_configMutex`, `m_workerMutex`, `m_flowMutex`,
`m_transitionMutex`, `IPCServer::m_mutex`. The ring buffer has no lock: two
atomic positions, and `RingAccessGuard` against resizing.

### Components

| component | state | operations | talks to |
|---|---|---|---|
| AudioEngine | state, current/next/pending URI, two decoders, seek request, preload thread | play, stop, pause, seek, setCurrentURI, setNextURI, clearNextURI, process | decoder; callbacks into the renderer |
| DirettaRenderer | current URI, released flag, callback and shutdown flags | the IPC handlers, audio thread, callbacks | everything |
| DirettaSync, lifecycle | enabled, sdkOpen, open, playing, paused, formats, abort and wakeup flags | enable, disable, open, close, release, stop/pause/resumePlayback, reconnect | SDK |
| DirettaSync, data path | draining, silence and warm-up counters, prefill, rebuffering, drift accumulator, ring | sendAudio, getNewStream | ring buffer |
| DirettaRingBuffer | two positions, bytes, 24-bit alignment | push and the converting pushes, pop, clear, resize | |
| ring access protocol | reconfiguring flag, user counter | RingAccessGuard, begin/endReconfigure | |
| format negotiation, buffer sizing | sink format, conversion, buffer sizes | configureSink\*, configureRing\*, the block size of the audio thread | SDK |
| AudioDecoder | the container's position, left-over DSD bytes, PCM FIFO, resampler or bypass | open, close, seek, readSamples | FFmpeg |
| IPCServer | connections, control connection, line buffers | commands, replies, notifications, stop | renderer |
| main, DirettaRenderer | running flag, threads | start, stop, signals, shutdown, destructors | everything |
| LogRing | two positions | push, pop | |

Behaviours that are hard: two threads that tear down and bring up the same
session; a decoder that is opened without the lock and committed later; a
callback that was about to begin when a command was done waiting for callbacks;
the bounded waits of 5 and 12 seconds against an `open()` that takes longer; a
target that goes away; three thresholds on one ring; sizes of buffers, blocks,
packets and frames that meet in one ring and must not lose a sample; three
builds of every conversion; control of the daemon that hangs on a descriptor the
kernel gives away again; a process that is stopped by a signal, a command or a
destructor while four threads run; and a lock-free protocol whose memory orders
matter. What can go wrong at which line is listed under `hazards` in
PROJECT.json, with the property that watches over it.

### What makes each component correct

- Ring access: never a resize under an access; the counter exact; the resizer
  gets its turn.
- Ring buffer: a bounded FIFO, nothing torn.
- AudioEngine: decoder and URI belong together; what was revoked does not come
  back; what was acknowledged is not lost.
- DirettaSync lifecycle: the flags tell the truth about the session; playing
  implies audible; the sink has the format; an abort is honoured.
- Playback as a whole: a stop frees the target; no old audio after a new track
  was asked for; nothing skipped inside a track; nobody waits forever.
- Data path: whole frames at every boundary, the rate kept over any time, sizes
  that fit each other for every format.
- Conversions: what the sink hears is the track, bit by bit, in every build.
- Decoder: blocks join without a gap, nothing is lost at the end, reads end.
- IPC server: one controller, never inherited; every command once and in order;
  a line is a line.
- Process: whatever stops it, it ends and leaves nothing behind.

## 2. The modules

| module | models | composed with |
|---|---|---|
| `RingAccess` | `RingAccessGuard`, `beginReconfigure`, `endReconfigure`, `m_lifecycleMutex` around them | |
| `RingBuffer` | `push`, `writeToRing`, `pop`, `clear` | implements `ByteFifo` |
| `ByteFifo` | nothing in the code: the abstract queue | |
| `AudioEngine` | the class, the preload thread, and the engine calls of the IPC commands | output callback: succeeds or fails |
| `SyncLifecycle` | `DirettaSync` without its data path, and every handler that calls it | SDK, worker, target: outside |
| `Playback` | renderer, output callback, `sendAudio`, ring, `getNewStream`, and the four commands that cut across them | engine, lifecycle and ring in less detail |
| `BufferSizing` | the sizes of rings, prefills, buffers and blocks (pure) | |
| `DataPath` | `open()`'s configuration, the audio thread's blocks, `getNewStream` in full, with the real sizes | `BufferSizing` |
| `FormatNegotiation` | which format a sink is set to, and the conversion that follows (pure) | |
| `SampleConversions` | the vector and scalar loops of the converting pushes (pure, on bytes) | |
| `SendPath` | output callback and `sendAudio` with real conversions, 24-bit alignment, quick resume | `FormatNegotiation`, `SampleConversions` |
| `AudioDecoder` | one decoder: open, close, seek, `readSamples` packet by packet | FFmpeg: outside |
| `IPCServer` | connections, reads, lines, control, answers, notifications | |
| `Daemon` | handlers, threads, main loop, signals, stop, destructors | `IPCServer` |
| `MC...` | values for the constants | |
| `Ring_proofs`, `AudioEngine_proofs`, `SyncLifecycle_proofs`, `Playback_proofs`, `SendPath_proofs`, `DataPath_proofs`, `AudioDecoder_proofs`, `Daemon_proofs` | theorems | |

The map in PROJECT.json gives the source lines of every definition. Variables
have the names of the fields they stand for (`m_draining`, `writePos`); an
action has the name of the function it models, with a suffix where the function
is split. A function is split exactly where it releases a lock, waits, calls
out, or stores an atomic that another thread reads without the lock; a stretch
under a lock that touches nothing others read without it is one step.

**RingAccess.** `user[u]` is where a thread is in its guard (first look, counted,
second look); `reconf[r]` where a resizing thread is. `storeBuffer` holds stores
of the resizing thread to `m_reconfiguring` that the others do not see yet. The
code asks for release stores and acquire loads, and these do not keep a later
load from being performed first; so the load of `m_ringUsers` does not wait for the
store of the flag. `overtook` is history: the load that ended the last spin passed
that store. A mutex unlock makes all stores visible.

**RingBuffer.** Every operation is two steps, measuring and publishing.
`pushing` is the block being copied in, `popping` the number of bytes being
copied out. `resize()` is the initial state; `clear()` is modelled as the guarded
callers make it, with nothing in flight (see hazards for the other three).

**AudioEngine.** A decoder is `[uri, pos]`. The audio thread is in `process()` at
label `audio`; the command thread works off `calls`, the engine calls of its
command, each in the steps of `ipc`; `loader` is the preload thread, and the same
code run inline by `process()`. `queued`, `sought` and `stopDone` are history for
the properties only. `formatOf` is the sample format of each track, chosen once from
`Formats`: nothing but the comparison of two tracks depends on it. Left out: `m_trackNumber`, metadata, `isDraining`, the
sample counters. A file is at its end exactly when all of it was read. Joining a
thread that another thread is joining is undefined in C++; the second joiner goes
on at once, one of the possible outcomes.

**SyncLifecycle.** A handler is a list of calls, run by `audio` or `command`.
`sdk` is the session (`closed`, `open`, `connected`, `lost`), `sinkFormat` what
its sink was set to, `worker` whether the SDK's thread runs. Every request to the
SDK may succeed or fail, nothing succeeds on a closed session, and the target may
drop off at any moment. The waits for callbacks are not enforced here, since
they end after 5 seconds whatever happens.

**Playback.** A unit of audio is one SDK buffer, `<<track, n>>`. The audio thread
is at `audio`; a command is a list of steps, `todo`. Commands run one at a time
(`m_mutex`). `m_stopRequested` is folded into `online`; formats differ in rate
only; the decoder opens every time; `selectTarget` is left to SyncLifecycle. A
wait with a timeout may end early only while `open()` runs (`TimedOut`), which is
the only thing that takes seconds, and only when `SlowOpen` allows it. The drain
at the end of a track takes two seconds at most, more than a full ring, so its
timeout counts only when nothing flows. After a `process()` that failed the audio
thread looks for a lost target, or not: the catch-up call (`DirettaRenderer.cpp:1010`)
ignores its result (`Disconnected`). `PullsOffline` says whether the SDK asks
for data when its target is gone; the sources do not tell.

**DataPath.** Sizes are those of the code, so the instance is a list of formats
rather than a small number. The ring is its level, `avail`; the SDK takes any
number of buffers between two blocks, from `play()` to `stop()`. `drift` is history:
what the SDK was given beyond what the rate asks for, in thousandths of a frame.
A command comes when the ring holds 0 or 3 blocks (`CommandBlocks`), which bounds
the levels. `open()` and `close()` join the worker around a configuration, so the
worker sees whole ones.

**SendPath.** A block is `Frames` frames or `DsdBytes` bytes a channel; byte `i` of
block `n` of a track has a value of its own, so a byte in the wrong place is seen.
`cache` is what `sendAudio` works with since it last compared generations. Ring and
staging area are 256 bytes, the timeout of detection 24 samples, the retries 3.
The vectors have their real widths: a frame count of 10 with two channels makes
20 samples, so every loop has at least one vector and a scalar tail. One of the sinks
has 16 bits only, for which there is no conversion from 24 or 32 (`Converts`); there the
code reads on behind the block, and the model follows it for `MaxBeyond` bytes.

**AudioDecoder.** Sample `p` of the left channel is `2p`, of the right `2p + 1`.
The container gives packets of `block` samples, a codec frames of them; `Reads` are
the sizes asked for. `expected` is history, the sample the next read must begin
with. The ring of DSD bytes has 4 places, the DFF chunk 5 bytes.

**IPCServer and Daemon.** `ipc` is the server's thread: the descriptor it looks at,
its command, and the steps left of it; `events` is what one `epoll_wait` reported.
A client writes pieces; a command's name stands for the piece that ends its line.
The kernel gives a new connection the lowest free descriptor. `received` records
only whether a client's stream ends a line, and whether a line ever had another
one inside. `owed` and `holder` are history. Of the player, `Daemon` keeps
`playing` and `target`; Playback and SyncLifecycle look inside. The engine may hang in
the join of the preload thread (`AudioSticks`, see `NoJoinUnderMutex` in section 5):
then play, stop and `DirettaRenderer::stop()` wait for it for ever. `Early` says
whether clients and signals may come before `start()` has returned; the run of liveness
has them.

## 3. The runs

| run | shows | instance | states |
|---|---|---|---|
| `ring_access` | no resize under an access unless a load passed a store; exact counter; `beginReconfigure` ends | 3 users, 2 resizers, 2 stores in flight | 3,512 |
| `ring_access_tso` | **violated**: no resize under an access | 2 users, 1 resizer | |
| `ring_buffer` | FIFO refinement, disjoint copies, stable room | 4 slots, 2 byte values, blocks up to 3 | 17,328 |
| `audio_engine` | decoders match, no track follows itself, nothing revoked returns | 2 tracks of one block, of one format or of two; all 8 commands; symmetric tracks | 3,782,709 |
| `sync_lifecycle` | not muted, sink format, worker, aborts | all handlers, 4 formats | 77,970 |
| `playback` | no hole, stop releases, commands return, playback ends | 2 tracks of 3 units, other rates, ring of 4, slow opens, target may drop | 60,645 |
| `send_path` | the sink hears the track; the alignment hint survives; blocks go whole | 6 tracks (24-bit with and without hint, CD, float, DSF, DFF), 8 combinations of build, option and sink | 133,148 |
| `data_path` | rate kept, whole frames, thresholds fit, audio resumes with a store | 11 formats from 44.1 kHz to DSD512 on MTUs of 1500, 1539 and 9014 | 1,541,398 |
| `decoder` | blocks join, nothing lost, reads end | 11 files, blocks of 1, 3 and 6, an error, seeks and reopening | 320,835 |
| `daemon` | one controller, commands in order | 2 clients on 2 descriptors that are reused, 3 pieces, failing `epoll_ctl`, overflow | 2,333,010 |
| `daemon_live` | commands are served, a signal ends the process in good order | 2 clients, 2 pieces, shutdown command, a signal at any time, an engine that may hang | 298,797 |
| `daemon_framing` | **violated**: a line is a line | 1 client that plays and asks | |

Why the bounds are enough. The ring protocol is symmetric in its threads, and two
resizers are all the mutex can tell apart; the proofs cover the other sizes. A
ring of four slots has the empty, full, wrapped and one-short positions with
blocks that wrap and blocks that do not. Two tracks give every relation between
current, next and pending (the same, another, none), and with one format or two every
outcome of comparing them; they have the same part in everything, so swapping them is a
symmetry. Tracks of one block reach the end of file, the preload and the gapless
transition with every read. In Playback the ring (4) is larger than two blocks and
its half, prefill and rebuffering thresholds lie at 2, with a block of 2, so a block
can fit, fit in part, or not at all on either side of each; a track of 3 units is
longer than a block and has a last block shorter than the rest. Retries are 2
instead of 40 or more. The formats of `data_path` cover every branch of the sizing
(buffers of 1 ms with and without a remainder, of a packet, low and high rates,
local and remote, each kind of push), two of them to a change of format. The files
of `decoder` have packets as large as the ring of bytes left over, smaller and
larger than a read, an even and an odd number of bytes, and a file that ends before
its header says so. Behind a block that cannot be converted the callback is followed for
8 bytes (`MaxBeyond`), by which it has missed the end. Two clients are what the control role can tell apart, and
three pieces make a command in two reads, two in one, and a line left open when
its client goes. Deadlock is not checked where the daemon may rest (nothing
playing, no command).

### Fairness

`RingAccess`: a thread in its guard, or spinning in `beginReconfigure`, is
scheduled, and a core retires its stores; nobody has to start an access.
`Playback`: the audio thread's loop runs, a command that began is carried on
(it is ordinary code on a scheduled thread), and the worker keeps asking for data
while the SDK plays. No command has to be given, the target does not have to drop,
and `open()` may fail. `AudioDecoder`: a read that began goes on. `Daemon`: the
server's, the audio, the position and the main thread run, except what waits for an
engine that hangs; clients, tracks and signals owe nothing. That one busy client cannot starve another follows from the
batch of `epoll_wait`, which is modelled, and needs no fairness of its own. Nothing
stronger than weak fairness is assumed.

## 4. What is proved

For every value of the constants, by TLAPS:

| theorem | says |
|---|---|
| `Ring_proofs!AccessInductive` | `GuardInv` holds always |
| `Ring_proofs!AccessTypeCorrect` | type correctness of `RingAccess` |
| `Ring_proofs!ResizeAloneUnlessOvertaken` | a resize overlaps an access only when the load that ended its spin passed its store (`ExclusionUnlessOvertaken`) |
| `Ring_proofs!CounterExact` | `m_ringUsers` counts the threads inside (`CountExact`) |
| `Ring_proofs!TypeCorrect` | type correctness of `RingBuffer` |
| `Ring_proofs!MeasureHolds` | what was measured still fits when it is published (`StillFits`) |
| `Ring_proofs!NoTornSample` | a copy in and a copy out never touch the same byte (`NoOverlap`) |
| `Ring_proofs!SameRoom` | the two computations of the free room agree |
| `Ring_proofs!RingIsQueue` | the ring implements `ByteFifo` (`RefinesFifo`) |
| `AudioEngine_proofs!TypeCorrect` | type correctness |
| `AudioEngine_proofs!TracksKeepTheirNames` | each decoder is that of its URI (`DecodersMatchUris`) |
| `AudioEngine_proofs!NoTrackFollowsItself` | the next track is another one (`NextIsAnotherTrack`) |
| `AudioEngine_proofs!NothingRevokedReturns` | a revoked next track does not come back (`RevokedStaysRevoked`) |
| `SyncLifecycle_proofs!TypeCorrect` | type correctness |
| `SyncLifecycle_proofs!NeverMuted` | what should play is not swallowed (`NotMuted`) |
| `SyncLifecycle_proofs!SinkAgrees` | the sink has the format that is remembered (`SinkHasFormat`) |
| `SyncLifecycle_proofs!WorkerIsServed` | no worker outlives its session (`WorkerHasSession`) |
| `SyncLifecycle_proofs!AbortIsHonoured` | an open that was told to abort in time does not connect (`AbortHonoured`) |
| `Playback_proofs!TypeCorrect` | type correctness |
| `Playback_proofs!NoHole` | the ring has the track's units one after another (`RingHasNoHole`) |
| `Playback_proofs!StopIsComplete` | a stop that returned has released the target (`StopReleases`) |
| `Playback_proofs!Inductive` | the invariant behind these three |
| `DataPath_proofs!RateKept` | the buffers keep the rate over any time (`NoDrift`) |
| `DataPath_proofs!ThrottleNeverStarves` | the throttle cannot keep the ring below its prefill target |
| `DataPath_proofs!ComesBackFilled` | after silence audio starts with a store (`AudioResumesFilled`) |
| `DataPath_proofs!FramesKept` | the ring has whole frames (`WholeFrames`), given `RealFormats` |
| `DataPath_proofs!SizesFit` | thresholds, blocks and staging areas fit the ring (`ThresholdsFit`), given `RealFormats` |
| `DataPath_proofs!TypeCorrect` | type correctness, given `RealFormats` |
| `SendPath_proofs!SinkHears` | what the ring gets is the block in the sink's layout (`SinkHearsTrack`), given `BlocksFit`, `OneAlignment` |
| `SendPath_proofs!BlocksAreWhole` | a block that can be converted is sent whole or not at all (`BlocksGoWhole`), given the same |
| `SendPath_proofs!SendPathInvariant`, `TypeCorrect` | the invariant behind these, and the types, given the same |
| `SendPath_proofs!HintIsKept` | the reported alignment stands (`HintKept`), given `OneAlignment` |
| `SendPath_proofs!ControlCorrect` | session, copy of it, block and hint belong together (`ControlInv`), given `OneAlignment` |
| `SendPath_proofs!PackIs`, `Widen32Is`, `Widen24Is`, `DsdIs` | what each conversion stores, for any number of samples |
| `SendPath_proofs!BuildsAgree`, `DsdBuildsAgree` | AVX2, NEON and scalar code store the same bytes |
| `SendPath_proofs!BitsReversed` | the table reverses the bits of every byte |
| `AudioDecoder_proofs!SampleBySample` | the blocks of reads join (`Contiguous`), given `RegularFiles` |
| `AudioDecoder_proofs!NothingKeptBack` | nothing taken out of the file is lost between reads (`NothingLost`), given `RegularFiles` |
| `AudioDecoder_proofs!InPlace` | the invariant behind these two |
| `AudioDecoder_proofs!TypeCorrect` | type correctness |
| `Daemon_proofs!ControlIsExclusive` | one controller, never inherited, and only its commands are carried out (`OneController`) |
| `Daemon_proofs!OrderKept` | a client's commands are carried out in the order it sent them, each once (`CommandsInOrder`) |
| `Daemon_proofs!InBooks` | the books behind it: what was sent, what is in the buffer, what is owed |
| `Daemon_proofs!TypeCorrect` | type correctness |

*RingAccess.* `Exclusion` is false of the code (section 5), and nothing here assumes it.
The counter and the types hold however late a store retires. `ExclusionUnlessOvertaken`
says what is left of the exclusion, and that the reordering of one load with one store
is all that is wrong with the protocol. It is not inductive: whether a second look sees
the flag depends on who may have raised it. `GuardInv` adds that the counter is the
number of threads holding a count (`CountExact`; so zero means nobody is inside), that
only the owner of `m_lifecycleMutex` is between begin and end (`OneReconfigurer`), that
the last value the owner stored, visible or not, is TRUE exactly while it waits or
resizes, and that while a resize that was not overtaken goes on no store is in flight
(`FlagTracksOwner`). Assumptions: finitely many users.

*RingBuffer.* `IInv` is type correctness with `StillFits`. Push only shrinks the
free room and pop only shrinks the content, and each is measured by the thread
that alone shrinks it; the remainder lemmas carry this through the wrap. `NoOverlap`
and `RoomsAgree` follow from `IInv` without another induction. Assumptions: at
least two slots (`roundUpPow2` gives a power of two, which the proofs do not need).

*DataPath.* `NoDrift` is nearly inductive: `DriftInv` adds that a configured buffer
holds the whole frames of a millisecond and remembers the remainder of a thousand
(`BufferOK`), and that buffers of a packet leave the accumulator at zero. One lemma
computes that a buffer, with or without the extra frame, adds to the drift what it
adds to the accumulator; all other steps leave both alone, or reset both. For
`ThrottleNeverStarves` the invariant (`FlowInv`) says that the prefill target is at
most half of the ring and not nothing (`FlowOK`, from the sizes of any format by
the lemmas on rounding up to a power of two), that a ring at its target has
completed its prefill, and that rebuffering ended by a fifth. Assumptions: rates,
channels and widths are positive.

The other three are about all that `open()` can configure. `AudioResumesFilled` needs no
more: what ends a silence is a prefill that was completed or a rebuffering that found a
fifth of the ring, and until the next buffer is taken the ring only grows (`StoreInv`,
`FillInv`). `WholeFrames` and `ThresholdsFit` are false of numbers no format has, so
they have a hypothesis, `RealFormats`: DSD has four channels at most, PCM at most 1,536
kHz and 32 bytes a frame, and 12 below 11,025 Hz, and a packet has 83 bytes or more.
Without it a block of 2,048 frames is more than half of a ring for eight channels of 16
bits at 8 kHz, the staging area (65,536 bytes) cuts a block of six channels of DSD256,
and the lower limit of 64 bytes a buffer is not a number of frames. TLC evaluates the
hypothesis for the instances (`InstanceIsReal`). `FitInv` says of a configured ring that
a block and a buffer are multiples of a frame, that a block fits the staging area and
that eight blocks are no more than three rings, and that the ring's content is a
multiple of a frame; it moves by such multiples only. The silence at shutdown, which is
scaled with the DSD rate, is always that of PCM's rates, for `m_sampleRate` is stored by
PCM formats alone.

*Playback.* `RingHasNoHole` speaks of neighbours in the ring, but a block can be cut at
any place: by a pause in the middle, by a stop, by retries that run out. `IInv` adds
where the next unit comes from (`Upcoming`): a unit that is sent while the ring has
something continues it. What breaks the sequence must empty the ring before anything
else is sent. That a block given up is followed only by a ring that was cleared, by a
release, or by a decoder back at the start of a track needs to know what a command has
still to do; therefore the list of its steps is one of the ends of the lists that
commands start with (`TodoOK`), and every such list keeps to some rules (`Kept`): a
flush comes after its silence, a flag before its wait, and after a wait the decoder or
the target is let go. That retries do not run out when nothing is wrong comes from the
throttle: a ring below it has room for two blocks. `StopReleases` is proved by the steps
a stop has left: for each end of its list, what was done before it (`StopList`).
Assumptions: `PlaybackAssumption`, which asks that the throttle and two blocks fit the
ring and bounds nothing else; tracks, lengths, retries and commands are arbitrary.

*SendPath.* Three layers. First the conversions: the vector loops and the scalar loop
behind them are written as what they store at each place, and the lemmas `DivModOf`
and `SampleByteDivMod` find the vector, the sample and the byte of a place, so that the shuffle
masks are compared with "three bytes of every sample" one lane at a time; `PackIs`,
`Widen32Is`, `Widen24Is` and `DsdIs` hold for any number of samples, without induction.
Then one call of `sendAudio` (`PcmCall`, `DsdCall`): it takes nothing, or the whole block
converted. Then the steps. `SinkHearsTrack` says nothing of what comes before the bytes,
so `IInv` adds that the session, and `sendAudio`'s copy of it unless marked stale, are
those `open()` makes for a track, which is the one of the block in hand
(`SessionConfigured`); that while a hint stands the pack mode is what the file was reported
to have (`HintFollowsKey`); that a block not sent yet is there from its first byte and at
most half of the ring is full (`BlockUntouched`: the throttle lets a block come only
then). The last is said of blocks that can be converted (`Converts`). A block of 24 bits in
front of a sink of 16 goes out in parts and the callback loses its place; for it the
theorems say that types and control stay in order, and what is false of it is
`ReadsInsideBlock`, refuted by `SendPath_16bit`. No theorem assumes that such sinks do not
occur. The control
needs no sizes (`ControlCorrect`); the rest has two hypotheses, which
TLC evaluates for the instance (MCSendPath).
`BlocksFit`: a block fits the staging area and half of the ring, and DSD comes in groups
of four bytes a channel. For two channels a block of PCM is 16,384 bytes at most, and ring
and staging area are 65,536 or more; a block of DSD is of multiples of 32 bytes a channel
and 32,768 bytes at most, where the ring of its rate has room (`DataPath_proofs!SizesFit`).
`OneAlignment`: two tracks of one name and format have one alignment, as
one file has; the callback knows tracks by name and format only. Assumptions: builds, layouts and
sizes are of their kinds. There are two channels, as everywhere in this module.

The attempt showed that three definitions, `DetectAlignment`, `SendAudio` and `ConvertDSD`,
had relied on TLC's taking the first of two CASE arms that are both true, where TLA+
leaves the choice open. They now say which one the code takes.

*AudioDecoder.* Types hold for any files. The rest has a hypothesis, `RegularFiles`: a
codec makes one frame of a packet, and frames have the sample format stated when the
file was opened unless they are copied as they are. `readSamples` relies on both, and
nothing in it checks them: of several frames those behind a full block are dropped
(section 5), and a resampler set up for another format makes noise. TLC evaluates the
hypothesis for the instance (`InstanceIsRegular`). `Contiguous` says nothing of what waits.
`Placed` adds that the ring of DSD bytes, or the FIFO, goes on where the block in hand
ends, up to the place the file was read to, less what an error cost; that it is empty
when a packet is asked for, which is why a packet can be put behind the block; that a
frame to be received starts where the block ends; that the resampler expects the file's
format; and that a DFF file was read by whole pairs but for its last byte. A ring that
is empty takes all that a block leaves of a packet, for a packet is no longer than the
ring and at least a sample of it is used; where the bytes come to lie is arithmetic of
remainders as for RingBuffer. Assumptions: a DSF packet fits the ring.

*RingBuffer implements ByteFifo.* The queue of a ring is the sequence of bytes from
the read position up to the write position. With `IInv` at hand three lemmas do the
work: publishing a push appends the block to that sequence, publishing a pop takes a
prefix off, and a clear leaves it empty; measuring steps are stutters. Each follows
from where the `i`-th byte lies, `readPos + i` modulo the size, and from the room that
was measured, which keeps the block and the content apart. The sequences are compared
by length and element by element, so no induction is needed. This is the safety part,
which is all that `ByteFifo` has.

*AudioEngine.* None of the four invariants says who may be between two steps, so
`IInv` adds it. `MutexHeld`: a thread at a step under `m_mutex` holds it, which keeps
commands, preloads and `process()` from changing the URIs and decoders under each
other. `PreloadedIsAnother`: a preloaded decoder is not that of the current track, also
between taking the pending URI and applying it, where `NextIsAnotherTrack` says
nothing. `QueueKnown`: the URI that is pending is the one acknowledged last (or the
one whose flag `setNextURI()` is about to set), and so is the next one when none is
pending. `SeekKnown`: a seek that is being stored is a position. That a revoked seek moves
no later track is not proved, for it is false (`StaleSeekMovesNothing`). One lemma
an action; the list of calls a command makes is any sequence of calls. Assumptions: None
is neither a track nor a position; tracks, formats, lengths and the set of commands are
arbitrary.

*SyncLifecycle.* The properties speak of quiet moments, and `open()` and `close()` take
many steps to get there. `IInv` adds that a thread inside either holds
`m_lifecycleMutex` (`Holders`), so that only steps before the lock, and those of
`enable()` and `disable()` that do without it, come in between; that a worker without a
session is on its way to be joined (`WorkerServes`); that an aborted `open()` which can
still look finds the flag set (`AbortSeen`); and that an `open()` past its last reset
which finds the target there meets nothing muted (`Unmuted`) and a sink set to the
format it is going to remember (`FormatKnown`). Each failure between two steps leaves the
session offline or disabled, where `Unmuted` and `FormatKnown` ask nothing. Assumptions:
the warm-up format of `enable()` is one of the formats; threads and formats are arbitrary.

*Daemon.* `OneController` says nothing of what the thread has still to do, so it is
not inductive: a handler may run two steps after the permission was checked, and a
descriptor may be closed and reused in between. `IInv` in `IPCServer` adds the list of
steps the thread can have left and that on the way to a handler its connection is
still the one with control (`ThreadInv`); that the descriptors `epoll_wait()` reported
are connected until they were looked at, and that a connection being set up is not
among them (`EventsInv`); and that a connection, its mark and `m_controlFd` change
together (`ControlInv`). One lemma an action; the steps of the other threads and of
the clients touch none of the variables. Assumptions: descriptors are natural numbers
other than the listening one's, so that none is `NoFd`. Clients, pieces and their
number are arbitrary.

`CommandsInOrder` compares what was carried out with what was sent, with two buffers in
between. `Books` adds that what a client is owed is what its buffer holds followed by
what is still in its socket (`OwedInv`), and that a connection is one client's only
(`OwnersInv`). Reading appends to a buffer and a command takes the first line off
it; the main lemma (`AfterLineJoined`) says that taking a line off and appending can be
done in either order. The first line is cut at the least end of a line, which exists
since `<` on the naturals is well-founded.

Out of the prover's reach, and so only model-checked: liveness
(`ReconfigureProceeds`, `CommandsReturn`, `PlaybackEnds`, `ReadEnds`,
`CommandsServed`, `SignalEnds`), whatever needs `ENABLED`, and what a recursive definition
computes for every input. Every other invariant and action property that a passing
run checks is proved, those of SendPath under the hypotheses above.

## 5. Claims the code does not keep

Two runs end in a counterexample (under `findings` in PROJECT.json).
`daemon_framing`: `notifyPosition()` sends a text and its newline separately
(`IPCServer.cpp:547`), and an answer of the server's thread, which does not take the
mutex (567), can go out between them. The client reads one line with two objects,
where `docs/IPC_PROTOCOL.md:3` promises one object a line.
`ring_access_tso`: `beginReconfigure()` stores its flag with release order and loads the
counter with acquire order (`DirettaSync.cpp:2100`), so the flag can still be in the store
buffer of its core when it reads the counter as zero; a user counts itself, reads the old
flag and goes in, and the ring is resized under a push or a pop. The comment at 98 says
that these orders make both sides see each other. Sequentially consistent accesses, or a
fence between the store and the load, would do.

The following configurations are kept beside the runs. Each checks one formula,
which is what a comment or a document of the repository says, and TLC refutes it:

| configuration (module) | formula | what happens |
|---|---|---|
| `AudioEngine_lost` (MCAudioEngine) | `QueueNextHonoured` | `process()` takes the pending URI under `m_pendingMutex`; a second queue_next sets URI and flag; `process()` clears the flag (`AudioEngine.cpp:1932`). |
| `AudioEngine_seek` (MCAudioEngine) | `StaleSeekMovesNothing` | `process()` has taken a request to seek (`AudioEngine.cpp:1864`) when play_now stops the engine, which clears the request, and starts another track; `process()` then moves the new track (1891), against `CHANGELOG.md:13`. |
| `SyncLifecycle_open` (MCSyncLifecycle) | `OpenIsConnected` | A change of bit depth closes the session, and an abort or a failure returns early with `m_open` still set (`DirettaSync.cpp:1144`, against `DirettaSync.h:598`). |
| `Playback_replace` (MCPlayback) | `ReplacedIsGone` | A block is being decoded when play_now comes. The command stops the engine, sees no callback running and cuts the output; the callback begins, finds nothing playing, reopens and sends (`DirettaRenderer.cpp:101`, against `IPC_PROTOCOL.md:223`). |
| `Playback_stop` (MCPlayback) | `StopHonoured` | A stop during a change of rate finds neither open nor playing and is ignored (`DirettaRenderer.cpp:759`, against its comment at 783 and `CHANGELOG.md:210`). |
| `Playback_disconnect` (MCPlayback) | `DisconnectNoticed` | The target drops while the ring is more than half full and the SDK asks for nothing more: the audio thread stays throttled (986) and never gets to the check at 999. |
| `SendPath_resume` (MCSendPath) | `HintObeyed` | A resume clears the ring and the alignment (`DirettaSync.cpp:1662`), the callback gives its hint only for a new track or format, and detection takes a quiet passage for the other alignment: against "authoritative" at `AudioEngine.cpp:581`. |
| `SendPath_16bit` (MCSendPath) | `ReadsInsideBlock` | There is no conversion from 24 to 16 bits: in front of a sink that takes 16 only, frames taken are counted in the sink's width and offered in the source's (`DirettaRenderer.cpp:551`, 589). |
| `AudioDecoder_zero` (MCAudioDecoder) | `ZeroIsEof` | A packet the codec refuses at the start of a read gives zero samples, which `AudioEngine.h:108` and `AudioEngine.cpp:2049` take for the end of the file. |
| `DataPath_warmup` (MCDataPath) | `DsdWarmupScales` | `configureRingDSD` never stores `m_sampleRate`, so the warm-up of DSD is computed with the rate of the last PCM track: it gets a part of the time the comment at `DirettaSync.cpp:1948` gives. |
| `Daemon_shutdown` (MCDaemon) | `ShutdownIsGraceful` | The shutdown command clears `m_running` (`DirettaRenderer.cpp:802`), the main loop ends, `stop()` returns at once (905), and the destructor meets threads nobody joined: `std::terminate`, against `docs/PLAN-STRIP-UPNP-IPC.md:78`. The target is not released and the socket file stays; `Restart=on-failure` starts the service again. |
| `Daemon_early` (MCDaemon) | `OrderlyExit` | `start()` starts the server (`DirettaRenderer.cpp:824`) before it sets `m_running` (830): for a signal in between `stop()` does nothing, and the destructors run beside the server's thread, where a command can take the target again after it was released. A shutdown command in between is forgotten. |

More formulas of this kind stand in the modules, under the heading "What the
comments of the code say and the code does not keep" (`RingBuffer` has one among its
properties). To see one refuted, put it as INVARIANT (or PROPERTY) into the named
configuration, in place of the ones there, with the constants given:

| formula | configuration | constants | what happens |
|---|---|---|---|
| `SeekHonoured` | `AudioEngine_lost` | Commands play_now, seek | target loaded, second seek stored, request cleared |
| `NoJoinUnderMutex` | `AudioEngine_lost` | | `process()` joins the preload thread with `m_mutex` held, and that thread needs it |
| `LeftAtEndOnly` (property) | `AudioEngine_lost` | | a track started during the wait for the preload is skipped |
| `StopRewinds` (property) | `AudioEngine_lost` | Length 2, Commands play_now | `stop()` skips its cleanup, the next play goes on in the middle |
| `GaplessSameFormat` | `AudioEngine_lost` | Track a, b, dsd, Formats TwoOfOne | the preload compares with a track that is no longer current |
| `SdkFlagTrue` | `SyncLifecycle_open` | Format TwoRates | the session is closed and the reopening fails; `m_sdkOpen` stays |
| `DisabledHasNone` | `SyncLifecycle_open` | Format TwoRates | `disable()` finds nothing to close; the running `open()` completes |
| `ResetDelayKept` (property) | `SyncLifecycle_open` | Format TwoRates | a wakeup nobody waited for cuts the next reset delay |
| `WorkerStoppedFirst` | `SyncLifecycle_open` | | `close()` closes the session before it joins the worker |
| `DirectWriteIsFree` | `RingBuffer` | | with `readPos_` 0 one byte too many is offered |
| `LayoutOfSource` | `SendPath` | | DSF after DFF of one rate keeps the conversion of the first |
| `NothingLost` | `AudioDecoder` | Files SplitPackets | of a packet with several frames, those behind a full block are dropped |

`HintKept`, `SinkHearsTrack` and `AbortHonoured` are weaker than the documents would
have them: the first leaves out a ring emptied by a resume (`HintObeyed` does not);
the second the pairs of source and sink for which the code has no conversion; the
third an abort that comes before `open()` clears the flag at its start, or during
the reconnect of `open()`, which clears it too.

What else was met on the way, without a formula of its own:

- An answer that does not fit the socket buffer is sent in part or dropped; the
  protocol has no numbers by which a client could notice.
- The answer to play comes after the `state_change` event, where the protocol's
  example has it before. "playing" can follow the "stopped" of a track that ended
  meanwhile. Pause reports "paused" when nothing plays.
- Closing the epoll descriptor does not wake `epoll_wait`; stop waits for its
  timeout of 500 ms.
- A 16-bit source fails in front of a sink with 32 bits only in AUTO mode; a 24-bit
  source in front of one with 16 and 32 gets 16. A 32-bit float source on a 24-bit
  sink is packed as integers. 24-bit silence without a hint is taken for LSB.
- The quick resume does not look at whether the stream is remote. The PCM
  warm-up takes buffers of 1 ms for buffers of a packet, and is shorter than 100 ms.
- A block of six channels of DSD256 is larger than the staging area, and is cut.
- The end of a DFF file does not set `m_eof`; DSD of one or more than two channels is
  halved as if it had two; the codec is not flushed at the end of the file.

## 6. Not modelled, and why

- The SDK and the target: their sources are not in the repository. They are
  nondeterministic.
- FFmpeg: external; it gives packets, frames, errors and an end. Rate conversion:
  the engine asks for the file's own rate.
- Parsing of DFF headers, JSON, options: text in, record out, no state.
- `m_workerMutex` in `startSyncWorker` and `joinWorkerWithTimeout`: one step each in
  SyncLifecycle. When the SDK calls the first is not in the sources, and the
  deadlock at 2061 depends on it.
- `LogRing`: verbose builds only, and nothing depends on a message.
- Failures while the IPC server starts, a second signal during a stop, and what the
  C++ library does in a signal handler.
- The fields of status and track-change messages, which are read without a lock.
- Target discovery, MTU, CPU pinning, logging: no control worth a model.
- `DirettaOutput.*` and `src/sync/*`: not compiled.
- Web interface, scripts: they share no state with the daemon.

## 7. Plan

Done, in this order: RingAccess with proofs, RingBuffer with proofs and refinement,
AudioEngine, SyncLifecycle, Playback; then SendPath with its two pure modules,
DataPath with BufferSizing and proofs, AudioDecoder, IPCServer and Daemon.

Then the proofs: the ring, the engine and the lifecycle, control and order of the
commands, the path of the audio, the sizes, the decoder, and last the conversions and
the send path.

No safety property of a passing run is left to prove. Most hazards without a checked
property are claims that the code does not keep (section 5); the code would have to
change first. Two would need more of the system than the repository has: the worker's
start under `m_workerMutex` (`DirettaSync.cpp:2061`), and the ring cleared beside a worker
that the SDK may still run (1662).
