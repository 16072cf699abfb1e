------------------------------ MODULE Playback ------------------------------
(***************************************************************************)
(* The path of the audio from the decoder to the SDK: DirettaRenderer's    *)
(* audio thread and output callback, sendAudio(), the ring buffer,         *)
(* getNewStream(), and the play, play_now, pause and stop commands that    *)
(* cut across it.                                                          *)
(*                                                                         *)
(* A unit is the audio of one SDK buffer; a track is the units 1..Length.  *)
(* A unit is <<track, n>>.  The tracks form a playlist: the next one is    *)
(* reached by play_now, or without a gap when it was queued in time.       *)
(*                                                                         *)
(* The audio thread holds AudioEngine's m_mutex all through process(), the  *)
(* output callback and the end-of-track callback included.  The commands   *)
(* run one at a time; each is a list of steps, todo.                       *)
(*                                                                         *)
(* AudioEngine and SyncLifecycle look closer at the two ends: here decoders *)
(* open, formats differ in rate, and DirettaSync is enabled throughout.     *)
(***************************************************************************)
EXTENDS Integers, Sequences

CONSTANTS
  Tracks,       \* how many tracks there are
  FormatOf,     \* the format of each
  Length,       \* units in a track
  BlockUnits,   \* units one process() call decodes
  RingUnits,    \* units the ring buffer holds
  Prefill,      \* m_prefillTarget
  RebufferAt,   \* REBUFFER_THRESHOLD_PCT of the ring
  MaxRetries,   \* FlowControl::MAX_RETRIES
  SilenceUnits, \* buffers of silence before a stop
  PullsOffline, \* whether the SDK still asks for data once its target is gone
  TargetMayDrop, \* whether the target may go away
  SlowOpen,     \* whether open() may outlast the waits for it (5 s and 12 s)
  Commands      \* the commands a run may issue

ASSUME PlaybackAssumption ==
  /\ {Tracks, Length, BlockUnits, RingUnits, Prefill, RebufferAt, MaxRetries, SilenceUnits}
       \subseteq Nat \ {0}
  /\ FormatOf \in [1..Tracks -> Nat \ {0}]
  /\ 2 * Prefill <= RingUnits /\ 2 * RebufferAt <= RingUnits
  /\ 2 * BlockUnits <= RingUnits
  /\ {PullsOffline, TargetMayDrop, SlowOpen} \subseteq BOOLEAN
  /\ Commands \subseteq {"play", "play_now", "pause", "stop"}

VARIABLES
  state,    \* AudioEngine's m_state
  track,    \* its m_currentURI
  next,     \* the unit its decoder gives next, 0 without a decoder
  \* the output callback: what is left of its block, retries, where it is
  block, retryCount, audio,
  m_shutdownRequested, m_callbackRunning, m_direttaReleased,
  \* DirettaSync; format is m_previousFormat, 0 when there is none
  m_open, m_playing, m_paused, format, lifecycle,
  m_draining, m_silenceBuffersRemaining, m_prefillComplete, m_postOnlineDelayDone,
  m_rebuffering, ring,
  \* outside: the SDK's is_online(), and whether it is between play() and stop()
  online, sdkPlays,
  \* the command thread: its command, and the steps left of it
  command, todo

engine   == <<state, track, next>>
callback == <<block, retryCount, m_callbackRunning>>
conn     == <<m_open, m_playing, m_paused, format>>
flow     == <<m_draining, m_silenceBuffersRemaining, m_prefillComplete,
              m_postOnlineDelayDone, m_rebuffering, ring>>
sdk      == <<online, sdkPlays>>
ctl      == <<command, todo, m_shutdownRequested>>
vars == <<engine, callback, audio, conn, lifecycle, flow, sdk, ctl, m_direttaReleased>>

Unit == (1..Tracks) \X (1..Length)
AudioPc == {"loop", "callback", "checked", "change", "change.flush", "open", "opening",
            "send", "end.drain", "end.stop", "end.flush", "end.release", "failed"}
Step == {"engine.stop", "flag", "wait", "reopen", "replace", "cut", "silence", "flush",
         "release", "pause", "hold", "play", "reconnect", "check", "resume", "engine.play",
         "ready"}

TypeOK ==
  /\ state \in {"STOPPED", "PLAYING", "PAUSED"}
  /\ track \in 1..Tracks /\ next \in 0..Length + 1
  /\ block \in Seq(Unit) /\ Len(block) <= BlockUnits
  /\ retryCount \in 0..MaxRetries - 1
  /\ audio \in AudioPc
  /\ {m_shutdownRequested, m_callbackRunning, m_direttaReleased, m_open, m_playing, m_paused,
      m_draining, m_prefillComplete, m_postOnlineDelayDone, m_rebuffering, online, sdkPlays}
       \subseteq BOOLEAN
  /\ format \in Nat
  /\ lifecycle \in {"free", "audio", "command"}
  /\ m_silenceBuffersRemaining \in 0..SilenceUnits
  /\ ring \in Seq(Unit) /\ Len(ring) <= RingUnits
  /\ command \in Commands \cup {"none", "ignored", "failed"}
  /\ todo \in Seq(Step)
  /\ audio \in {"opening", "change.flush", "end.flush"} => lifecycle = "audio"

\* A target was selected and warmed up, and a first track set.
Init ==
  /\ state = "STOPPED" /\ track = 1 /\ next = 0
  /\ block = <<>> /\ retryCount = 0 /\ audio = "loop"
  /\ m_shutdownRequested = FALSE /\ m_callbackRunning = FALSE /\ m_direttaReleased = FALSE
  /\ m_open = TRUE /\ m_playing = FALSE /\ m_paused = FALSE /\ format = FormatOf[1]
  /\ lifecycle = "free"
  /\ m_draining = FALSE /\ m_silenceBuffersRemaining = 0
  /\ m_prefillComplete = FALSE /\ m_postOnlineDelayDone = FALSE /\ m_rebuffering = FALSE
  /\ ring = <<>>
  /\ online = TRUE /\ sdkPlays = FALSE
  /\ command = "none" /\ todo = <<>>

\* AudioEngine's m_mutex is free.
EngineFree == audio \in {"loop", "failed"}

\* A wait for the output callback has timed out: only open() can take that long.
TimedOut == SlowOpen /\ audio \in {"open", "opening"}

-----------------------------------------------------------------------------
(* DirettaSync's helpers *)

\* requestShutdownSilence().
RequestSilence == m_draining' = TRUE /\ m_silenceBuffersRemaining' = SilenceUnits

\* The wait for the silence to be sent ends, also when it was not sent in time.
Stopped == m_playing' = FALSE /\ m_paused' = FALSE /\ sdkPlays' = FALSE

\* The ring is emptied and has to fill up again.
Emptied == ring' = <<>> /\ m_prefillComplete' = FALSE

Unmuted == m_draining' = FALSE /\ m_silenceBuffersRemaining' = 0

\* resetFailedConnection().
ResetFailed ==
  /\ m_open' = FALSE /\ m_playing' = FALSE /\ m_paused' = FALSE /\ format' = 0
  /\ Emptied /\ Unmuted /\ m_rebuffering' = FALSE /\ m_postOnlineDelayDone' = FALSE
  /\ online' = FALSE /\ sdkPlays' = FALSE

\* release(): close() for a session that is up, a reset for one that was lost.
Released ==
  IF online
  THEN /\ m_open' = FALSE /\ format' = 0 /\ Stopped /\ online' = FALSE
       /\ m_draining' = (m_draining \/ m_playing)
       /\ UNCHANGED <<m_silenceBuffersRemaining, m_prefillComplete, m_postOnlineDelayDone,
                      m_rebuffering, ring>>
  ELSE ResetFailed

\* stopPlayback(FALSE), in two steps: silence is asked for, and the wait for it ends.
SilenceAsked(who, flushing, done) ==
  /\ lifecycle = "free"
  /\ IF m_playing
     THEN RequestSilence /\ lifecycle' = who /\ flushing
     ELSE UNCHANGED <<m_draining, m_silenceBuffersRemaining, lifecycle>> /\ done
  /\ UNCHANGED <<m_prefillComplete, m_postOnlineDelayDone, m_rebuffering, ring>>

-----------------------------------------------------------------------------
(* The audio thread: audioThreadFunc(), process() and the output callback *)

At(label) == audio' = label

\* process() is left.
Leaves(label) ==
  /\ At(label)
  /\ block' = <<>> /\ retryCount' = 0 /\ m_callbackRunning' = FALSE

\* Variant, for the mutation runs: m_callbackRunning is not reset on this way out.
FailsStillRunning ==
  /\ state' = "STOPPED" /\ At("failed") /\ block' = <<>> /\ retryCount' = 0
  /\ UNCHANGED <<track, next, m_callbackRunning>>

\* The callback returned FALSE.
Fails == state' = "STOPPED" /\ Leaves("failed") /\ UNCHANGED <<track, next>>

\* Variant, for the mutation runs: anything in the ring is enough.
ThrottledEarly == m_playing /\ ring # <<>>

\* BUFFER_HIGH_THRESHOLD: a ring that is more than half full can wait.
Throttled == m_playing /\ 2 * Len(ring) > RingUnits

\* A block of the track from this unit on, or what there is of it.
Decoded(first) ==
  LET left == Length + 1 - first
  IN [i \in 1 .. IF left < BlockUnits THEN left ELSE BlockUnits |-> <<track, first + i - 1>>]
Position == IF next = 0 THEN 1 ELSE next

\* process() up to the output callback: a block is decoded.
Process ==
  /\ audio = "loop" /\ state = "PLAYING" /\ ~Throttled
  /\ Position <= Length
  /\ block' = Decoded(Position)
  /\ next' = Position + Len(Decoded(Position))
  /\ At("callback")
  /\ UNCHANGED <<state, track, retryCount, m_callbackRunning, conn, lifecycle, flow, sdk, ctl,
                 m_direttaReleased>>

\* process() at the end of a track, when another one was queued.
NextTrack ==
  /\ audio = "loop" /\ state = "PLAYING" /\ ~Throttled
  /\ next > Length /\ track < Tracks
  /\ track' = track + 1 /\ next' = 1
  /\ UNCHANGED <<state, callback, audio, conn, lifecycle, flow, sdk, ctl, m_direttaReleased>>

\* process() at the end of the last one: the end-of-track callback begins.
TrackEnd ==
  /\ audio = "loop" /\ state = "PLAYING" /\ ~Throttled
  /\ next > Length
  /\ state' = "STOPPED" /\ m_direttaReleased' = TRUE
  /\ At("end.drain")
  /\ UNCHANGED <<track, next, callback, conn, lifecycle, flow, sdk, ctl>>

CallbackCheck ==
  /\ audio = "callback"
  /\ IF m_shutdownRequested
     THEN Fails
     ELSE At("checked") /\ UNCHANGED <<engine, callback>>
  /\ UNCHANGED <<conn, lifecycle, flow, sdk, ctl, m_direttaReleased>>

CallbackBegin ==
  /\ audio = "checked"
  /\ m_callbackRunning' = TRUE
  /\ At(IF ~m_playing THEN "open"
        ELSE IF m_open /\ format # FormatOf[track] THEN "change" ELSE "send")
  /\ UNCHANGED <<engine, block, retryCount, conn, lifecycle, flow, sdk, ctl,
                 m_direttaReleased>>

\* Another format: stopPlayback(FALSE), then open().
ChangeStop ==
  /\ audio = "change"
  /\ SilenceAsked("audio", At("change.flush"), At("open"))
  /\ UNCHANGED <<engine, callback, conn, sdk, ctl, m_direttaReleased>>

ChangeFlushed ==
  /\ audio = "change.flush"
  /\ Stopped /\ lifecycle' = "free"
  /\ At("open")
  /\ UNCHANGED <<engine, callback, m_open, format, flow, online, ctl, m_direttaReleased>>

\* open() with the format of the session: the quick resume.
OpenQuick ==
  /\ audio = "open" /\ lifecycle = "free"
  /\ m_open /\ online /\ format = FormatOf[track]
  /\ Emptied /\ Unmuted /\ m_rebuffering' = FALSE
  /\ m_playing' = TRUE /\ m_paused' = FALSE /\ sdkPlays' = TRUE
  /\ At("send")
  /\ UNCHANGED <<engine, callback, m_open, format, lifecycle, m_postOnlineDelayDone, online,
                 ctl, m_direttaReleased>>

\* open() without a session, or with one of another rate: it is torn down first, and open()
\* keeps m_lifecycleMutex while the target resets.
OpenLong ==
  /\ audio = "open" /\ lifecycle = "free"
  /\ ~(m_open /\ online /\ format = FormatOf[track])
  /\ lifecycle' = "audio"
  /\ ResetFailed
  /\ At("opening")
  /\ UNCHANGED <<engine, callback, ctl, m_direttaReleased>>

\* The target is connected and online, or not.
OpenEnds ==
  /\ audio = "opening"
  /\ lifecycle' = "free"
  /\ \/ /\ m_open' = TRUE /\ m_playing' = TRUE /\ format' = FormatOf[track]
        /\ online' = TRUE /\ sdkPlays' = TRUE
        /\ At("send")
        /\ UNCHANGED <<engine, callback>>
     \/ Fails /\ UNCHANGED <<m_open, m_playing, format, sdk>>
  /\ UNCHANGED <<m_paused, flow, ctl, m_direttaReleased>>

\* sendAudio() takes what fits, unless the output is muted or gone.
Fits == IF m_draining \/ ~online THEN 0
        ELSE LET room == RingUnits - Len(ring)
             IN  IF room < Len(block) THEN room ELSE Len(block)

Send ==
  /\ audio = "send" /\ Fits > 0
  /\ ring' = ring \o SubSeq(block, 1, Fits)
  /\ m_prefillComplete' = (m_prefillComplete \/ Len(ring) + Fits >= Prefill)
  /\ IF Fits = Len(block)
     THEN Leaves("loop")
     ELSE /\ block' = SubSeq(block, Fits + 1, Len(block)) /\ retryCount' = 0
          /\ UNCHANGED <<audio, m_callbackRunning>>
  /\ UNCHANGED <<engine, conn, lifecycle, m_draining, m_silenceBuffersRemaining,
                 m_postOnlineDelayDone, m_rebuffering, sdk, ctl, m_direttaReleased>>

\* Variant, for the mutation runs: one try more than MAX_RETRIES.
SendRetryOnceMore ==
  /\ audio = "send" /\ Fits = 0
  /\ IF retryCount = MaxRetries
     THEN Fails
     ELSE retryCount' = retryCount + 1 /\ UNCHANGED <<engine, block, audio, m_callbackRunning>>
  /\ UNCHANGED <<conn, lifecycle, flow, sdk, ctl, m_direttaReleased>>

\* The block is not reported as sent when it was not.
SendRetry ==
  /\ audio = "send" /\ Fits = 0
  /\ IF retryCount + 1 = MaxRetries
     THEN Fails
     ELSE retryCount' = retryCount + 1 /\ UNCHANGED <<engine, block, audio, m_callbackRunning>>
  /\ UNCHANGED <<conn, lifecycle, flow, sdk, ctl, m_direttaReleased>>

\* The SDK is asking for audio and getting it.
Flowing ==
  /\ sdkPlays /\ (online \/ PullsOffline)
  /\ m_silenceBuffersRemaining > 0 \/ m_prefillComplete
  /\ m_rebuffering => Len(ring) >= RebufferAt

\* The end-of-track callback waits for the ring to run dry.  Its two seconds are longer than
\* a full ring, so they only end the wait when nothing flows.
EndDrained ==
  /\ audio = "end.drain"
  /\ ~m_playing \/ ring = <<>> \/ ~Flowing
  /\ At("end.stop")
  /\ UNCHANGED <<engine, callback, conn, lifecycle, flow, sdk, ctl, m_direttaReleased>>

EndStop ==
  /\ audio = "end.stop"
  /\ SilenceAsked("audio", At("end.flush"), At("end.release"))
  /\ UNCHANGED <<engine, callback, conn, sdk, ctl, m_direttaReleased>>

EndFlushed ==
  /\ audio = "end.flush"
  /\ Stopped /\ lifecycle' = "free"
  /\ At("end.release")
  /\ UNCHANGED <<engine, callback, m_open, format, flow, online, ctl, m_direttaReleased>>

EndRelease ==
  /\ audio = "end.release" /\ lifecycle = "free"
  /\ Released
  /\ At("failed")
  /\ UNCHANGED <<engine, callback, lifecycle, ctl, m_direttaReleased>>

\* process() returned FALSE: was it the target that went away?  Nobody asks when it was
\* the second call of a round, made to catch up, that failed.
Disconnected ==
  /\ audio = "failed"
  /\ \/ /\ state = "STOPPED" /\ ~online /\ ~m_direttaReleased /\ todo = <<>>
        /\ ResetFailed /\ m_direttaReleased' = TRUE
     \/ UNCHANGED <<conn, flow, sdk, m_direttaReleased>>
  /\ At("loop")
  /\ UNCHANGED <<engine, callback, lifecycle, ctl>>

Audio ==
  \/ Process \/ NextTrack \/ TrackEnd
  \/ CallbackCheck \/ CallbackBegin \/ ChangeStop \/ ChangeFlushed
  \/ OpenQuick \/ OpenLong \/ OpenEnds \/ Send \/ SendRetry
  \/ EndDrained \/ EndStop \/ EndFlushed \/ EndRelease \/ Disconnected

-----------------------------------------------------------------------------
(* getNewStream(), called by the SDK's worker thread *)

\* Silence before a stop, while prefilling and just after the connection.
PullSilence ==
  /\ sdkPlays /\ (online \/ PullsOffline)
  /\ \/ /\ m_silenceBuffersRemaining > 0
        /\ m_silenceBuffersRemaining' = m_silenceBuffersRemaining - 1
        /\ UNCHANGED m_postOnlineDelayDone
     \/ /\ m_silenceBuffersRemaining = 0 /\ m_prefillComplete /\ ~m_postOnlineDelayDone
        /\ m_postOnlineDelayDone' = TRUE
        /\ UNCHANGED m_silenceBuffersRemaining
  /\ UNCHANGED <<engine, callback, audio, conn, lifecycle, m_draining, m_prefillComplete,
                 m_rebuffering, ring, sdk, ctl, m_direttaReleased>>

\* A unit is played, or the ring is found empty and has to recover first.
PullAudio ==
  /\ Flowing /\ m_silenceBuffersRemaining = 0 /\ m_postOnlineDelayDone
  /\ m_rebuffering' = (ring = <<>>)
  /\ ring' = IF ring = <<>> THEN ring ELSE Tail(ring)
  /\ UNCHANGED <<engine, callback, audio, conn, lifecycle, m_draining,
                 m_silenceBuffersRemaining, m_prefillComplete, m_postOnlineDelayDone, sdk,
                 ctl, m_direttaReleased>>

\* The target is switched off, restarted or taken away.
TargetDrops ==
  /\ TargetMayDrop /\ online
  /\ online' = FALSE
  /\ UNCHANGED <<engine, callback, audio, conn, lifecycle, flow, sdkPlays, ctl,
                 m_direttaReleased>>

-----------------------------------------------------------------------------
(* The commands: DirettaRenderer's handlers, under its m_mutex *)

Doing(step) == todo # <<>> /\ Head(todo) = step
Then(steps) == todo' = steps /\ UNCHANGED command
Onward == Then(Tail(todo))
EngineStops == <<"engine.stop", "flag", "wait">>
Active == state \in {"PLAYING", "PAUSED"}

Issue(name, steps) ==
  /\ name \in Commands /\ todo = <<>>
  /\ command' = name /\ todo' = steps
  /\ UNCHANGED <<callback, audio, conn, lifecycle, flow, sdk, m_shutdownRequested,
                 m_direttaReleased>>

Play == Issue("play", <<"play">>) /\ UNCHANGED engine

PlayNow ==
  /\ track < Tracks
  /\ Issue("play_now", IF Active THEN EngineStops \o <<"cut", "replace", "play">>
                                 ELSE <<"replace", "play">>)
  /\ UNCHANGED engine

\* AudioEngine's pause() does not wait for process() to end.
Pause ==
  /\ Issue("pause", IF m_playing THEN <<"pause">> ELSE <<>>)
  /\ state' = IF state = "PLAYING" THEN "PAUSED" ELSE state
  /\ UNCHANGED <<track, next>>

Stop ==
  /\ m_open \/ m_playing
  /\ Issue("stop", EngineStops \o <<"reopen", "silence", "flush", "release">>)
  /\ UNCHANGED engine

\* "Stop ignored - already stopped".
StopIgnored ==
  /\ "stop" \in Commands /\ todo = <<>> /\ ~m_open /\ ~m_playing
  /\ command' = "ignored"
  /\ UNCHANGED <<engine, callback, audio, conn, lifecycle, flow, sdk, todo,
                 m_shutdownRequested, m_direttaReleased>>

\* AudioEngine's stop(): the decoder goes too, if process() is not running.
EngineStop ==
  /\ Doing("engine.stop") /\ Onward
  /\ state' = "STOPPED"
  /\ next' = IF EngineFree THEN 0 ELSE next
  /\ UNCHANGED <<track, callback, audio, conn, lifecycle, flow, sdk, m_shutdownRequested,
                 m_direttaReleased>>

\* waitForCallbackComplete(): a callback that has not begun is not waited for.
Flag ==
  /\ Doing("flag") /\ Onward
  /\ m_shutdownRequested' = TRUE
  /\ UNCHANGED <<engine, callback, audio, conn, lifecycle, flow, sdk, m_direttaReleased>>

Wait ==
  /\ Doing("wait") /\ Onward
  /\ ~m_callbackRunning \/ TimedOut
  /\ m_shutdownRequested' = FALSE
  /\ UNCHANGED <<engine, callback, audio, conn, lifecycle, flow, sdk, m_direttaReleased>>

\* Variant, for the mutation runs: process() is not waited for.
ReopenAtOnce ==
  /\ Doing("reopen") /\ Onward
  /\ next' = 0
  /\ UNCHANGED <<state, track, callback, audio, conn, lifecycle, flow, sdk,
                 m_shutdownRequested, m_direttaReleased>>

\* setCurrentURI(), forced for the same track or with the next one: process() has ended.
Reopen ==
  /\ Doing("reopen") /\ Onward
  /\ EngineFree
  /\ next' = 0
  /\ UNCHANGED <<state, track, callback, audio, conn, lifecycle, flow, sdk,
                 m_shutdownRequested, m_direttaReleased>>

Replace ==
  /\ Doing("replace") /\ Onward
  /\ EngineFree
  /\ next' = 0 /\ track' = IF track < Tracks THEN track + 1 ELSE track
  /\ UNCHANGED <<state, callback, audio, conn, lifecycle, flow, sdk, m_shutdownRequested,
                 m_direttaReleased>>

\* stopForUriChangeLocked(): stopPlayback(TRUE).
Cut ==
  /\ Doing("cut") /\ Onward
  /\ m_open => lifecycle = "free"
  /\ IF m_open /\ m_playing THEN Stopped ELSE UNCHANGED <<m_playing, m_paused, sdkPlays>>
  /\ UNCHANGED <<engine, callback, audio, m_open, format, lifecycle, flow, online,
                 m_shutdownRequested, m_direttaReleased>>

\* onStop: stopPlayback(FALSE) and release() of what is open.
Silence ==
  /\ Doing("silence") /\ m_open
  /\ SilenceAsked("command", Onward, Then(<<"release">>))
  /\ UNCHANGED <<engine, callback, audio, conn, sdk, m_shutdownRequested, m_direttaReleased>>

NothingOpen ==
  /\ Doing("silence") /\ ~m_open
  /\ Then(<<>>)
  /\ m_direttaReleased' = TRUE
  /\ UNCHANGED <<engine, callback, audio, conn, lifecycle, flow, sdk, m_shutdownRequested>>

Flushed ==
  /\ Doing("flush") /\ Onward
  /\ Stopped /\ lifecycle' = "free"
  /\ UNCHANGED <<engine, callback, audio, m_open, format, flow, online, m_shutdownRequested,
                 m_direttaReleased>>

Release ==
  /\ Doing("release") /\ Onward
  /\ lifecycle = "free"
  /\ Released /\ m_direttaReleased' = TRUE
  /\ UNCHANGED <<engine, callback, audio, lifecycle, m_shutdownRequested>>

\* pausePlayback().
PauseAsked ==
  /\ Doing("pause") /\ lifecycle = "free"
  /\ IF m_playing /\ ~m_paused
     THEN RequestSilence /\ lifecycle' = "command" /\ Then(<<"hold">>)
     ELSE UNCHANGED <<m_draining, m_silenceBuffersRemaining, lifecycle>> /\ Then(<<>>)
  /\ UNCHANGED <<engine, callback, audio, conn, m_prefillComplete, m_postOnlineDelayDone,
                 m_rebuffering, ring, sdk, m_shutdownRequested, m_direttaReleased>>

Hold ==
  /\ Doing("hold") /\ Onward
  /\ sdkPlays' = FALSE /\ m_paused' = TRUE /\ lifecycle' = "free"
  /\ UNCHANGED <<engine, callback, audio, m_open, m_playing, format, flow, online,
                 m_shutdownRequested, m_direttaReleased>>

\* playCurrentLocked() with the target gone: it is looked for again.
PlayOffline ==
  /\ Doing("play") /\ ~online
  /\ Then(IF Active THEN EngineStops \o <<"reconnect", "reopen", "check">>
                    ELSE <<"reconnect", "check">>)
  /\ UNCHANGED <<engine, callback, audio, conn, lifecycle, flow, sdk, m_shutdownRequested,
                 m_direttaReleased>>

Reconnect ==
  /\ Doing("reconnect") /\ lifecycle = "free"
  /\ IF online
     THEN Onward /\ UNCHANGED <<conn, flow, sdk>>
     ELSE /\ ResetFailed
          /\ Onward \/ (todo' = <<>> /\ command' = "failed")
  /\ UNCHANGED <<engine, callback, audio, lifecycle, m_shutdownRequested, m_direttaReleased>>

\* The rest of playCurrentLocked(): resume, or play, from the start when nothing is open.
PlayCheck ==
  /\ Doing("check") \/ (Doing("play") /\ online)
  /\ Then(IF state = "PLAYING" THEN <<>>
          ELSE IF m_open /\ m_paused THEN <<"resume", "engine.play">>
          ELSE IF m_open THEN <<"engine.play", "ready">>
          ELSE <<"reopen", "engine.play", "ready">>)
  /\ m_direttaReleased' = FALSE
  /\ UNCHANGED <<engine, callback, audio, conn, lifecycle, flow, sdk, m_shutdownRequested>>

\* Variant, for the mutation runs: the ring keeps what was in it at the pause.
ResumeKeepsRing ==
  /\ Doing("resume") /\ Onward
  /\ lifecycle = "free"
  /\ IF m_paused
     THEN /\ Unmuted
          /\ sdkPlays' = TRUE /\ m_paused' = FALSE /\ m_playing' = TRUE
     ELSE UNCHANGED <<m_draining, m_silenceBuffersRemaining, sdkPlays, m_paused, m_playing>>
  /\ UNCHANGED <<engine, callback, audio, m_open, format, lifecycle, ring, m_prefillComplete,
                 m_postOnlineDelayDone, m_rebuffering, online, m_shutdownRequested,
                 m_direttaReleased>>

\* resumePlayback().
Resume ==
  /\ Doing("resume") /\ Onward
  /\ lifecycle = "free"
  /\ IF m_paused
     THEN /\ Emptied /\ Unmuted
          /\ sdkPlays' = TRUE /\ m_paused' = FALSE /\ m_playing' = TRUE
     ELSE UNCHANGED <<ring, m_prefillComplete, m_draining, m_silenceBuffersRemaining,
                      sdkPlays, m_paused, m_playing>>
  /\ UNCHANGED <<engine, callback, audio, m_open, format, lifecycle, m_postOnlineDelayDone,
                 m_rebuffering, online, m_shutdownRequested, m_direttaReleased>>

\* AudioEngine's play().
EnginePlay ==
  /\ Doing("engine.play") /\ Onward
  /\ EngineFree
  /\ state' = "PLAYING"
  /\ next' = IF next = 0 \/ (next > Length /\ state # "PAUSED") THEN 1 ELSE next
  /\ UNCHANGED <<track, callback, audio, conn, lifecycle, flow, sdk, m_shutdownRequested,
                 m_direttaReleased>>

\* waitForOutputReadyLocked(), and cleanupFailedPlaybackLocked().
Ready ==
  /\ Doing("ready")
  /\ \/ m_playing /\ online /\ Then(<<>>)
     \/ /\ ~(m_playing /\ online)
        /\ state = "STOPPED" \/ TimedOut
        /\ command' = "failed" /\ todo' = EngineStops \o <<"release">>
  /\ UNCHANGED <<engine, callback, audio, conn, lifecycle, flow, sdk, m_shutdownRequested,
                 m_direttaReleased>>

Handler ==
  \/ EngineStop \/ Flag \/ Wait \/ Reopen \/ Replace \/ Cut
  \/ Silence \/ NothingOpen \/ Flushed \/ Release \/ PauseAsked \/ Hold
  \/ PlayOffline \/ Reconnect \/ PlayCheck \/ Resume \/ EnginePlay \/ Ready

Next ==
  \/ Audio \/ PullSilence \/ PullAudio \/ TargetDrops
  \/ Play \/ PlayNow \/ Pause \/ Stop \/ StopIgnored \/ Handler

\* The threads run; the SDK's worker asks for data as long as the SDK lets it.
Fairness == WF_vars(Audio) /\ WF_vars(Handler) /\ WF_vars(PullSilence) /\ WF_vars(PullAudio)

Spec == Init /\ [][Next]_vars /\ Fairness

-----------------------------------------------------------------------------
(* Properties *)

Follows(unit, after) ==
  \/ after = <<unit[1], unit[2] + 1>>
  \/ unit[2] = Length /\ after = <<unit[1] + 1, 1>>

\* No audio is skipped inside what is about to be heard: whatever was muted, retried or
\* given up, the ring holds stretches of a track without a hole, each new one from its start.
RingHasNoHole ==
  \A i \in 1..Len(ring) - 1 : Follows(ring[i], ring[i + 1]) \/ ring[i + 1][2] = 1

\* No command waits forever for the audio thread, or the other way round.
CommandsReturn == todo # <<>> ~> todo = <<>>

\* Throttle, prefill and rebuffering never wait for each other: a track that plays to a
\* target that is there gets to its end, unless a command ends it before.
PlaybackEnds == state = "PLAYING" ~> state # "PLAYING" \/ ~online

\* After a stop that was carried out the target is free and no callback is left behind.
StopReleases ==
  command = "stop" /\ todo = <<>> =>
    ~m_open /\ ~online /\ state = "STOPPED" /\ ~m_callbackRunning

\* Why these hold.  A command goes through its list of steps from the front.
Ends(list) == {SubSeq(list, i, Len(list)) : i \in 1..Len(list) + 1}
StopSteps == EngineStops \o <<"reopen", "silence", "flush", "release">>
Programs ==
  {StopSteps, EngineStops \o <<"cut", "replace", "play">>, EngineStops \o <<"release">>,
   EngineStops \o <<"reconnect", "reopen", "check">>, <<"reconnect", "check">>,
   <<"replace", "play">>, <<"play">>, <<"pause">>, <<"hold">>, <<"release">>,
   <<"resume", "engine.play">>, <<"engine.play", "ready">>,
   <<"reopen", "engine.play", "ready">>}

Steps == UNION {Ends(list) : list \in Programs}

StepsOK ==
  /\ todo \in Steps
  /\ Doing("flush") \/ Doing("hold") => lifecycle = "command"
  /\ m_shutdownRequested => Doing("wait")

\* A block exists from process() until the callback is left, and is the audio before next;
\* what the throttle or open() made room for is still free.
BlockOK ==
  /\ audio \in {"loop", "failed", "end.drain", "end.stop", "end.flush", "end.release"}
       => block = <<>> /\ ~m_callbackRunning
  /\ block = <<>> => audio \notin {"callback", "checked", "change", "change.flush", "open",
                                  "opening", "send"}
  /\ block # <<>> =>
       /\ next > Len(block)
       /\ \A i \in 1..Len(block) : block[i] = <<track, next - Len(block) + i - 1>>
       /\ m_playing \/ audio = "send" => Len(ring) + Len(block) <= RingUnits

ConnectionOK ==
  /\ online => m_open
  /\ audio = "opening" => ring = <<>> /\ ~online

\* A block that was given up would leave a hole.  Until the ring is emptied the output is
\* muted or offline then, or a command that stopped the engine will start it anew.
Muted == m_draining \/ ~online
Renews == {"reopen", "replace", "release"}
WillRenew(steps) ==
  \E i \in 1..Len(steps) : /\ steps[i] \in Renews
                           /\ \A j \in 1..i - 1 : steps[j] \in {"wait", "cut", "reconnect"}
Dropped == state = "STOPPED" /\ EngineFree /\ WillRenew(todo)

\* What comes next to the ring continues it, or begins a track.
Seamless ==
  ring # <<>> /\ ~Muted /\ ~Dropped =>
    LET unit == Position - Len(block)
    IN unit = 1 \/ ring[Len(ring)] = <<track, unit - 1>>

\* How far a stop has come.
StopUnderway ==
  command = "stop" =>
    /\ todo \in Ends(StopSteps) \cup Ends(<<"release">>)
    /\ Len(todo) < 7 => state = "STOPPED"
    /\ Len(todo) < 4 => EngineFree
    /\ todo = <<>> => ~m_open

IInv == TypeOK /\ StepsOK /\ BlockOK /\ ConnectionOK /\ Seamless /\ RingHasNoHole /\ StopUnderway

-----------------------------------------------------------------------------
(* What the documents and comments say and the code does not keep: TLC refutes each of *)
(* these.  README.md names the interleavings. *)

\* "Immediately replace current playback": nothing of the track before is still to come
\* (for two tracks, where play_now leads to the last one).
ReplacedIsGone ==
  command = "play_now" /\ todo = <<>> => \A i \in 1..Len(ring) : ring[i][1] >= track

\* "Explicit STOP must release the target immediately": also one that found nothing to stop.
StopHonoured ==
  command \in {"stop", "ignored"} /\ todo = <<>> =>
    ~m_open /\ ~online /\ state = "STOPPED" /\ ~m_callbackRunning

\* "Target disconnected during playback": it is noticed.
DisconnectNoticed == state = "PLAYING" /\ ~online ~> state # "PLAYING" \/ online
=============================================================================
