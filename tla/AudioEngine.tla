----------------------------- MODULE AudioEngine -----------------------------
(***************************************************************************)
(* AudioEngine: the current and the next track, their decoders, and the    *)
(* three threads that handle them.                                         *)
(*                                                                         *)
(*  - The audio thread calls process().  It holds m_mutex for the whole    *)
(*    call, the output callback included, except while it waits for the    *)
(*    next track at the end of the current one.                            *)
(*  - The command thread runs one IPC command at a time; a command is a    *)
(*    short list of engine calls (DirettaRenderer's ...Locked functions).  *)
(*    Some calls take m_mutex, some only try, some only store atomics.     *)
(*  - The preload thread opens the next track: it captures the URI under   *)
(*    m_mutex, opens it without, and commits it under m_mutex.             *)
(*                                                                         *)
(* A decoder is its track and how many blocks were read from it.  A stretch *)
(* that holds m_mutex and touches nothing the other threads read without it *)
(* is one step.  The output callback is the Playback part of the daemon:    *)
(* here it may succeed or fail.                                             *)
(***************************************************************************)
EXTENDS Integers, Sequences

CONSTANTS
  Track,          \* the URIs the controller may name
  None,           \* no URI, no decoder
  Formats,        \* bound: the ways the tracks may differ in their sample format
  Length,         \* bound: how many blocks every track holds
  SilenceLimit,   \* bound: empty reads before the end is signalled (5 in the code)
  Commands        \* the IPC commands a run may issue

AllCommands == {"set_uri", "play_now", "resume", "stop", "pause", "queue_next",
                "clear_next", "seek"}

ASSUME AudioEngineAssumption ==
  /\ None \notin Track \cup (0..Length)
  /\ Length \in Nat /\ SilenceLimit \in Nat
  /\ Commands \subseteq AllCommands

VARIABLES
  formatOf,       \* the sample format of each track: never changes
  \* AudioEngine's fields
  m_state, m_currentURI, m_nextURI, m_pendingNextURI, m_pendingNextTrack,
  m_currentDecoder, m_nextDecoder, m_currentTrackInfo, m_formatChangePending,
  m_preloadRunning, m_seekRequested, m_seekTarget, m_samplesPlayed, m_silenceCount,
  m_mutex,        \* the thread inside m_mutex across steps, or "free"
  \* the audio thread
  audio,          \* where process() is
  samplesRead,    \* did the last read return data
  seekLocal,      \* the target process() has loaded
  \* preloadNextTrack(), run by the preload thread or inline by process()
  loader, captured,
  \* the command thread
  calls,          \* the engine calls left in the current command
  ipc,            \* where the current call is
  ipcArg,         \* the URI or the position it carries
  r_currentURI,   \* DirettaRenderer::m_currentURI
  \* history, read only by the properties
  queued,         \* the last acknowledged next track, until it is used or revoked
  sought,         \* the last acknowledged seek, until it is applied or revoked
  stopDone        \* stop() has returned and nothing was played since

uris      == <<m_currentURI, m_nextURI, m_pendingNextURI, m_pendingNextTrack>>
decoders  == <<m_currentDecoder, m_nextDecoder, m_currentTrackInfo, m_formatChangePending>>
counters  == <<m_samplesPlayed, m_silenceCount>>
seeking   == <<m_seekRequested, m_seekTarget>>
audioVars == <<audio, samplesRead, seekLocal>>
loadVars  == <<loader, captured, m_preloadRunning>>
ipcVars   == <<calls, ipc, ipcArg, r_currentURI>>
history   == <<queued, sought, stopDone>>
vars == <<formatOf, m_state, uris, decoders, counters, seeking, m_mutex, audioVars, loadVars,
          ipcVars, history>>

Uri      == Track \cup {None}
Decoder  == [uri : Track, pos : 0..Length]
Loaders  == {"preload", "audio"}
Call     == {"stop", "setUri", "force", "play"}

AudioPc  == {"idle", "again", "seekClear", "seekApply", "lock", "take", "apply", "join",
             "read", "await", "relock", "deliver"}
LoaderPc == {"none", "capture", "open", "commit", "exit", "done"}
IpcPc    == {"ready", "stopFlag", "stopPending", "stopJoin", "stopClean", "playJoin",
             "nextFlag", "seekFlag"}

TypeOK ==
  /\ formatOf \in Formats
  /\ m_state \in {"stopped", "playing", "paused"}
  /\ m_currentURI \in Uri /\ m_nextURI \in Uri /\ m_pendingNextURI \in Uri
  /\ m_pendingNextTrack \in BOOLEAN
  /\ m_currentDecoder \in Decoder \cup {None}
  /\ m_nextDecoder \in Uri
  /\ m_currentTrackInfo \in Uri
  /\ m_formatChangePending \in BOOLEAN /\ m_preloadRunning \in BOOLEAN
  /\ m_seekRequested \in BOOLEAN /\ m_seekTarget \in 0..Length
  /\ m_samplesPlayed \in Nat
  /\ m_silenceCount \in 0..SilenceLimit
  /\ m_mutex \in {"free", "audio", "ipc"}
  /\ audio \in AudioPc /\ samplesRead \in BOOLEAN /\ seekLocal \in 0..Length
  /\ loader \in [Loaders -> LoaderPc]
  /\ captured \in [Loaders -> [uri : Uri, info : Uri]]
  /\ calls \in Seq(Call)
  /\ ipc \in IpcPc
  /\ ipcArg \in Uri \cup (0..Length)
  /\ r_currentURI \in Uri
  /\ queued \in Uri /\ sought \in (0..Length) \cup {None} /\ stopDone \in BOOLEAN

NoCapture == [uri |-> None, info |-> None]

Init ==
  /\ formatOf \in Formats
  /\ m_state = "stopped"
  /\ m_currentURI = None /\ m_nextURI = None /\ m_pendingNextURI = None
  /\ m_pendingNextTrack = FALSE
  /\ m_currentDecoder = None /\ m_nextDecoder = None /\ m_currentTrackInfo = None
  /\ m_formatChangePending = FALSE /\ m_preloadRunning = FALSE
  /\ m_seekRequested = FALSE /\ m_seekTarget = 0
  /\ m_samplesPlayed = 0 /\ m_silenceCount = 0
  /\ m_mutex = "free"
  /\ audio = "idle" /\ samplesRead = FALSE /\ seekLocal = 0
  /\ loader = [p \in Loaders |-> "none"]
  /\ captured = [p \in Loaders |-> NoCapture]
  /\ calls = <<>> /\ ipc = "ready" /\ ipcArg = None
  /\ r_currentURI = None
  /\ queued = None /\ sought = None /\ stopDone = FALSE

IsEOF == m_currentDecoder # None /\ m_currentDecoder.pos = Length

\* The renderer is free to follow a track change only between commands: the track
\* change callback merely tries its mutex, which a command holds to its end.
RendererFree == ipc = "ready" /\ calls = <<>>

TrackChanged(uri) == r_currentURI' = IF RendererFree THEN uri ELSE r_currentURI

\* A started preload is wanted and none is running (or an old one was disowned).
PreloadDue == m_nextURI # None /\ m_nextDecoder = None /\ ~m_preloadRunning

Spawn ==
  /\ m_preloadRunning' = TRUE
  /\ loader' = [loader EXCEPT !["preload"] = "capture"]

\* A track that is used up is queued no more, unless it was queued once again.
StillQueued(uri) == IF queued = uri /\ m_pendingNextURI # uri THEN None ELSE queued

Joinable == loader["preload"] # "none"

-----------------------------------------------------------------------------
(* The command thread: one engine call after the other *)

\* A command starts when the event loop has finished the previous one.
Begin(command, list) ==
  /\ command \in Commands
  /\ RendererFree
  /\ calls' = list
  /\ UNCHANGED <<formatOf, m_state, uris, decoders, counters, seeking, m_mutex, audioVars,
                 loadVars, ipc, ipcArg, history>>

\* stopForUriChangeLocked: stop() only when there is something to stop.
StopIfActive == IF m_state = "stopped" THEN <<>> ELSE <<"stop">>

\* playCurrentLocked, past its early returns: what it calls depends on whether the
\* sink is online and open, and on whether the output becomes ready in the end.
PlayCurrent(active) ==
  {start \o end :
     start \in {<<"play">>, <<"force", "play">>}
               \cup (IF active THEN {<<"stop", "force", "play">>} ELSE {}),
     end \in {<<>>, <<"stop">>}}

SetUri(uri) ==
  /\ Begin("set_uri", StopIfActive \o <<"setUri">>)
  /\ r_currentURI' = uri

PlayNow(uri) ==
  /\ \E list \in PlayCurrent(FALSE) :
       Begin("play_now", StopIfActive \o <<"setUri">> \o list)
  /\ r_currentURI' = uri

\* Resume, and play of the current path while paused: ignored while playing online.
Resume ==
  /\ r_currentURI # None
  /\ \E list \in PlayCurrent(m_state # "stopped") :
       /\ m_state = "playing" => list[1] = "stop"
       /\ Begin("resume", list)
  /\ UNCHANGED r_currentURI

Stop ==
  /\ Begin("stop", IF r_currentURI = None THEN <<"stop">> ELSE <<"stop", "force">>)
  /\ UNCHANGED r_currentURI

\* pause() is a compare-and-swap, a whole command in one step.
Pause ==
  /\ "pause" \in Commands /\ RendererFree
  /\ m_state = "playing"
  /\ m_state' = "paused"
  /\ UNCHANGED <<formatOf, uris, decoders, counters, seeking, m_mutex, audioVars, loadVars,
                 ipcVars, history>>

\* stop(), first the state; the cleanup comes last.
StopState ==
  /\ ipc = "ready" /\ calls # <<>> /\ Head(calls) = "stop"
  /\ m_state' = "stopped"
  /\ m_seekRequested' = FALSE
  /\ sought' = None
  /\ ipc' = "stopFlag" /\ calls' = Tail(calls)
  /\ UNCHANGED <<formatOf, uris, decoders, counters, m_seekTarget, m_mutex, audioVars, loadVars,
                 ipcArg, r_currentURI, queued, stopDone>>

StopFlag ==
  /\ ipc = "stopFlag"
  /\ m_pendingNextTrack' = FALSE
  /\ ipc' = "stopPending"
  /\ UNCHANGED <<formatOf, m_state, m_currentURI, m_nextURI, m_pendingNextURI, decoders, counters,
                 seeking, m_mutex, audioVars, loadVars, calls, ipcArg, r_currentURI, history>>

StopPending ==
  /\ ipc = "stopPending"
  /\ m_pendingNextURI' = None
  /\ queued' = m_nextURI
  /\ ipc' = IF Joinable THEN "stopJoin" ELSE "stopClean"
  /\ UNCHANGED <<formatOf, m_state, m_currentURI, m_nextURI, m_pendingNextTrack, decoders,
                 counters, seeking, m_mutex, audioVars, loadVars, calls, ipcArg, r_currentURI,
                 sought, stopDone>>

\* waitForPreloadThread(), without m_mutex.  A thread the audio thread joined
\* meanwhile is not joinable any more.
StopJoin ==
  /\ ipc = "stopJoin"
  /\ loader["preload"] \in {"done", "none"}
  /\ loader' = [loader EXCEPT !["preload"] = "none"]
  /\ ipc' = "stopClean"
  /\ UNCHANGED <<formatOf, m_state, uris, decoders, counters, seeking, m_mutex, audioVars,
                 captured, m_preloadRunning, calls, ipcArg, r_currentURI, history>>

\* The cleanup happens only if m_mutex is free at this very moment.
StopClean ==
  /\ ipc = "stopClean"
  /\ IF m_mutex = "free"
     THEN /\ m_currentDecoder' = None /\ m_nextDecoder' = None
          /\ m_formatChangePending' = FALSE
          /\ m_samplesPlayed' = 0 /\ m_silenceCount' = 0
          /\ UNCHANGED m_currentTrackInfo
     ELSE UNCHANGED <<decoders, counters>>
  /\ stopDone' = TRUE
  /\ ipc' = "ready"
  /\ UNCHANGED <<formatOf, m_state, uris, seeking, m_mutex, audioVars, loadVars, calls, ipcArg,
                 r_currentURI, queued, sought>>

\* setCurrentURI(uri, metadata, forceReopen), under m_mutex.
SetCurrentURI ==
  /\ ipc = "ready" /\ calls # <<>> /\ Head(calls) \in {"setUri", "force"}
  /\ m_mutex = "free"
  /\ m_currentURI' = r_currentURI
  /\ IF r_currentURI # m_currentURI \/ Head(calls) = "force"
     THEN /\ m_currentDecoder' = None /\ m_nextDecoder' = None
          /\ m_pendingNextURI' = None /\ m_pendingNextTrack' = FALSE
          /\ m_nextURI' = None
          /\ m_samplesPlayed' = 0 /\ m_silenceCount' = 0
          /\ m_formatChangePending' = FALSE
          /\ m_seekRequested' = FALSE
          /\ m_preloadRunning' = FALSE
          /\ queued' = None /\ sought' = None
          /\ UNCHANGED m_currentTrackInfo
     ELSE UNCHANGED <<m_pendingNextURI, m_pendingNextTrack, m_nextURI, decoders, counters,
                      m_seekRequested, m_preloadRunning, queued, sought>>
  /\ calls' = Tail(calls)
  /\ UNCHANGED <<formatOf, m_state, m_seekTarget, m_mutex, audioVars, loader, captured, ipc,
                 ipcArg, r_currentURI, stopDone>>

\* openCurrentTrack(): a fresh decoder, or none at all.
OpenCurrentTrack(opened) ==
  IF opened
  THEN m_currentDecoder' = [uri |-> m_currentURI, pos |-> 0] /\ m_currentTrackInfo' = m_currentURI
  ELSE m_currentDecoder' = None /\ UNCHANGED m_currentTrackInfo

\* play() that finds a paused decoder.
PlayResume ==
  /\ ipc = "ready" /\ calls # <<>> /\ Head(calls) = "play"
  /\ m_mutex = "free"
  /\ m_state = "paused" /\ m_currentDecoder # None /\ m_currentURI # None
  /\ m_state' = "playing"
  /\ stopDone' = FALSE
  /\ calls' = Tail(calls)
  /\ UNCHANGED <<formatOf, uris, decoders, counters, seeking, m_mutex, audioVars, loadVars, ipc,
                 ipcArg, r_currentURI, queued, sought>>

\* play() that starts a track, and preloads the next one in the background.
PlayStart ==
  /\ ipc = "ready" /\ calls # <<>> /\ Head(calls) = "play"
  /\ m_mutex = "free"
  /\ m_currentURI # None
  /\ ~(m_state = "paused" /\ m_currentDecoder # None)
  /\ IF m_currentDecoder = None \/ IsEOF
     THEN OpenCurrentTrack(TRUE)
     ELSE UNCHANGED <<m_currentDecoder, m_currentTrackInfo>>
  /\ m_state' = "playing"
  /\ m_samplesPlayed' = 0 /\ m_silenceCount' = 0
  /\ stopDone' = FALSE
  /\ calls' = Tail(calls)
  /\ IF PreloadDue /\ Joinable
     THEN m_mutex' = "ipc" /\ ipc' = "playJoin" /\ UNCHANGED <<loader, m_preloadRunning>>
     ELSE /\ IF PreloadDue THEN Spawn ELSE UNCHANGED <<loader, m_preloadRunning>>
          /\ UNCHANGED <<m_mutex, ipc>>
  /\ UNCHANGED <<formatOf, uris, m_nextDecoder, m_formatChangePending, seeking, audioVars,
                 captured, ipcArg, r_currentURI, queued, sought>>

\* play() with no URI, or whose track does not open: the state stays as it is.
PlayFail ==
  /\ ipc = "ready" /\ calls # <<>> /\ Head(calls) = "play"
  /\ m_mutex = "free"
  /\ ~(m_state = "paused" /\ m_currentDecoder # None)
  /\ m_currentURI = None \/ m_currentDecoder = None \/ IsEOF
  /\ IF m_currentURI = None
     THEN UNCHANGED <<m_currentDecoder, m_currentTrackInfo>>
     ELSE OpenCurrentTrack(FALSE)
  /\ calls' = <<>>
  /\ UNCHANGED <<formatOf, m_state, uris, m_nextDecoder, m_formatChangePending, counters, seeking,
                 m_mutex, audioVars, loadVars, ipc, ipcArg, r_currentURI, history>>

\* play() waits for the previous preload thread with m_mutex held.
PlayJoin ==
  /\ ipc = "playJoin"
  /\ loader["preload"] \in {"done", "none"}
  /\ Spawn
  /\ m_mutex' = "free"
  /\ ipc' = "ready"
  /\ UNCHANGED <<formatOf, m_state, uris, decoders, counters, seeking, audioVars, captured, calls,
                 ipcArg, r_currentURI, history>>

\* setNextURI: the URI under m_pendingMutex, then the flag.
QueueNext(uri) ==
  /\ "queue_next" \in Commands /\ RendererFree
  /\ uri # r_currentURI
  /\ m_pendingNextURI' = uri
  /\ ipc' = "nextFlag" /\ ipcArg' = uri
  /\ UNCHANGED <<formatOf, m_state, m_currentURI, m_nextURI, m_pendingNextTrack, decoders,
                 counters, seeking, m_mutex, audioVars, loadVars, calls, r_currentURI, history>>

QueueNextFlag ==
  /\ ipc = "nextFlag"
  /\ m_pendingNextTrack' = TRUE
  /\ queued' = ipcArg
  /\ ipc' = "ready" /\ ipcArg' = None
  /\ UNCHANGED <<formatOf, m_state, m_currentURI, m_nextURI, m_pendingNextURI, decoders, counters,
                 seeking, m_mutex, audioVars, loadVars, calls, r_currentURI, sought, stopDone>>

\* Variant, for the mutation runs: a clear that forgets what is still pending.
ClearNextKeepsPending ==
  /\ "clear_next" \in Commands /\ RendererFree
  /\ m_mutex = "free"
  /\ m_nextURI' = None /\ m_nextDecoder' = None
  /\ m_formatChangePending' = FALSE
  /\ queued' = None
  /\ UNCHANGED <<formatOf, m_state, m_currentURI, m_pendingNextURI, m_pendingNextTrack,
                 m_currentDecoder, m_currentTrackInfo, counters, seeking, m_mutex, audioVars,
                 loadVars, ipcVars, sought, stopDone>>

\* clearNextURI, under m_mutex.
ClearNext ==
  /\ "clear_next" \in Commands /\ RendererFree
  /\ m_mutex = "free"
  /\ m_pendingNextURI' = None /\ m_pendingNextTrack' = FALSE
  /\ m_nextURI' = None /\ m_nextDecoder' = None
  /\ m_formatChangePending' = FALSE
  /\ queued' = None
  /\ UNCHANGED <<formatOf, m_state, m_currentURI, m_currentDecoder, m_currentTrackInfo, counters,
                 seeking, m_mutex, audioVars, loadVars, ipcVars, sought, stopDone>>

\* seek(): the target, then the flag; refused unless playing.
Seek(target) ==
  /\ "seek" \in Commands /\ RendererFree
  /\ m_state = "playing"
  /\ m_seekTarget' = target
  /\ ipc' = "seekFlag" /\ ipcArg' = target
  /\ UNCHANGED <<formatOf, m_state, uris, decoders, counters, m_seekRequested, m_mutex, audioVars,
                 loadVars, calls, r_currentURI, history>>

SeekFlag ==
  /\ ipc = "seekFlag"
  /\ m_seekRequested' = TRUE
  /\ sought' = ipcArg
  /\ ipc' = "ready" /\ ipcArg' = None
  /\ UNCHANGED <<formatOf, m_state, uris, decoders, counters, m_seekTarget, m_mutex, audioVars,
                 loadVars, calls, r_currentURI, queued, stopDone>>

-----------------------------------------------------------------------------
(* The audio thread: audioThreadFunc and AudioEngine::process *)

\* process() is called while the state is playing and a track is known, and once more
\* without looking when the output runs low.  A requested seek is looked at first.
ProcessEnter ==
  /\ \/ audio = "idle" /\ m_state = "playing" /\ m_currentTrackInfo # None
     \/ audio = "again"
  /\ IF m_seekRequested
     THEN audio' = "seekClear" /\ seekLocal' = m_seekTarget
     ELSE audio' = "lock" /\ UNCHANGED seekLocal
  /\ UNCHANGED <<formatOf, m_state, uris, decoders, counters, seeking, m_mutex, samplesRead,
                 loadVars, ipcVars, history>>

ProcessRest ==
  /\ audio = "again"
  /\ audio' = "idle"
  /\ UNCHANGED <<formatOf, m_state, uris, decoders, counters, seeking, m_mutex, samplesRead,
                 seekLocal, loadVars, ipcVars, history>>

ProcessSeekClear ==
  /\ audio = "seekClear"
  /\ m_seekRequested' = FALSE
  /\ audio' = "seekApply"
  /\ UNCHANGED <<formatOf, m_state, uris, decoders, counters, m_seekTarget, m_mutex, samplesRead,
                 seekLocal, loadVars, ipcVars, history>>

\* The decoder's seek may fail; the answer goes to the seek callback either way.  The
\* loaded target goes out of scope.
ProcessSeekApply ==
  /\ audio = "seekApply"
  /\ m_mutex = "free"
  /\ \/ /\ m_currentDecoder # None
        /\ m_currentDecoder' = [m_currentDecoder EXCEPT !.pos = seekLocal]
        /\ m_samplesPlayed' = seekLocal /\ m_silenceCount' = 0
     \/ UNCHANGED <<m_currentDecoder, counters>>
  /\ sought' = IF sought = seekLocal /\ ~m_seekRequested THEN None ELSE sought
  /\ audio' = "lock" /\ seekLocal' = 0
  /\ UNCHANGED <<formatOf, m_state, uris, m_nextDecoder, m_currentTrackInfo,
                 m_formatChangePending, seeking, m_mutex, samplesRead, loadVars, ipcVars,
                 queued, stopDone>>

\* The state is checked again under m_mutex.
ProcessLock ==
  /\ audio = "lock"
  /\ m_mutex = "free"
  /\ IF m_state # "playing"
     THEN audio' = "idle" /\ UNCHANGED m_mutex
     ELSE /\ m_mutex' = "audio"
          /\ audio' = IF m_pendingNextTrack THEN "take" ELSE "read"
  /\ UNCHANGED <<formatOf, m_state, uris, decoders, counters, seeking, samplesRead, seekLocal,
                 loadVars, ipcVars, history>>

\* The pending URI becomes the next one, under m_pendingMutex ...
ProcessTakePending ==
  /\ audio = "take"
  /\ m_nextURI' = m_pendingNextURI
  /\ m_pendingNextURI' = None
  /\ IF m_pendingNextURI # m_nextURI
     THEN m_nextDecoder' = None
          /\ m_formatChangePending' = (m_formatChangePending /\ m_nextDecoder = None)
     ELSE UNCHANGED <<m_nextDecoder, m_formatChangePending>>
  /\ audio' = "apply"
  /\ UNCHANGED <<formatOf, m_state, m_currentURI, m_pendingNextTrack, m_currentDecoder,
                 m_currentTrackInfo, counters, seeking, m_mutex, samplesRead, seekLocal,
                 loadVars, ipcVars, history>>

\* Variant, for the mutation runs: the current track is accepted as its own next.
ProcessApplyPendingAny ==
  /\ audio = "apply"
  /\ m_pendingNextTrack' = FALSE
  /\ audio' = "read"
  /\ UNCHANGED <<formatOf, m_state, m_currentURI, m_nextURI, m_pendingNextURI, decoders, counters,
                 seeking, m_mutex, samplesRead, seekLocal, loadVars, ipcVars, history>>

\* ... and the flag is cleared outside it; the current track is no next track.
ProcessApplyPending ==
  LET next == IF m_nextURI = m_currentURI THEN None ELSE m_nextURI
      due  == next # None /\ m_nextDecoder = None /\ ~m_preloadRunning
  IN
  /\ audio = "apply"
  /\ m_pendingNextTrack' = FALSE
  /\ m_nextURI' = next
  /\ queued' = StillQueued(m_currentURI)
  /\ IF due /\ ~Joinable THEN Spawn ELSE UNCHANGED <<loader, m_preloadRunning>>
  /\ audio' = IF due /\ Joinable THEN "join" ELSE "read"
  /\ UNCHANGED <<formatOf, m_state, m_currentURI, m_pendingNextURI, decoders, counters, seeking,
                 m_mutex, samplesRead, seekLocal, captured, ipcVars, sought, stopDone>>

\* waitForPreloadThread() with m_mutex held, then the new preload thread.
ProcessJoin ==
  /\ audio = "join"
  /\ loader["preload"] \in {"done", "none"}
  /\ Spawn
  /\ audio' = "read"
  /\ UNCHANGED <<formatOf, m_state, uris, decoders, counters, seeking, m_mutex, samplesRead,
                 seekLocal, captured, ipcVars, history>>

\* The safety net reopens a missing decoder; if that fails the track has ended.
ProcessReopen ==
  /\ audio = "read" /\ m_currentDecoder = None
  /\ \/ /\ m_currentURI # None
        /\ OpenCurrentTrack(TRUE)
        /\ TrackChanged(m_currentURI)
        /\ m_samplesPlayed' = 0 /\ m_silenceCount' = 0
        /\ UNCHANGED <<audio, m_mutex, m_state>>
     \/ /\ m_currentURI # None
        /\ OpenCurrentTrack(FALSE)
        /\ m_state' = "stopped"
        /\ audio' = "idle" /\ m_mutex' = "free"
        /\ UNCHANGED <<counters, r_currentURI>>
     \/ /\ m_currentURI = None
        /\ audio' = "idle" /\ m_mutex' = "free"
        /\ UNCHANGED <<m_state, m_currentDecoder, m_currentTrackInfo, counters, r_currentURI>>
  /\ UNCHANGED <<formatOf, uris, m_nextDecoder, m_formatChangePending, seeking, samplesRead,
                 seekLocal, loadVars, calls, ipc, ipcArg, history>>

\* readSamples; at the end of the data process() lets go of m_mutex to get the next track.
ProcessRead ==
  LET pos == m_currentDecoder.pos IN
  /\ audio = "read" /\ m_currentDecoder # None
  /\ samplesRead' = (pos < Length)
  /\ m_currentDecoder' = [m_currentDecoder EXCEPT !.pos = IF pos < Length THEN pos + 1 ELSE pos]
  /\ IF m_nextDecoder = None /\ m_nextURI # None /\ ~m_formatChangePending
        /\ m_currentDecoder'.pos = Length
     THEN /\ m_mutex' = "free"
          /\ audio' = "await"
          /\ loader' = IF m_preloadRunning THEN loader ELSE [loader EXCEPT !["audio"] = "capture"]
     ELSE audio' = "deliver" /\ UNCHANGED <<m_mutex, loader>>
  /\ UNCHANGED <<formatOf, m_state, uris, m_nextDecoder, m_currentTrackInfo,
                 m_formatChangePending, counters, seeking, seekLocal, captured,
                 m_preloadRunning, ipcVars, history>>

\* Waiting for the preload thread, or for its own inline preload, without m_mutex.
ProcessAwait ==
  /\ audio = "await"
  /\ \/ loader["audio"] = "done"
     \/ loader["audio"] = "none" /\ loader["preload"] \in {"done", "none"}
  /\ loader' = IF loader["audio"] = "done" THEN [loader EXCEPT !["audio"] = "none"]
               ELSE [loader EXCEPT !["preload"] = "none"]
  /\ audio' = "relock"
  /\ UNCHANGED <<formatOf, m_state, uris, decoders, counters, seeking, m_mutex, samplesRead,
                 seekLocal, captured, m_preloadRunning, ipcVars, history>>

ProcessRelock ==
  /\ audio = "relock"
  /\ m_mutex = "free"
  /\ m_mutex' = "audio"
  /\ audio' = "deliver"
  /\ UNCHANGED <<formatOf, m_state, uris, decoders, counters, seeking, samplesRead, seekLocal,
                 loadVars, ipcVars, history>>

\* The callback took the block.
ProcessDelivered ==
  /\ audio = "deliver" /\ samplesRead
  /\ m_samplesPlayed' = m_samplesPlayed + 1
  /\ audio' = "again" /\ m_mutex' = "free"
  /\ UNCHANGED <<formatOf, m_state, uris, decoders, m_silenceCount, seeking, samplesRead,
                 seekLocal, loadVars, ipcVars, history>>

\* The callback gave up: the block is lost and playback stops.
ProcessRefused ==
  /\ audio = "deliver" /\ samplesRead
  /\ m_state' = "stopped"
  /\ audio' = "idle" /\ m_mutex' = "free"
  /\ UNCHANGED <<formatOf, uris, decoders, counters, seeking, samplesRead, seekLocal, loadVars,
                 ipcVars, history>>

\* transitionToNextTrack: the preloaded decoder takes over.
ProcessTransition ==
  /\ audio = "deliver" /\ ~samplesRead
  /\ m_nextDecoder # None
  /\ m_currentURI' = m_nextURI /\ m_nextURI' = None
  /\ m_currentDecoder' = [uri |-> m_nextDecoder, pos |-> 0] /\ m_nextDecoder' = None
  /\ m_currentTrackInfo' = m_nextDecoder
  /\ m_formatChangePending' = FALSE
  /\ m_samplesPlayed' = 0
  /\ TrackChanged(m_nextURI)
  /\ queued' = StillQueued(m_nextURI)
  /\ audio' = "again" /\ m_mutex' = "free"
  /\ UNCHANGED <<formatOf, m_state, m_pendingNextURI, m_pendingNextTrack, m_silenceCount, seeking,
                 samplesRead, seekLocal, loadVars, calls, ipc, ipcArg, sought, stopDone>>

\* Variant, for the mutation runs: the old decoder stays when the format changes.
ProcessNextFormatKeepsDecoder ==
  /\ audio = "deliver" /\ ~samplesRead
  /\ m_nextDecoder = None /\ m_nextURI # None
  /\ m_currentURI' = m_nextURI /\ m_nextURI' = None
  /\ m_formatChangePending' = FALSE
  /\ m_samplesPlayed' = 0
  /\ queued' = StillQueued(m_nextURI)
  /\ audio' = "again" /\ m_mutex' = "free"
  /\ UNCHANGED <<formatOf, m_state, m_pendingNextURI, m_pendingNextTrack, m_currentDecoder,
                 m_nextDecoder, m_currentTrackInfo, m_silenceCount, seeking, samplesRead,
                 seekLocal, loadVars, ipcVars, sought, stopDone>>

\* A next track without a decoder (another format, or it did not open) is reopened by
\* the safety net of the next process().
ProcessNextFormat ==
  /\ audio = "deliver" /\ ~samplesRead
  /\ m_nextDecoder = None /\ m_nextURI # None
  /\ m_currentURI' = m_nextURI /\ m_nextURI' = None
  /\ m_currentDecoder' = None
  /\ m_formatChangePending' = FALSE
  /\ m_samplesPlayed' = 0
  /\ queued' = StillQueued(m_nextURI)
  /\ audio' = "again" /\ m_mutex' = "free"
  /\ UNCHANGED <<formatOf, m_state, m_pendingNextURI, m_pendingNextTrack, m_nextDecoder,
                 m_currentTrackInfo, m_silenceCount, seeking, samplesRead, seekLocal, loadVars,
                 ipcVars, sought, stopDone>>

\* Variant, for the mutation runs: one empty call too many.
ProcessDrainLate ==
  /\ audio = "deliver" /\ ~samplesRead
  /\ m_nextDecoder = None /\ m_nextURI = None
  /\ IF m_silenceCount > SilenceLimit
     THEN m_silenceCount' = 0 /\ m_state' = "stopped"
     ELSE m_silenceCount' = m_silenceCount + 1 /\ UNCHANGED m_state
  /\ audio' = "idle" /\ m_mutex' = "free"
  /\ UNCHANGED <<formatOf, uris, decoders, m_samplesPlayed, seeking, samplesRead, seekLocal,
                 loadVars, ipcVars, history>>

\* No next track: a few empty calls, then the end of the playlist.
ProcessDrain ==
  /\ audio = "deliver" /\ ~samplesRead
  /\ m_nextDecoder = None /\ m_nextURI = None
  /\ IF m_silenceCount = SilenceLimit
     THEN m_silenceCount' = 0 /\ m_state' = "stopped"
     ELSE m_silenceCount' = m_silenceCount + 1 /\ UNCHANGED m_state
  /\ audio' = "idle" /\ m_mutex' = "free"
  /\ UNCHANGED <<formatOf, uris, decoders, m_samplesPlayed, seeking, samplesRead, seekLocal,
                 loadVars, ipcVars, history>>

-----------------------------------------------------------------------------
(* preloadNextTrack(), in the preload thread or inline *)

\* The preload thread clears m_preloadRunning when the function has returned.
Return(p) ==
  /\ loader' = [loader EXCEPT ![p] = IF p = "preload" THEN "exit" ELSE "done"]
  /\ captured' = [captured EXCEPT ![p] = NoCapture]

LoaderCapture(p) ==
  /\ loader[p] = "capture"
  /\ m_mutex = "free"
  /\ IF m_nextURI \in {None, m_currentURI}
     THEN Return(p) /\ m_nextURI' = None
     ELSE /\ captured' = [captured EXCEPT ![p] = [uri |-> m_nextURI, info |-> m_currentTrackInfo]]
          /\ loader' = [loader EXCEPT ![p] = "open"]
          /\ UNCHANGED m_nextURI
  /\ UNCHANGED <<formatOf, m_state, m_currentURI, m_pendingNextURI, m_pendingNextTrack, decoders,
                 counters, seeking, m_mutex, audioVars, m_preloadRunning, ipcVars, history>>

\* Slow network I/O without the lock; it may fail.
LoaderOpen(p) ==
  /\ loader[p] = "open"
  /\ \/ loader' = [loader EXCEPT ![p] = "commit"] /\ UNCHANGED captured
     \/ Return(p)
  /\ UNCHANGED <<formatOf, m_state, uris, decoders, counters, seeking, m_mutex, audioVars,
                 m_preloadRunning, ipcVars, history>>

\* Validate and commit: the next URI must still be the one that was opened.
LoaderCommit(p) ==
  LET uri == captured[p].uri IN
  /\ loader[p] = "commit"
  /\ m_mutex = "free"
  /\ \/ /\ m_nextURI # uri
        /\ UNCHANGED <<m_nextURI, m_nextDecoder, m_formatChangePending>>
     \/ /\ m_nextURI = uri /\ uri = m_currentURI
        /\ m_nextURI' = None
        /\ UNCHANGED <<m_nextDecoder, m_formatChangePending>>
     \/ /\ m_nextURI = uri /\ uri # m_currentURI
        /\ formatOf[uri] # formatOf[captured[p].info]
        /\ m_formatChangePending' = TRUE
        /\ UNCHANGED <<m_nextURI, m_nextDecoder>>
     \/ /\ m_nextURI = uri /\ uri # m_currentURI
        /\ formatOf[uri] = formatOf[captured[p].info]
        /\ m_nextDecoder' = uri
        /\ UNCHANGED <<m_nextURI, m_formatChangePending>>
  /\ Return(p)
  /\ UNCHANGED <<formatOf, m_state, m_currentURI, m_pendingNextURI, m_pendingNextTrack,
                 m_currentDecoder, m_currentTrackInfo, counters, seeking, m_mutex, audioVars,
                 m_preloadRunning, ipcVars, history>>

LoaderExit ==
  /\ loader["preload"] = "exit"
  /\ m_preloadRunning' = FALSE
  /\ loader' = [loader EXCEPT !["preload"] = "done"]
  /\ UNCHANGED <<formatOf, m_state, uris, decoders, counters, seeking, m_mutex, audioVars,
                 captured, ipcVars, history>>

-----------------------------------------------------------------------------
CommandThread ==
  \/ \E uri \in Track : SetUri(uri) \/ PlayNow(uri) \/ QueueNext(uri)
  \/ \E target \in 0..Length : Seek(target)
  \/ Resume \/ Stop \/ Pause \/ ClearNext
  \/ StopState \/ StopFlag \/ StopPending \/ StopJoin \/ StopClean
  \/ SetCurrentURI \/ PlayResume \/ PlayStart \/ PlayFail \/ PlayJoin
  \/ QueueNextFlag \/ SeekFlag

AudioThread ==
  \/ ProcessEnter \/ ProcessRest \/ ProcessSeekClear \/ ProcessSeekApply
  \/ ProcessLock \/ ProcessTakePending \/ ProcessApplyPending \/ ProcessJoin
  \/ ProcessReopen \/ ProcessRead \/ ProcessAwait \/ ProcessRelock
  \/ ProcessDelivered \/ ProcessRefused \/ ProcessTransition \/ ProcessNextFormat
  \/ ProcessDrain

Preload ==
  \/ LoaderExit
  \/ \E p \in Loaders :
       LoaderCapture(p) \/ LoaderOpen(p) \/ LoaderCommit(p)

Next == CommandThread \/ AudioThread \/ Preload

Spec == Init /\ [][Next]_vars

-----------------------------------------------------------------------------
(* Properties *)

\* Each decoder belongs to the URI it is filed under, and the track info to the
\* current decoder: no interleaving of queue, clear, stop, preload and gapless
\* transition plays one track under the name of another.
DecodersMatchUris ==
  /\ m_nextDecoder # None => m_nextDecoder = m_nextURI
  /\ m_currentDecoder # None =>
       m_currentDecoder.uri = m_currentURI /\ m_currentTrackInfo = m_currentURI

\* The next track is never the current one (the replay that process() and
\* preloadNextTrack() both guard against), whichever of the two moved last.
NextIsAnotherTrack ==
  audio # "apply" /\ m_nextURI # None => m_nextURI # m_currentURI

\* What was revoked (by a clear, a stop or a new current URI) is queued nowhere: it can
\* not come back as the next track.
RevokedStaysRevoked ==
  RendererFree /\ queued = None => m_nextURI = None /\ m_pendingNextURI = None

\* Why these hold.  Who is at a step under m_mutex holds it, and nobody else.  What is
\* next was acknowledged last, or the URI that is pending was, or the one whose flag is
\* about to be set; and a preloaded track is another one even where process() has not
\* yet looked at what it took.
MutexHeld ==
  /\ m_mutex = "audio" <=> audio \in {"take", "apply", "join", "read", "deliver"}
  /\ m_mutex = "ipc" <=> ipc = "playJoin"

PreloadedIsAnother == m_nextDecoder # None => m_nextDecoder # m_currentURI

LastQueued == IF ipc = "nextFlag" THEN ipcArg ELSE queued
QueueKnown ==
  /\ ipc = "nextFlag" => ipcArg \in Track
  /\ m_pendingNextURI # None => LastQueued = m_pendingNextURI
  /\ m_pendingNextURI = None /\ m_nextURI # None => LastQueued = m_nextURI

SeekKnown == ipc = "seekFlag" => ipcArg \in 0..Length

IInv == /\ TypeOK /\ MutexHeld /\ DecodersMatchUris /\ PreloadedIsAnother /\ NextIsAnotherTrack
        /\ QueueKnown /\ SeekKnown

-----------------------------------------------------------------------------
(* What the comments of the code say and the code does not keep: TLC refutes each of *)
(* these.  README.md names the interleavings. *)

\* preloadNextTrack(): "Format changes require clean stop/start to avoid audio
\* artifacts".  A track is only kept for a gapless transition from one of its format.
GaplessSameFormat ==
  m_nextDecoder # None /\ m_currentDecoder # None =>
    formatOf[m_nextDecoder] = formatOf[m_currentTrackInfo]

\* setNextURI: "Thread-safe: Use pending mechanism to defer to audio thread".  A next
\* track that was acknowledged is pending or next until it is played or revoked.
QueueNextHonoured ==
  RendererFree /\ queued # None =>
    \/ m_pendingNextTrack /\ m_pendingNextURI = queued
    \/ m_nextURI = queued

\* process(): "Check for actual end of data (no more samples can be read)".  A track is
\* left for the next one only when it was read to its end.
LeftAtEndOnly ==
  [][m_state = "playing" /\ (ProcessTransition \/ ProcessNextFormat)
       => m_currentDecoder # None /\ IsEOF]_vars

\* process(): "waitForPreloadThread() must not hold m_mutex because the preload thread
\* needs it."
NoJoinUnderMutex ==
  audio = "join" \/ ipc = "playJoin" => loader["preload"] \notin {"capture", "commit"}

\* stop(): "clean up EVERYTHING to force a reopening at the next play()", now or in the
\* next process().
StopRewinds ==
  [][stopDone /\ m_state = "stopped" /\ m_state' = "playing" => m_currentDecoder'.pos = 0]_vars

\* seek(): "Seek queued, will be processed by audio thread".  An acknowledged seek is
\* requested or in the audio thread's hands until it is applied or revoked.
SeekHonoured ==
  RendererFree /\ sought # None /\ m_state # "stopped" =>
    \/ m_seekRequested /\ m_seekTarget = sought
    \/ audio \in {"seekClear", "seekApply"} /\ seekLocal = sought

\* CHANGELOG.md: "Cancelled queued asynchronous seeks when stopping or replacing the
\* current URI so a stale request cannot move a newer track".  While a track plays and
\* no command is under way, what moves it is a seek that nothing has revoked.
StaleSeekMovesNothing ==
  [][ProcessSeekApply /\ RendererFree /\ m_state = "playing" /\ sought = None
       => UNCHANGED m_currentDecoder]_vars
=============================================================================
