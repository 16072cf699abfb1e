---------------------------- MODULE SyncLifecycle ----------------------------
(***************************************************************************)
(* DirettaSync's connection: the flags open(), close(), release(),         *)
(* stopPlayback(), enable(), disable() and the recovery functions keep, and *)
(* the SDK session they stand for.                                         *)
(*                                                                         *)
(* Two threads call it.  The audio thread calls from the output callback,  *)
(* the end-of-track callback and its own disconnect check; the command     *)
(* thread from the IPC handlers.  A handler is a list of calls.  Each call  *)
(* holds m_lifecycleMutex, except what stopPlayback() signals before it     *)
(* takes it, and enable() and disable(), which never take it.  A call is    *)
(* split where it waits, or where another thread's stores can come between. *)
(*                                                                         *)
(* The SDK, the worker thread it starts and the target are outside: any     *)
(* request to them may succeed or fail, except that nothing succeeds on a   *)
(* closed session, and the target may drop off at any time.                 *)
(***************************************************************************)
EXTENDS Naturals, Sequences

CONSTANTS
  Format,   \* formats a track may have: records [dsd, rate, bits]
  Warmup,   \* the format selectTarget() connects with
  None,     \* no format
  Handlers  \* the handlers a run may start

AllHandlers == {"callback", "trackEnd", "disconnected", "stop", "uriChange", "pause",
                "resume", "reconnect", "cleanup", "selectTarget"}

ASSUME SyncLifecycleAssumption ==
  /\ Format \subseteq [dsd : BOOLEAN, rate : Nat, bits : Nat]
  /\ Warmup \in Format /\ None \notin Format
  /\ Handlers \subseteq AllHandlers

VARIABLES
  m_enabled, m_sdkOpen, m_open, m_playing, m_paused,
  m_previousFormat,   \* None stands for !m_hasPreviousFormat
  m_currentFormat,
  m_stopRequested, m_draining,
  m_openAbortRequested, m_transitionWakeup,
  lifecycle,          \* who holds m_lifecycleMutex, or "free"
  \* outside: the SDK session, the format its sink was set to, the SDK's worker thread
  sdk, sinkFormat, worker,
  \* the threads
  pc, calls,
  \* history: an abort was signalled that the running open() can still see
  abortDue

conn    == <<m_open, m_playing, m_paused, m_previousFormat, m_currentFormat>>
session == <<sdk, sinkFormat, worker, m_sdkOpen>>
mute    == <<m_stopRequested, m_draining>>
aborts  == <<m_openAbortRequested, m_transitionWakeup, abortDue>>
threads == <<lifecycle, pc, calls>>
vars == <<m_enabled, conn, session, mute, aborts, threads>>

Thread == {"audio", "command"}
Call ==
  [op : {"open"}, format : Format] \cup [op : {"stopPlayback"}, immediate : BOOLEAN]
  \cup [op : {"release", "pause", "resume", "resetDisconnected", "reconnect", "disable",
              "enable"}]
OpenPc  == {"open.reconnect", "open.sdk", "open.session", "open.wait", "open.waited",
            "open.reset", "open.connect", "open.online"}
ClosePc == {"close", "close.join"}
\* Where open() can still see that it is to abort.
StillLooks == {"open.sdk", "open.session", "open.wait", "open.waited", "open.reset"}
Pc == {"idle", "stop.lock", "disable.close", "disable.rest"} \cup OpenPc \cup ClosePc

\* The calls a thread can be in at each of these points.
CallAt(label) ==
  IF label \in OpenPc THEN {"open"}
  ELSE IF label \in ClosePc THEN {"release", "disable"}
  ELSE IF label = "stop.lock" THEN {"stopPlayback"} ELSE {"disable"}

TypeOK ==
  /\ {m_enabled, m_sdkOpen, m_open, m_playing, m_paused} \subseteq BOOLEAN
  /\ m_previousFormat \in Format \cup {None} /\ m_currentFormat \in Format \cup {None}
  /\ {m_stopRequested, m_draining, m_openAbortRequested, m_transitionWakeup, abortDue}
       \subseteq BOOLEAN
  /\ lifecycle \in Thread \cup {"free"}
  /\ sdk \in {"closed", "open", "connected", "lost"}
  /\ sinkFormat \in Format \cup {None}
  /\ worker \in BOOLEAN
  /\ pc \in [Thread -> Pc]
  /\ calls \in [Thread -> Seq(Call)]
  /\ \A t \in Thread :
       pc[t] # "idle" => calls[t] # <<>> /\ Head(calls[t]).op \in CallAt(pc[t])

\* The daemon after its start, before a target is selected.
Init ==
  /\ m_enabled = FALSE /\ m_sdkOpen = FALSE
  /\ m_open = FALSE /\ m_playing = FALSE /\ m_paused = FALSE
  /\ m_previousFormat = None /\ m_currentFormat = None
  /\ m_stopRequested = FALSE /\ m_draining = FALSE
  /\ m_openAbortRequested = FALSE /\ m_transitionWakeup = FALSE
  /\ lifecycle = "free"
  /\ sdk = "closed" /\ sinkFormat = None /\ worker = FALSE
  /\ pc = [t \in Thread |-> "idle"] /\ calls = [t \in Thread |-> <<>>]
  /\ abortDue = FALSE

Online == sdk = "connected"

\* A rate change, or leaving DSD, takes the long way through a target reset.
LongReset(old, new) ==
  IF old.dsd THEN ~new.dsd \/ old.rate # new.rate
             ELSE ~new.dsd /\ old.rate # new.rate

Open(format)    == [op |-> "open", format |-> format]
Stop(immediate) == [op |-> "stopPlayback", immediate |-> immediate]
Plain(op)       == [op |-> op]

-----------------------------------------------------------------------------
(* How the calls of a thread begin and end *)

Calling(t, op) ==
  /\ pc[t] = "idle" /\ calls[t] # <<>>
  /\ Head(calls[t]).op = op

Locks(t)   == lifecycle = "free" /\ lifecycle' = t
GoTo(t, label) == pc' = [pc EXCEPT ![t] = label] /\ UNCHANGED calls

\* The call is over; a failed one ends its handler, and selectTarget() disables then.
Return(t, rest) ==
  /\ pc' = [pc EXCEPT ![t] = "idle"]
  /\ calls' = [calls EXCEPT ![t] = rest]

Done(t)   == Return(t, Tail(calls[t]))
Failed(t) ==
  Return(t, IF t = "command" /\ Len(calls[t]) > 1 /\ calls[t][1].op = "open"
            THEN <<Plain("disable")>> ELSE <<>>)

-----------------------------------------------------------------------------
(* The SDK session *)

SdkOpens  == sdk' = "open" /\ sinkFormat' = None /\ UNCHANGED worker
SdkCloses == sdk' = "closed" /\ sinkFormat' = None

\* resetFailedConnection.
ResetFailed ==
  /\ m_stopRequested' = TRUE /\ m_draining' = FALSE
  /\ m_open' = FALSE /\ m_playing' = FALSE /\ m_paused' = FALSE
  /\ m_previousFormat' = None
  /\ m_openAbortRequested' = FALSE /\ m_transitionWakeup' = FALSE
  /\ UNCHANGED m_currentFormat

\* It closes a session only if m_sdkOpen says there is one.
SessionReset ==
  /\ m_sdkOpen' = FALSE /\ worker' = FALSE
  /\ IF m_sdkOpen THEN SdkCloses ELSE UNCHANGED <<sdk, sinkFormat>>

\* resetFailedConnection, then rediscovery and openSyncConnection.
SessionReopened == sdk' = "open" /\ sinkFormat' = None /\ worker' = FALSE /\ m_sdkOpen' = TRUE

-----------------------------------------------------------------------------
(* open() *)

\* The mutex is held; which way to go depends on what is left of the last session.
OpenEnter(t) ==
  /\ Calling(t, "open")
  /\ Locks(t)
  /\ m_openAbortRequested' = FALSE /\ abortDue' = FALSE
  /\ m_enabled
  /\ GoTo(t, IF m_open /\ ~Online THEN "open.reconnect"
             ELSE IF ~m_sdkOpen THEN "open.sdk" ELSE "open.session")
  /\ UNCHANGED <<m_enabled, conn, session, mute, m_transitionWakeup>>

OpenRefused(t) ==
  /\ Calling(t, "open")
  /\ lifecycle = "free" /\ ~m_enabled
  /\ m_openAbortRequested' = FALSE
  /\ Failed(t)
  /\ UNCHANGED <<m_enabled, conn, session, mute, m_transitionWakeup, abortDue, lifecycle>>

\* The target restarted: the session is torn down and set up again in place.
OpenReconnect(t) ==
  /\ pc[t] = "open.reconnect"
  /\ ResetFailed
  /\ \/ SessionReopened /\ GoTo(t, "open.session") /\ UNCHANGED lifecycle
     \/ SessionReset /\ Failed(t) /\ lifecycle' = "free"
  /\ UNCHANGED <<m_enabled, abortDue>>

OpenSdk(t) ==
  /\ pc[t] = "open.sdk"
  /\ \/ SdkOpens /\ m_sdkOpen' = TRUE /\ GoTo(t, "open.session") /\ UNCHANGED lifecycle
     \/ UNCHANGED session /\ Failed(t) /\ lifecycle' = "free"
  /\ UNCHANGED <<m_enabled, conn, mute, aborts>>

\* Same format: the buffer is cleared and playback resumes on the old session.
OpenQuick(t) ==
  /\ pc[t] = "open.session"
  /\ m_open /\ m_previousFormat = Head(calls[t]).format
  /\ m_stopRequested' = FALSE /\ m_draining' = FALSE
  /\ m_playing' = TRUE /\ m_paused' = FALSE
  /\ Done(t) /\ lifecycle' = "free"
  /\ UNCHANGED <<m_enabled, m_open, m_previousFormat, m_currentFormat, session, aborts>>

\* Another format: the session is closed, but m_sdkOpen stays; the long way also
\* clears the playback flags, reopenForFormatChange() does not.
OpenChange(t) ==
  LET old == m_previousFormat  new == Head(calls[t]).format IN
  /\ pc[t] = "open.session"
  /\ m_open /\ old \notin {None, new}
  /\ SdkCloses /\ worker' = FALSE
  /\ IF LongReset(old, new)
     THEN m_open' = FALSE /\ m_playing' = FALSE /\ m_paused' = FALSE
     ELSE UNCHANGED <<m_open, m_playing, m_paused>>
  /\ GoTo(t, "open.wait")
  /\ UNCHANGED <<m_enabled, m_previousFormat, m_currentFormat, m_sdkOpen, mute, aborts,
                 lifecycle>>

\* No playback session yet.
OpenFresh(t) ==
  /\ pc[t] = "open.session"
  /\ ~(m_open /\ m_previousFormat # None)
  /\ GoTo(t, "open.reset")
  /\ UNCHANGED <<m_enabled, conn, session, mute, aborts, lifecycle>>

\* interruptibleWait: the delay for the target to reset.
OpenWait(t) ==
  /\ pc[t] = "open.wait"
  /\ m_transitionWakeup' = FALSE
  /\ GoTo(t, "open.waited")
  /\ UNCHANGED <<m_enabled, conn, session, mute, m_openAbortRequested, abortDue, lifecycle>>

\* An abort that came meanwhile ends open() here, with the session closed.
OpenWaited(t) ==
  /\ pc[t] = "open.waited"
  /\ \/ /\ m_openAbortRequested
        /\ m_openAbortRequested' = FALSE
        /\ Failed(t) /\ lifecycle' = "free"
        /\ UNCHANGED session
     \/ /\ ~m_openAbortRequested
        /\ SdkOpens /\ GoTo(t, "open.reset")
        /\ UNCHANGED <<m_openAbortRequested, lifecycle, m_sdkOpen>>
     \/ /\ ~m_openAbortRequested
        /\ Failed(t) /\ lifecycle' = "free"
        /\ UNCHANGED <<session, m_openAbortRequested>>
  /\ UNCHANGED <<m_enabled, conn, mute, m_transitionWakeup, abortDue>>

\* Variant, for the mutation runs: no second look at the abort flag.
OpenResetDeaf(t) ==
  /\ pc[t] = "open.reset"
  /\ m_stopRequested' = FALSE /\ m_draining' = FALSE
  /\ GoTo(t, "open.connect")
  /\ UNCHANGED <<m_enabled, conn, session, aborts, lifecycle>>

\* fullReset(), and the last look at the abort flag.
OpenReset(t) ==
  /\ pc[t] = "open.reset"
  /\ m_stopRequested' = FALSE /\ m_draining' = FALSE
  /\ IF m_openAbortRequested
     THEN m_openAbortRequested' = FALSE /\ Failed(t) /\ lifecycle' = "free"
     ELSE GoTo(t, "open.connect") /\ UNCHANGED <<m_openAbortRequested, lifecycle>>
  /\ UNCHANGED <<m_enabled, conn, session, m_transitionWakeup, abortDue>>

\* Sink and ring are configured, the target is connected, the SDK starts its worker.
OpenConnect(t) ==
  /\ pc[t] = "open.connect"
  /\ \/ /\ sdk # "closed"
        /\ sdk' = "connected" /\ sinkFormat' = Head(calls[t]).format /\ worker' = TRUE
        /\ m_stopRequested' = FALSE
        /\ GoTo(t, "open.online")
        /\ UNCHANGED lifecycle
     \/ /\ Failed(t) /\ lifecycle' = "free"
        /\ sdk' = IF sdk = "closed" THEN sdk ELSE "open"
        /\ UNCHANGED <<sinkFormat, worker, m_stopRequested>>
  /\ UNCHANGED <<m_enabled, conn, m_sdkOpen, m_draining, aborts>>

\* Variant, for the mutation runs: the format of the session is not remembered.
OpenOnlineForgets(t) ==
  /\ pc[t] = "open.online"
  /\ \/ /\ Online
        /\ m_open' = TRUE /\ m_playing' = TRUE /\ m_paused' = FALSE
        /\ m_currentFormat' = Head(calls[t]).format
        /\ Done(t)
        /\ UNCHANGED <<session, mute, m_openAbortRequested, m_transitionWakeup,
                       m_previousFormat>>
     \/ ResetFailed /\ SessionReset /\ Failed(t)
  /\ lifecycle' = "free"
  /\ UNCHANGED <<m_enabled, abortDue>>

\* waitForOnline.
OpenOnline(t) ==
  /\ pc[t] = "open.online"
  /\ \/ /\ Online
        /\ m_open' = TRUE /\ m_playing' = TRUE /\ m_paused' = FALSE
        /\ m_previousFormat' = Head(calls[t]).format
        /\ m_currentFormat' = Head(calls[t]).format
        /\ Done(t)
        /\ UNCHANGED <<session, mute, m_openAbortRequested, m_transitionWakeup>>
     \/ ResetFailed /\ SessionReset /\ Failed(t)
  /\ lifecycle' = "free"
  /\ UNCHANGED <<m_enabled, abortDue>>

-----------------------------------------------------------------------------
(* stopPlayback(), pausePlayback(), resumePlayback() *)

\* A running open() is told to abort before the mutex is taken.
StopSignal(t) ==
  /\ Calling(t, "stopPlayback")
  /\ m_openAbortRequested' = TRUE /\ m_transitionWakeup' = TRUE
  /\ abortDue' = (lifecycle # "free" /\ pc[lifecycle] \in StillLooks)
  /\ GoTo(t, "stop.lock")
  /\ UNCHANGED <<m_enabled, conn, session, mute, lifecycle>>

StopLocked(t) ==
  /\ pc[t] = "stop.lock"
  /\ lifecycle = "free"
  /\ m_openAbortRequested' = FALSE
  /\ m_draining' = (m_draining \/ (m_playing /\ ~Head(calls[t]).immediate))
  /\ m_playing' = FALSE /\ m_paused' = (m_paused /\ ~m_playing)
  /\ abortDue' = FALSE
  /\ Done(t)
  /\ UNCHANGED <<m_enabled, m_open, m_previousFormat, m_currentFormat, session,
                 m_stopRequested, m_transitionWakeup, lifecycle>>

PausePlayback(t) ==
  /\ Calling(t, "pause")
  /\ lifecycle = "free"
  /\ IF m_playing /\ ~m_paused
     THEN m_draining' = TRUE /\ m_paused' = TRUE
     ELSE UNCHANGED <<m_draining, m_paused>>
  /\ Done(t)
  /\ UNCHANGED <<m_enabled, m_open, m_playing, m_previousFormat, m_currentFormat, session,
                 m_stopRequested, aborts, lifecycle>>

\* Variant, for the mutation runs: a resume after which nothing is heard.
ResumePlaybackMuted(t) ==
  /\ Calling(t, "resume")
  /\ lifecycle = "free"
  /\ IF m_paused
     THEN m_paused' = FALSE /\ m_playing' = TRUE
     ELSE UNCHANGED <<m_paused, m_playing>>
  /\ Done(t)
  /\ UNCHANGED <<m_enabled, m_open, m_previousFormat, m_currentFormat, session, mute, aborts,
                 lifecycle>>

ResumePlayback(t) ==
  /\ Calling(t, "resume")
  /\ lifecycle = "free"
  /\ IF m_paused
     THEN /\ m_draining' = FALSE /\ m_stopRequested' = FALSE
          /\ m_paused' = FALSE /\ m_playing' = TRUE
     ELSE UNCHANGED <<m_paused, m_playing, mute>>
  /\ Done(t)
  /\ UNCHANGED <<m_enabled, m_open, m_previousFormat, m_currentFormat, session, aborts,
                 lifecycle>>

-----------------------------------------------------------------------------
(* release(), close() and the recovery functions *)

\* release() that meets an unreachable target, or has no playback session to close.
Release(t) ==
  /\ Calling(t, "release")
  /\ lifecycle = "free"
  /\ IF (m_open \/ m_sdkOpen) /\ ~Online
     THEN ResetFailed /\ SessionReset
     ELSE /\ ~m_open
          /\ m_previousFormat' = None
          /\ IF m_sdkOpen THEN SessionReset ELSE UNCHANGED session
          /\ UNCHANGED <<m_open, m_playing, m_paused, m_currentFormat, mute,
                         m_openAbortRequested, m_transitionWakeup>>
  /\ Done(t)
  /\ UNCHANGED <<m_enabled, abortDue, lifecycle>>

ReleaseCloses(t) ==
  /\ Calling(t, "release")
  /\ m_open /\ Online
  /\ Locks(t)
  /\ GoTo(t, "close")
  /\ UNCHANGED <<m_enabled, conn, session, mute, aborts>>

\* close(): the SDK session goes first ...
CloseSdk(t) ==
  /\ pc[t] = "close"
  /\ m_openAbortRequested' = TRUE /\ m_transitionWakeup' = TRUE
  /\ m_draining' = (m_draining \/ (m_playing /\ Online))
  /\ m_stopRequested' = TRUE
  /\ SdkCloses /\ m_sdkOpen' = FALSE
  /\ GoTo(t, "close.join")
  /\ UNCHANGED <<m_enabled, conn, worker, abortDue, lifecycle>>

\* Variant, for the mutation runs: the worker thread is left behind.
CloseJoinNot(t) ==
  /\ pc[t] = "close.join"
  /\ m_open' = FALSE /\ m_playing' = FALSE /\ m_paused' = FALSE
  /\ m_openAbortRequested' = FALSE
  /\ IF Head(calls[t]).op = "release"
     THEN Done(t) /\ m_previousFormat' = None
     ELSE GoTo(t, "disable.rest") /\ UNCHANGED m_previousFormat
  /\ lifecycle' = "free"
  /\ UNCHANGED <<m_enabled, m_currentFormat, session, mute, m_transitionWakeup, abortDue>>

\* Variant, for the mutation runs: a release that goes on as if it were a disable.
CloseJoinDisables(t) ==
  /\ pc[t] = "close.join"
  /\ worker' = FALSE
  /\ m_open' = FALSE /\ m_playing' = FALSE /\ m_paused' = FALSE
  /\ m_openAbortRequested' = FALSE
  /\ GoTo(t, "disable.rest")
  /\ lifecycle' = "free"
  /\ UNCHANGED <<m_enabled, m_previousFormat, m_currentFormat, sdk, sinkFormat, m_sdkOpen,
                 mute, m_transitionWakeup, abortDue>>

\* ... then its worker thread, and the flags.
CloseJoin(t) ==
  /\ pc[t] = "close.join"
  /\ worker' = FALSE
  /\ m_open' = FALSE /\ m_playing' = FALSE /\ m_paused' = FALSE
  /\ m_openAbortRequested' = FALSE
  /\ IF Head(calls[t]).op = "release"
     THEN Done(t) /\ m_previousFormat' = None
     ELSE GoTo(t, "disable.rest") /\ UNCHANGED m_previousFormat
  /\ lifecycle' = "free"
  /\ UNCHANGED <<m_enabled, m_currentFormat, sdk, sinkFormat, m_sdkOpen, mute,
                 m_transitionWakeup, abortDue>>

ResetDisconnected(t) ==
  /\ Calling(t, "resetDisconnected")
  /\ lifecycle = "free"
  /\ IF Online
     THEN UNCHANGED <<conn, session, mute, m_openAbortRequested, m_transitionWakeup>>
     ELSE ResetFailed /\ SessionReset
  /\ Done(t)
  /\ UNCHANGED <<m_enabled, abortDue, lifecycle>>

\* reconnectSelectedTarget().
Reconnect(t) ==
  /\ Calling(t, "reconnect")
  /\ lifecycle = "free"
  /\ \/ /\ Online
        /\ Done(t)
        /\ UNCHANGED <<conn, session, mute, m_openAbortRequested, m_transitionWakeup>>
     \/ ~Online /\ ResetFailed /\ SessionReopened /\ Done(t)
     \/ ~Online /\ ResetFailed /\ SessionReset /\ Failed(t)
  /\ UNCHANGED <<m_enabled, abortDue, lifecycle>>

-----------------------------------------------------------------------------
(* enable() and disable(): not under m_lifecycleMutex *)

Enable(t) ==
  /\ Calling(t, "enable")
  /\ \/ m_enabled /\ Done(t) /\ UNCHANGED <<m_enabled, session>>
     \/ /\ ~m_enabled
        /\ m_enabled' = TRUE
        /\ SdkOpens /\ m_sdkOpen' = TRUE
        /\ Done(t)
     \/ ~m_enabled /\ Failed(t) /\ UNCHANGED <<m_enabled, session>>
  /\ UNCHANGED <<conn, mute, aborts, lifecycle>>

DisableSignal(t) ==
  /\ Calling(t, "disable")
  /\ m_transitionWakeup' = TRUE
  /\ GoTo(t, IF m_open THEN "disable.close" ELSE "disable.rest")
  /\ UNCHANGED <<m_enabled, conn, session, mute, m_openAbortRequested, abortDue, lifecycle>>

DisableClose(t) ==
  /\ pc[t] = "disable.close"
  /\ IF m_open
     THEN Locks(t) /\ GoTo(t, "close")
     ELSE lifecycle = "free" /\ GoTo(t, "disable.rest") /\ UNCHANGED lifecycle
  /\ UNCHANGED <<m_enabled, conn, session, mute, aborts>>

DisableRest(t) ==
  /\ pc[t] = "disable.rest"
  /\ IF m_enabled
     THEN m_enabled' = FALSE /\ m_stopRequested' = TRUE /\ SessionReset
     ELSE UNCHANGED <<m_enabled, m_stopRequested, session>>
  /\ m_previousFormat' = None
  /\ Done(t)
  /\ UNCHANGED <<m_open, m_playing, m_paused, m_currentFormat, m_draining, aborts, lifecycle>>

-----------------------------------------------------------------------------
(* The handlers that call DirettaSync *)

Start(t, handler, list) ==
  /\ handler \in Handlers
  /\ pc[t] = "idle" /\ calls[t] = <<>>
  /\ calls' = [calls EXCEPT ![t] = list]
  /\ UNCHANGED <<m_enabled, conn, session, mute, aborts, lifecycle, pc>>

\* The output callback: open when nothing plays; stop first when the format changed.
Callback(format) ==
  \/ ~m_playing /\ Start("audio", "callback", <<Open(format)>>)
  \/ /\ m_playing /\ m_open /\ m_currentFormat # format
     /\ Start("audio", "callback", <<Stop(FALSE), Open(format)>>)

TrackEnd == Start("audio", "trackEnd", <<Stop(FALSE), Plain("release")>>)

Disconnected == ~Online /\ Start("audio", "disconnected", <<Plain("resetDisconnected")>>)

StopHandler ==
  /\ m_open
  /\ Start("command", "stop", <<Stop(FALSE), Plain("release")>>)

UriChange == m_open /\ Start("command", "uriChange", <<Stop(TRUE)>>)

PauseHandler == m_playing /\ Start("command", "pause", <<Plain("pause")>>)

ResumeHandler ==
  m_enabled /\ Online /\ m_open /\ m_paused /\ Start("command", "resume", <<Plain("resume")>>)

PlayOffline ==
  m_enabled /\ ~Online /\ Start("command", "reconnect", <<Plain("reconnect")>>)

CleanupFailed == Start("command", "cleanup", <<Plain("release")>>)

SelectTarget ==
  Start("command", "selectTarget",
        <<Plain("disable"), Plain("enable"), Open(Warmup), Stop(TRUE)>>)

\* The target is switched off, restarted or taken away.
TargetDrops ==
  /\ sdk = "connected"
  /\ sdk' = "lost"
  /\ UNCHANGED <<m_enabled, conn, sinkFormat, worker, m_sdkOpen, mute, aborts, threads>>

Opening(t) ==
  \/ OpenEnter(t) \/ OpenRefused(t) \/ OpenReconnect(t) \/ OpenSdk(t)
  \/ OpenQuick(t) \/ OpenChange(t) \/ OpenFresh(t) \/ OpenWait(t) \/ OpenWaited(t)
  \/ OpenReset(t) \/ OpenConnect(t) \/ OpenOnline(t)

Closing(t) ==
  \/ StopSignal(t) \/ StopLocked(t) \/ PausePlayback(t) \/ ResumePlayback(t)
  \/ Release(t) \/ ReleaseCloses(t) \/ CloseSdk(t) \/ CloseJoin(t)
  \/ ResetDisconnected(t) \/ Reconnect(t)
  \/ Enable(t) \/ DisableSignal(t) \/ DisableClose(t) \/ DisableRest(t)

Clients ==
  \/ \E format \in Format : Callback(format)
  \/ TrackEnd \/ Disconnected \/ StopHandler \/ UriChange \/ PauseHandler \/ ResumeHandler
  \/ PlayOffline \/ CleanupFailed \/ SelectTarget

Next == Clients \/ TargetDrops \/ \E t \in Thread : Opening(t) \/ Closing(t)

Spec == Init /\ [][Next]_vars

-----------------------------------------------------------------------------
(* Properties *)

\* No call is in progress.
Quiet == lifecycle = "free" /\ \A t \in Thread : pc[t] = "idle"

\* Whatever was called before, audio that is supposed to play is not swallowed:
\* sendAudio() returns 0 while m_draining or m_stopRequested is set.
NotMuted ==
  Quiet /\ m_enabled /\ m_playing /\ ~m_paused /\ Online => ~m_draining /\ ~m_stopRequested

\* A target that plays was given the format DirettaSync believes in, also after a quick
\* resume, a reconnect or an aborted change.
SinkHasFormat ==
  Quiet /\ m_enabled /\ m_playing /\ Online =>
    sinkFormat = m_currentFormat /\ m_previousFormat = m_currentFormat

\* No worker thread outlives the session it serves.
WorkerHasSession == Quiet /\ worker => sdk # "closed"

\* An open() that was told to abort while it can still look does not go on to connect.
AbortHonoured ==
  abortDue => \A t \in Thread : pc[t] \notin {"open.connect", "open.online"}

\* Why these hold.  Who is inside open() or close() has m_lifecycleMutex, and nobody
\* else; the worker is left without a session only on the way to its join; and from
\* its last reset on, an open() that gets online finds nothing muted, and the sink set
\* to the format that it remembers next.
Holders == \A t \in Thread : lifecycle = t <=> pc[t] \in OpenPc \cup ClosePc

AbortSeen ==
  \A t \in Thread : abortDue /\ pc[t] \in OpenPc => pc[t] \in StillLooks /\ m_openAbortRequested

WorkerServes == worker => sdk # "closed" \/ \E t \in Thread : pc[t] = "close.join"

GettingOnline == \E t \in Thread : pc[t] = "open.online"

Unmuted ==
  /\ \A t \in Thread : pc[t] \in {"open.connect", "open.online"} => ~m_draining
  /\ m_enabled /\ Online /\ (GettingOnline \/ (m_playing /\ ~m_paused)) => ~m_draining /\ ~m_stopRequested

FormatKnown ==
  /\ m_playing \/ m_paused => m_open
  /\ \A t \in Thread : pc[t] = "open.online" /\ Online => sinkFormat = Head(calls[t]).format
  /\ m_enabled /\ Online /\ ~GettingOnline =>
       /\ m_playing \/ m_paused => m_previousFormat # None
       /\ m_open /\ m_previousFormat # None =>
            sinkFormat = m_currentFormat /\ m_previousFormat = m_currentFormat

IInv == TypeOK /\ Holders /\ AbortSeen /\ WorkerServes /\ Unmuted /\ FormatKnown

-----------------------------------------------------------------------------
(* What the comments of the code say and the code does not keep: TLC refutes each of *)
(* these.  README.md names the interleavings. *)

\* "SDK-level connection open".
SdkFlagTrue == Quiet => (m_sdkOpen <=> sdk # "closed")

\* "Connected to target for playback".
OpenIsConnected == Quiet /\ m_open => sdk \in {"connected", "lost"}

\* "Target discovered, ready to use": a disabled DirettaSync has no session.
DisabledHasNone == Quiet /\ ~m_enabled => sdk = "closed" /\ ~m_open

\* "Extended delay for target to fully reset": the delay is cut short only for an abort.
ResetDelayKept == [][\A t \in Thread :
  OpenWait(t) /\ m_transitionWakeup => m_openAbortRequested]_vars

\* "Stop worker thread BEFORE closing SDK to prevent use-after-free".
WorkerStoppedFirst == sdk = "closed" => ~worker
=============================================================================
