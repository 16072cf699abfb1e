-------------------------------- MODULE Daemon --------------------------------
(***************************************************************************)
(* The process around the IPC server: the main thread with its signal      *)
(* handler, DirettaRenderer::start() and stop(), the audio thread, the     *)
(* position thread and the handlers of the commands.                       *)
(*                                                                         *)
(* Of the player only what the threads look at is kept: whether the engine *)
(* plays, whether it hangs (AudioEngine says how it can), and whether the  *)
(* Diretta target is held.  Playback and SyncLifecycle look inside.        *)
(***************************************************************************)
EXTENDS IPCServer

CONSTANT Early  \* whether clients and signals may also come before start() has returned

ASSUME DaemonAssumption == Early \in BOOLEAN

VARIABLES
  m_running,  \* DirettaRenderer::m_running
  main,       \* where the main thread is
  audio,      \* the audio thread: in its loop, at the end of a track, stuck in the engine, ended
  ticker,     \* the position thread
  joinable,   \* m_audioThread and m_positionThread hold a thread
  playing,    \* AudioEngine's state is PLAYING
  target      \* DirettaSync is enabled

renderer == <<m_running, main, audio, ticker, joinable, playing, target>>
vars == <<ipcVars, renderer>>

MainPc == {"starting", "running", "stop.engine", "stop.target", "stop.ipc", "join.ipc",
           "join.threads", "exit", "destroy", "destroy.ipc", "exited", "aborted"}

TypeOK ==
  /\ IpcTypeOK
  /\ {m_running, joinable, playing, target} \subseteq BOOLEAN
  /\ main \in MainPc
  /\ audio \in {"none", "loop", "drain", "stuck", "ended"} /\ ticker \in {"none", "loop", "ended"}

\* start() is past m_ipc->start(), with or without a target from the command line:
\* clients may connect, the threads are not there yet.
Init ==
  /\ IpcInit
  /\ m_running = FALSE /\ main = "starting"
  /\ audio = "none" /\ ticker = "none" /\ joinable = FALSE
  /\ playing = FALSE /\ target \in BOOLEAN

Gone == main \in {"exited", "aborted"}

-----------------------------------------------------------------------------
(* The handlers, on the IPC server's thread *)

\* play, play_now and a resume need a target, and may fail.  They wait for the engine's
\* m_mutex, which a stuck engine never gives back.
Play ==
  /\ ipc.cmd = "play" /\ audio # "stuck"
  /\ \/ /\ target /\ playing' = TRUE
        /\ ipc' = [ipc EXCEPT !.todo = <<"notify">> \o Tail(@)]
     \/ /\ target /\ playing' = FALSE
        /\ ipc' = [ipc EXCEPT !.todo = <<"notify">> \o Tail(@)]
     \/ /\ ~target /\ ipc' = Done /\ UNCHANGED playing
  /\ UNCHANGED <<target, m_running>>

\* The engine's stop() says STOPPED and then joins the preload thread.
Stop ==
  /\ ipc.cmd = "stop"
  /\ playing' = FALSE
  /\ \/ audio # "stuck" /\ ipc' = [ipc EXCEPT !.todo = <<"notify">> \o Tail(@)]
     \/ audio # "stuck" /\ ~playing /\ ipc' = Done
     \/ audio = "stuck" /\ UNCHANGED ipc
  /\ UNCHANGED <<target, m_running>>

\* The selected target is enabled and warmed up, or disabled again.
SelectTarget ==
  /\ ipc.cmd = "select_target"
  /\ target' \in BOOLEAN
  /\ ipc' = Done
  /\ UNCHANGED <<playing, m_running>>

Shutdown ==
  /\ ipc.cmd = "shutdown"
  /\ m_running' = FALSE
  /\ ipc' = Done
  /\ UNCHANGED <<target, playing>>

Handler ==
  /\ At("handler")
  /\ Play \/ Stop \/ SelectTarget \/ Shutdown
  /\ UNCHANGED <<server, events, position, clients, history, main, audio, ticker, joinable>>

-----------------------------------------------------------------------------
(* The audio thread and the position thread *)

\* The track ends: STOPPED, and the end-of-track callback waits for the ring to drain.
TrackEnds ==
  /\ audio = "loop" /\ m_running /\ playing
  /\ playing' = FALSE /\ audio' = "drain"
  /\ UNCHANGED <<ipcVars, m_running, main, ticker, joinable, target>>

\* process() or play() joins a preload thread that waits for the m_mutex it holds:
\* from then on every use of the engine waits for ever.
AudioSticks ==
  /\ audio = "loop" /\ (playing \/ (At("handler") /\ ipc.cmd = "play" /\ target))
  /\ audio' = "stuck" /\ playing' = TRUE
  /\ UNCHANGED <<ipcVars, m_running, main, ticker, joinable, target>>

\* The callback tells the clients.
TrackEndTold ==
  /\ audio = "drain" /\ m_mutex = "free"
  /\ ToAll /\ audio' = "loop"
  /\ UNCHANGED <<server, threads, phase, stream, written, history>>
  /\ UNCHANGED <<m_running, main, ticker, joinable, playing, target>>

AudioEnds ==
  /\ audio = "loop" /\ ~m_running
  /\ audio' = "ended"
  /\ UNCHANGED <<ipcVars, m_running, main, ticker, joinable, playing, target>>

\* Once a second: where the track is.
Tick ==
  /\ ticker = "loop" /\ m_running /\ playing
  /\ PositionBegins
  /\ UNCHANGED renderer

Ticking == ((\E fd \in Fd : PositionText(fd)) \/ PositionNewline \/ PositionEnds)
           /\ UNCHANGED renderer

TickerEnds ==
  /\ ticker = "loop" /\ ~m_running /\ m_mutex # "position"
  /\ ticker' = "ended"
  /\ UNCHANGED <<ipcVars, m_running, main, audio, joinable, playing, target>>

-----------------------------------------------------------------------------
(* The main thread *)

\* The end of start().
StartThreads ==
  /\ main = "starting"
  /\ m_running' = TRUE /\ audio' = "loop" /\ ticker' = "loop" /\ joinable' = TRUE
  /\ main' = "running"
  /\ UNCHANGED <<ipcVars, playing, target>>

\* main() looks at isRunning() once a second, and returns when it is false.
MainLoop ==
  /\ main = "running" /\ ~m_running
  /\ main' = "exit"
  /\ UNCHANGED <<ipcVars, m_running, audio, ticker, joinable, playing, target>>

\* SIGINT or SIGTERM: signalHandler() calls stop(), which does nothing when
\* m_running is false, and exit().
Signal ==
  /\ main = "running" \/ (Early /\ main = "starting")
  /\ main' = IF m_running THEN "stop.engine" ELSE "exit"
  /\ m_running' = FALSE
  /\ UNCHANGED <<ipcVars, audio, ticker, joinable, playing, target>>

StopEngine ==
  /\ main = "stop.engine"
  /\ playing' = FALSE
  /\ main' = IF audio = "stuck" THEN main ELSE "stop.target"
  /\ UNCHANGED <<ipcVars, m_running, audio, ticker, joinable, target>>

StopTarget ==
  /\ main = "stop.target"
  /\ target' = FALSE /\ main' = "stop.ipc"
  /\ UNCHANGED <<ipcVars, m_running, audio, ticker, joinable, playing>>

\* Variant, for the mutation runs: stop() takes the mutex and then joins.
StopIpcLocked ==
  /\ main \in {"stop.ipc", "destroy"} /\ serving /\ m_mutex = "free"
  /\ serving' = FALSE /\ m_mutex' = "main"
  /\ main' = IF main = "stop.ipc" THEN "join.ipc" ELSE "destroy.ipc"
  /\ UNCHANGED <<m_connections, m_controlFd, threads, clients, history>>
  /\ UNCHANGED <<m_running, audio, ticker, joinable, playing, target>>

\* IPCServer::stop(), up to the join; from stop() or from the destructor.
StopIpc ==
  /\ main \in {"stop.ipc", "destroy"} /\ serving
  /\ serving' = FALSE
  /\ main' = IF main = "stop.ipc" THEN "join.ipc" ELSE "destroy.ipc"
  /\ UNCHANGED <<m_connections, m_controlFd, m_mutex, threads, clients, history>>
  /\ UNCHANGED <<m_running, audio, ticker, joinable, playing, target>>

\* The thread is joined and the connections are closed, under the mutex.
JoinIpc ==
  /\ main \in {"join.ipc", "destroy.ipc"} /\ At("ended") /\ m_mutex \in {"free", "main"}
  /\ AllClosed /\ m_mutex' = "free"
  /\ main' = IF main = "join.ipc" THEN "join.threads" ELSE "exited"
  /\ UNCHANGED <<serving, m_running, audio, ticker, joinable, playing, target>>

JoinThreads ==
  /\ main = "join.threads" /\ audio = "ended" /\ ticker = "ended"
  /\ joinable' = FALSE /\ main' = "exit"
  /\ UNCHANGED <<ipcVars, m_running, audio, ticker, playing, target>>

\* The end of the process destroys g_renderer: stop() returns at once, and a
\* std::thread destroyed before it was joined ends the process by abort().
Exit ==
  /\ main = "exit"
  /\ IF joinable THEN main' = "aborted" /\ UNCHANGED target
                 ELSE main' = "destroy" /\ target' = FALSE
  /\ UNCHANGED <<ipcVars, m_running, audio, ticker, joinable, playing>>

\* ~IPCServer, when stop() was called before.
Destroyed ==
  /\ main = "destroy" /\ ~serving
  /\ main' = "exited"
  /\ UNCHANGED <<ipcVars, m_running, audio, ticker, joinable, playing, target>>

-----------------------------------------------------------------------------
Ipc(A) == ~Gone /\ A /\ UNCHANGED renderer
ServerThread == Ipc(EventLoop) \/ (~Gone /\ Handler)
AudioThread == ~Gone /\ (TrackEndTold \/ AudioEnds)
PositionThread == ~Gone /\ (Ticking \/ TickerEnds)
MainThread == StartThreads \/ MainLoop \/ StopEngine \/ StopTarget \/ StopIpc \/ JoinIpc \/ JoinThreads \/ Exit
              \/ Destroyed

Next ==
  \/ (Early \/ main # "starting") /\ Ipc(ClientStep)
  \/ ServerThread
  \/ ~Gone /\ (TrackEnds \/ AudioSticks)
  \/ AudioThread
  \/ ~Gone /\ Tick
  \/ PositionThread
  \/ Signal
  \/ MainThread

\* The threads run.  Clients, tracks and signals owe nothing.
Spec ==
  /\ Init /\ [][Next]_vars
  /\ WF_vars(ServerThread) /\ WF_vars(AudioThread) /\ WF_vars(PositionThread)
  /\ WF_vars(MainThread)

-----------------------------------------------------------------------------
(* Properties *)

\* Every command a client wrote is processed, also one that was read together with
\* others, was cut in pieces, or whose client has left since, until none is left;
\* unless the server stops, the process ends, the client overflowed its buffer or
\* the engine hangs under a command.
Pending == {c \in Client : LineEnds(owed[c]) # {}}
CommandsServed == Pending # {} ~> (Pending = {} \/ ~serving \/ Gone \/ audio = "stuck")

Clean == /\ ~joinable /\ audio \in {"none", "ended"} /\ ticker \in {"none", "ended"}
         /\ At("ended") /\ Connected = {} /\ ~target

\* stop() under a signal ends the process in good order, whatever its threads and a
\* command under way are doing: by a return from main, not by abort(), and with
\* nothing left behind, no thread, no connection, no target.  Only an engine that
\* hangs keeps it.
SignalEnds == main = "stop.engine" ~> ((main = "exited" /\ Clean) \/ audio = "stuck")

\* docs/PLAN-STRIP-UPNP-IPC.md, line 78: the shutdown command ends the daemon gracefully.
ShutdownIsGraceful == main # "aborted"

\* signalHandler() and ~DirettaRenderer: a process that returns from main leaves
\* nothing behind.  Refuted in the window before start() has returned (Early), when
\* a signal runs the destructors beside the server's thread.
OrderlyExit == main = "exited" => Clean
=============================================================================
