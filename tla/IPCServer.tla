------------------------------ MODULE IPCServer ------------------------------
(***************************************************************************)
(* The IPC server: connections on a Unix socket, lines cut out of what is  *)
(* read, the control role, and the answers and notifications sent back.    *)
(*                                                                         *)
(* One thread, eventLoop(), accepts, reads and processes; ipc is where it  *)
(* is.  Another one, the position thread, sends notifyPosition() to every  *)
(* connection.  m_mutex protects m_connections and m_controlFd, and answers *)
(* are sent without it.  What a command does is the Daemon's part: here it *)
(* is the step "handler".                                                  *)
(*                                                                         *)
(* A client writes pieces of lines: "part" ends no line, the name of a     *)
(* command ends the line of that command.  The kernel gives a new          *)
(* connection the lowest free descriptor.                                  *)
(***************************************************************************)
EXTENDS Integers, Sequences, FiniteSets, FiniteSetsExt, SequencesExt

CONSTANTS
  Client,     \* the clients
  Fd,         \* descriptors for connections
  Sends,      \* the pieces each client may write
  MaxPieces,  \* how many pieces the clients write, together
  ReadSize,   \* READ_BUF_SIZE, in pieces
  MaxBuffer,  \* a longer line without an end is an overflow (65536 bytes)
  AddMayFail  \* whether epoll_ctl() may fail for a new connection

Command == {"status", "acquire_control", "release_control", "play", "stop", "select_target",
            "shutdown", "unknown"}
Piece   == Command \cup {"part"}
NoFd    == -1
ListenFd == 0

ASSUME IPCServerAssumption ==
  /\ Fd \subseteq Nat \ {ListenFd} /\ IsFiniteSet(Fd)
  /\ Sends \in [Client -> SUBSET Piece]
  /\ {MaxPieces, ReadSize, MaxBuffer} \subseteq Nat \ {0}
  /\ AddMayFail \in BOOLEAN

VARIABLES
  m_connections,  \* from descriptors to [client, isControl, buffer]
  m_controlFd,
  m_mutex,        \* who holds it between steps: "free", "position" or "main"
  serving,        \* IPCServer::m_running
  events,         \* the descriptors epoll_wait() reported, and not looked at yet
  ipc,            \* the thread: its descriptor, its command and the steps left of them
  position,       \* notifyPosition(): the descriptors left, and the one it sends to
  \* the clients: where they are, what each wrote and nobody read, how much they wrote
  phase, stream, written,
  \* what a client got: it ends with a newline, it does not, a line had a line in it
  received,
  \* history: the pieces of each client whose lines were not processed yet, and the
  \* client that was told it has control
  owed, holder

server  == <<m_connections, m_controlFd, m_mutex, serving>>
loop    == <<events, ipc>>
threads == <<loop, position>>
clients == <<phase, stream, written, received>>
history == <<owed, holder>>
ipcVars == <<server, threads, clients, history>>

IpcStep == {"add", "refuse", "lines", "permission", "acquire", "release", "handler", "notify",
            "answer", "ended"}
Connection == [client : Client, isControl : BOOLEAN, buffer : Seq(Piece)]
Connected == DOMAIN m_connections

IpcTypeOK ==
  /\ Connected \subseteq Fd
  /\ \A fd \in Connected : m_connections[fd] \in Connection
  /\ m_controlFd \in Connected \cup {NoFd}
  /\ m_mutex \in {"free", "position", "main"} /\ serving \in BOOLEAN
  /\ events \subseteq Connected \cup {ListenFd}
  /\ ipc.fd \in Fd \cup {NoFd} /\ ipc.cmd \in Piece /\ ipc.todo \in Seq(IpcStep)
  /\ position.todo \subseteq Connected
  /\ position.fd \in Connected \cup {NoFd}
  /\ phase \in [Client -> {"new", "waiting", "connected", "closed", "gone"}]
  /\ stream \in [Client -> Seq(Piece)] /\ written \in 0..MaxPieces
  /\ received \in [Client -> {"whole", "open", "mixed"}]
  /\ owed \in [Client -> Seq(Piece)] /\ holder \in Client \cup {"nobody"}

Idle == [fd |-> NoFd, cmd |-> "part", todo |-> <<>>]
Silent == [todo |-> {}, fd |-> NoFd]

\* start() has bound the socket and started the thread.
IpcInit ==
  /\ m_connections = <<>> /\ m_controlFd = NoFd /\ m_mutex = "free" /\ serving = TRUE
  /\ events = {} /\ ipc = Idle /\ position = Silent
  /\ phase = [c \in Client |-> "new"] /\ stream = [c \in Client |-> <<>>]
  /\ written = 0 /\ received = [c \in Client |-> "whole"]
  /\ owed = [c \in Client |-> <<>>] /\ holder = "nobody"

Owner(fd) == m_connections[fd].client
Buffer(fd) == m_connections[fd].buffer
\* Where lines end, the command of the first one, and what follows it.
LineEnds(pieces) == {i \in DOMAIN pieces : pieces[i] # "part"}
FirstLine(pieces) == pieces[Min(LineEnds(pieces))]
AfterLine(pieces) == IF LineEnds(pieces) = {} THEN pieces
                     ELSE SubSeq(pieces, Min(LineEnds(pieces)) + 1, Len(pieces))
At(step) == ipc.todo # <<>> /\ Head(ipc.todo) = step
Done == [ipc EXCEPT !.todo = Tail(@)]

\* The next descriptor of the batch is fd; and the thread is done with fd.
Takes(fd) == ipc.todo = <<>> /\ fd \in events
Leaves(fd) == ipc' = Idle /\ events' = events \ {fd}

-----------------------------------------------------------------------------
(* The clients *)

Connect(c) ==
  /\ serving /\ phase[c] = "new"
  /\ phase' = [phase EXCEPT ![c] = "waiting"]
  /\ UNCHANGED <<server, threads, stream, written, received, history>>

Write(c, p) ==
  /\ serving /\ phase[c] \in {"waiting", "connected"} /\ written < MaxPieces
  /\ stream' = [stream EXCEPT ![c] = Append(@, p)]
  /\ written' = written + 1
  /\ owed' = [owed EXCEPT ![c] = Append(@, p)]
  /\ UNCHANGED <<server, threads, phase, received, holder>>

\* A client closes its end; what it wrote can still be read.
Close(c) ==
  /\ serving /\ phase[c] = "connected"
  /\ phase' = [phase EXCEPT ![c] = "closed"]
  /\ UNCHANGED <<server, threads, stream, written, received, history>>

-----------------------------------------------------------------------------
(* Sending *)

\* What a client has received once a whole line was sent to it.
Whole(status) == IF status = "whole" THEN "whole" ELSE "mixed"

\* sendJson(): the line and its newline in one send, without the mutex.
Answer ==
  /\ At("answer")
  /\ received' = [received EXCEPT ![Owner(ipc.fd)] = Whole(@)]
  /\ ipc' = Done
  /\ UNCHANGED <<server, events, position, phase, stream, written, history>>

\* broadcast(): a whole line to everyone, under the mutex.
ToAll == received' = [c \in Client |-> IF \E fd \in Connected : Owner(fd) = c
                                         THEN Whole(received[c]) ELSE received[c]]

Notify ==
  /\ At("notify") /\ m_mutex = "free"
  /\ ToAll
  /\ ipc' = Done
  /\ UNCHANGED <<server, events, position, phase, stream, written, history>>

\* notifyPosition(): it gives up when the mutex is taken; the text and the
\* newline are two sends.
PositionBegins ==
  /\ m_mutex = "free" /\ Connected # {}
  /\ m_mutex' = "position" /\ position' = [todo |-> Connected, fd |-> NoFd]
  /\ UNCHANGED <<m_connections, m_controlFd, serving, loop, clients, history>>

PositionText(fd) ==
  /\ position.fd = NoFd /\ fd \in position.todo
  /\ position' = [position EXCEPT !.fd = fd]
  /\ received' = [received EXCEPT ![Owner(fd)] = IF @ = "whole" THEN "open" ELSE @]
  /\ UNCHANGED <<server, loop, phase, stream, written, history>>

PositionNewline ==
  /\ position.fd # NoFd
  /\ position' = [todo |-> position.todo \ {position.fd}, fd |-> NoFd]
  /\ received' = [received EXCEPT ![Owner(position.fd)] = IF @ = "open" THEN "whole" ELSE @]
  /\ UNCHANGED <<server, loop, phase, stream, written, history>>

PositionEnds ==
  /\ m_mutex = "position" /\ position = Silent
  /\ m_mutex' = "free"
  /\ UNCHANGED <<m_connections, m_controlFd, serving, threads, clients, history>>

-----------------------------------------------------------------------------
(* Accepting and removing *)

FreeFd == Fd \ Connected

\* epoll_wait() returns every descriptor that has something.
Ready == {fd \in Connected : stream[Owner(fd)] # <<>> \/ phase[Owner(fd)] = "closed"}
         \cup {fd \in {ListenFd} : \E c \in Client : phase[c] = "waiting"}

Wait ==
  /\ ipc.todo = <<>> /\ events = {} /\ serving
  /\ Ready # {} /\ events' = Ready
  /\ UNCHANGED <<server, ipc, position, clients, history>>

Accept(c) ==
  /\ Takes(ListenFd) /\ phase[c] = "waiting" /\ m_mutex = "free"
  /\ \E fd \in FreeFd :
       /\ \A other \in FreeFd : fd <= other
       /\ m_connections' = [f \in Connected \cup {fd} |->
            IF f = fd THEN [client |-> c, isControl |-> FALSE, buffer |-> <<>>]
            ELSE m_connections[f]]
       /\ ipc' = [ipc EXCEPT !.fd = fd, !.todo = <<"add">>]
  /\ phase' = [phase EXCEPT ![c] = "connected"]
  /\ UNCHANGED <<m_controlFd, m_mutex, serving, events, position, stream, written, received, history>>

Add == /\ At("add") /\ ipc' = Idle
       /\ UNCHANGED <<server, events, position, clients, history>>

\* accept() finds nobody, or no descriptor: acceptClient() returns.
AcceptEnds ==
  /\ Takes(ListenFd) /\ (FreeFd = {} \/ \A c \in Client : phase[c] # "waiting")
  /\ Leaves(ListenFd)
  /\ UNCHANGED <<server, position, clients, history>>

\* epoll_ctl() fails: the descriptor is closed at once, its entry erased later.
AddFails ==
  /\ AddMayFail /\ At("add")
  /\ phase' = [phase EXCEPT ![Owner(ipc.fd)] = "gone"]
  /\ owed' = [owed EXCEPT ![Owner(ipc.fd)] = <<>>]
  /\ ipc' = [ipc EXCEPT !.todo = <<"refuse">>]
  /\ UNCHANGED <<server, events, position, stream, written, received, holder>>

Refuse ==
  /\ At("refuse") /\ m_mutex = "free"
  /\ m_connections' = Restrict(m_connections, Connected \ {ipc.fd})
  /\ ipc' = Idle
  /\ UNCHANGED <<m_controlFd, m_mutex, serving, events, position, clients, history>>

\* Variant, for the mutation runs: the connection goes, the control it held stays.
RemovedOnly(fd) ==
  /\ m_mutex = "free"
  /\ m_controlFd' = m_controlFd /\ holder' = holder
  /\ m_connections' = Restrict(m_connections, Connected \ {fd})
  /\ phase' = [phase EXCEPT ![Owner(fd)] = "gone"]
  /\ Leaves(fd)

\* removeConnection().
Removed(fd) ==
  /\ m_mutex = "free"
  /\ IF m_connections[fd].isControl
     THEN m_controlFd' = NoFd /\ holder' = "nobody"
     ELSE UNCHANGED <<m_controlFd, holder>>
  /\ m_connections' = Restrict(m_connections, Connected \ {fd})
  /\ phase' = [phase EXCEPT ![Owner(fd)] = "gone"]
  /\ Leaves(fd)

\* read() returns 0: everything the client wrote was read before.
EndOfStream(fd) ==
  /\ Takes(fd)
  /\ phase[Owner(fd)] = "closed" /\ stream[Owner(fd)] = <<>>
  /\ Removed(fd)
  /\ UNCHANGED <<m_mutex, serving, position, stream, written, received, owed>>

-----------------------------------------------------------------------------
(* Reading and processing lines *)

\* Variant, for the mutation runs: what was left of an earlier read is dropped.
JoinedFresh(buffer, data) == data

\* What the buffer holds once data is appended.
Joined(buffer, data) == buffer \o data

Read(fd) ==
  /\ Takes(fd) /\ m_mutex = "free"
  /\ LET c == Owner(fd)
         n == Min({ReadSize, Len(stream[c])})
     IN /\ n > 0
        /\ m_connections' = [m_connections EXCEPT
             ![fd].buffer = Joined(@, SubSeq(stream[c], 1, n))]
        /\ stream' = [stream EXCEPT ![c] = SubSeq(@, n + 1, Len(@))]
  /\ ipc' = [ipc EXCEPT !.fd = fd, !.todo = <<"lines">>]
  /\ UNCHANGED <<m_controlFd, m_mutex, serving, events, position, phase, written, received, history>>

\* The steps of a command; what control is needed for asks for it first.
Steps(cmd) == CASE cmd = "status"          -> <<"answer">>
                [] cmd = "acquire_control" -> <<"acquire">>
                [] cmd = "release_control" -> <<"release">>
                [] OTHER                   -> <<"permission">>

\* The commands that can fail answer when they are done, the others before they begin.
Dispatch(cmd) == CASE cmd \in {"play", "select_target"} -> <<"handler", "answer">>
                   [] cmd \in {"stop", "shutdown"}      -> <<"answer", "handler">>
                   [] OTHER                             -> <<"answer">>

\* Variant, for the mutation runs: one line per read, the next waits for another read.
RepeatOnce == <<>>

\* After a line, the loop looks for the next one.
Repeat == <<"lines">>

\* The next complete line is cut out of the buffer.
Line ==
  /\ At("lines")
  /\ LineEnds(Buffer(ipc.fd)) # {}
  /\ LET cmd == FirstLine(Buffer(ipc.fd))
     IN ipc' = [ipc EXCEPT !.cmd = cmd, !.todo = Steps(cmd) \o Repeat]
  /\ m_connections' = [m_connections EXCEPT ![ipc.fd].buffer = AfterLine(@)]
  /\ owed' = [owed EXCEPT ![Owner(ipc.fd)] = AfterLine(@)]
  /\ UNCHANGED <<m_controlFd, m_mutex, serving, events, position, clients, holder>>

\* No line is left; a line that grows without an end ends the connection instead.
NoLine ==
  /\ At("lines") /\ LineEnds(Buffer(ipc.fd)) = {}
  /\ IF Len(Buffer(ipc.fd)) > MaxBuffer
     THEN /\ Removed(ipc.fd)
          /\ owed' = [owed EXCEPT ![Owner(ipc.fd)] = <<>>]
     ELSE /\ Leaves(ipc.fd)
          /\ UNCHANGED <<m_connections, m_controlFd, phase, history>>
  /\ UNCHANGED <<m_mutex, serving, position, stream, written, received>>

Acquire ==
  /\ At("acquire") /\ m_mutex = "free"
  /\ IF m_controlFd \in {NoFd, ipc.fd}
     THEN /\ m_controlFd' = ipc.fd /\ holder' = Owner(ipc.fd)
          /\ m_connections' = [m_connections EXCEPT ![ipc.fd].isControl = TRUE]
     ELSE UNCHANGED <<m_controlFd, holder, m_connections>>
  /\ received' = [received EXCEPT ![Owner(ipc.fd)] = Whole(@)]
  /\ ipc' = Done
  /\ UNCHANGED <<m_mutex, serving, events, position, phase, stream, written, owed>>

\* Variant, for the mutation runs: any connection can give control up.
ReleaseAny ==
  /\ At("release") /\ m_mutex = "free"
  /\ m_controlFd' = NoFd /\ holder' = "nobody"
  /\ m_connections' = [m_connections EXCEPT ![ipc.fd].isControl = FALSE]
  /\ received' = [received EXCEPT ![Owner(ipc.fd)] = Whole(@)]
  /\ ipc' = Done
  /\ UNCHANGED <<m_mutex, serving, events, position, phase, stream, written, owed>>

Release ==
  /\ At("release") /\ m_mutex = "free"
  /\ IF m_controlFd = ipc.fd
     THEN /\ m_controlFd' = NoFd /\ holder' = "nobody"
          /\ m_connections' = [m_connections EXCEPT ![ipc.fd].isControl = FALSE]
     ELSE UNCHANGED <<m_controlFd, holder, m_connections>>
  /\ received' = [received EXCEPT ![Owner(ipc.fd)] = Whole(@)]
  /\ ipc' = Done
  /\ UNCHANGED <<m_mutex, serving, events, position, phase, stream, written, owed>>

\* The holder's command is carried out; others are refused, under the mutex.
Permission ==
  /\ At("permission") /\ m_mutex = "free"
  /\ \/ /\ m_controlFd = ipc.fd
        /\ ipc' = [ipc EXCEPT !.todo = Dispatch(ipc.cmd) \o Tail(@)]
        /\ UNCHANGED received
     \/ /\ m_controlFd # ipc.fd
        /\ ipc' = Done
        /\ received' = [received EXCEPT ![Owner(ipc.fd)] = Whole(@)]
  /\ UNCHANGED <<server, events, position, phase, stream, written, history>>

\* The loop sees that stop() was called.
LoopEnds ==
  /\ ipc.todo = <<>> /\ events = {} /\ ~serving
  /\ ipc' = [ipc EXCEPT !.todo = <<"ended">>]
  /\ UNCHANGED <<server, events, position, clients, history>>

-----------------------------------------------------------------------------
\* What stop() does once the thread has ended: all connections are closed.
AllClosed ==
  /\ m_connections' = <<>> /\ m_controlFd' = NoFd /\ holder' = "nobody"
  /\ phase' = [c \in Client |-> IF phase[c] = "new" THEN "new" ELSE "gone"]
  /\ owed' = [c \in Client |-> <<>>]
  /\ stream' = [c \in Client |-> <<>>]
  /\ UNCHANGED <<loop, position, written, received>>

EventLoop ==
  \/ Wait \/ (\E c \in Client : Accept(c)) \/ Add \/ AddFails \/ Refuse \/ AcceptEnds
  \/ \E fd \in Fd : Read(fd) \/ EndOfStream(fd)
  \/ Line \/ NoLine \/ Acquire \/ Release \/ Permission \/ Answer \/ Notify \/ LoopEnds

ClientStep ==
  \E c \in Client : Connect(c) \/ Close(c) \/ (\E p \in Sends[c] : Write(c, p))

-----------------------------------------------------------------------------
(* Properties *)

\* Control is one thing told in three places, m_controlFd, isControl and the
\* answer to acquire_control, and they agree: whoever m_controlFd names is the
\* client that asked for it, also after that client left and another one came
\* to the same descriptor; only its commands are carried out.
OneController ==
  /\ \A fd \in Connected : m_connections[fd].isControl <=> fd = m_controlFd
  /\ m_controlFd # NoFd => m_controlFd \in Connected /\ holder = Owner(m_controlFd)
  /\ m_controlFd = NoFd => holder = "nobody"
  /\ At("handler") => holder = Owner(ipc.fd)

\* What the thread can have left to do; Commanding, when it is at, or on its way to,
\* a handler.
Commanding == {<<"handler", "answer", "lines">>, <<"answer", "handler", "lines">>, <<"handler", "lines">>}
Todos ==
  Commanding \cup
  {<<>>, <<"add">>, <<"refuse">>, <<"ended">>, <<"lines">>, <<"answer", "lines">>,
   <<"acquire", "lines">>, <<"release", "lines">>, <<"permission", "lines">>,
   <<"notify", "answer", "lines">>, <<"notify", "lines">>}

\* Why it is so: connections and control change together; the thread works for a
\* connection that is there; who was found to have control still has it when its
\* command is carried out; a connection that is being set up has none; and what
\* epoll_wait() reported is there until the thread has looked at it.
ControlInv ==
  /\ Connected \subseteq Fd
  /\ m_connections = [fd \in Connected |-> m_connections[fd]]
  /\ \A fd \in Connected :
       m_connections[fd] = [client |-> Owner(fd), isControl |-> (fd = m_controlFd), buffer |-> Buffer(fd)]
  /\ IF m_controlFd = NoFd THEN holder = "nobody"
     ELSE m_controlFd \in Connected /\ holder = Owner(m_controlFd)
ThreadInv ==
  /\ ipc = [fd |-> ipc.fd, cmd |-> ipc.cmd, todo |-> ipc.todo] /\ ipc.todo \in Todos
  /\ ipc.todo \notin {<<>>, <<"ended">>} => ipc.fd \in Connected
  /\ ipc.todo \in Commanding => m_controlFd = ipc.fd
  /\ ipc.todo \in {<<"add">>, <<"refuse">>} => m_controlFd # ipc.fd
EventsInv ==
  /\ events \subseteq Connected \cup {ListenFd}
  /\ ipc.todo \in {<<"add">>, <<"refuse">>} => ipc.fd \notin events
  /\ ipc.todo = <<"ended">> => events = {}
IInv == ControlInv /\ ThreadInv /\ EventsInv

\* The lines that handleReadable() still has to process, in the buffer and in
\* the socket, are exactly those the client wrote and nobody processed, whole and
\* in that order, however the stream was cut into reads.
CommandsInOrder ==
  /\ \A fd \in Connected : phase[Owner(fd)] # "gone" =>
       owed[Owner(fd)] = Buffer(fd) \o stream[Owner(fd)]
  /\ \A c \in Client : phase[c] = "waiting" => owed[c] = stream[c]

\* IPC_PROTOCOL.md, line 3: one JSON object per line, ending with a newline.
LinesWhole == \A c \in Client : received[c] # "mixed"
=============================================================================
