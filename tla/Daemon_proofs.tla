---------------------------- MODULE Daemon_proofs ----------------------------
(***************************************************************************)
(* Control of the daemon, for any number of clients and descriptors and    *)
(* whatever the clients write, leave and come back to.                     *)
(***************************************************************************)
EXTENDS Daemon, SequenceTheorems, WellFoundedInduction, TLAPS

(* Short sequences put together. *)

LEMMA OneAndOne ==
  ASSUME NEW x, NEW y
  PROVE  <<x>> \o <<y>> = <<x, y>>
<1> DEFINE S == {x, y}
<1>1. <<x>> \in Seq(S) /\ <<y>> \in Seq(S) /\ <<x, y>> \in Seq(S) /\ Len(<<x>>) = 1 /\ Len(<<y>>) = 1
      /\ Len(<<x, y>>) = 2
  OBVIOUS
<1>2. /\ <<x>> \o <<y>> \in Seq(S) /\ Len(<<x>> \o <<y>>) = 2
      /\ \A i \in 1..2 : (<<x>> \o <<y>>)[i] = IF i <= 1 THEN <<x>>[i] ELSE <<y>>[i - 1]
  BY <1>1, ConcatProperties
<1>3. \A i \in 1..2 : (<<x>> \o <<y>>)[i] = <<x, y>>[i]
  BY <1>2
<1> QED BY <1>1, <1>2, <1>3, SeqEqual

LEMMA OneAndTwo ==
  ASSUME NEW x, NEW y, NEW z
  PROVE  <<x>> \o <<y, z>> = <<x, y, z>>
<1> DEFINE S == {x, y, z}
<1>1. <<x>> \in Seq(S) /\ <<y, z>> \in Seq(S) /\ <<x, y, z>> \in Seq(S) /\ Len(<<x>>) = 1 /\ Len(<<y, z>>) = 2
      /\ Len(<<x, y, z>>) = 3
  OBVIOUS
<1>2. /\ <<x>> \o <<y, z>> \in Seq(S) /\ Len(<<x>> \o <<y, z>>) = 3
      /\ \A i \in 1..3 : (<<x>> \o <<y, z>>)[i] = IF i <= 1 THEN <<x>>[i] ELSE <<y, z>>[i - 1]
  BY <1>1, ConcatProperties
<1>3. \A i \in 1..3 : (<<x>> \o <<y, z>>)[i] = <<x, y, z>>[i]
  BY <1>2
<1> QED BY <1>1, <1>2, <1>3, SeqEqual

LEMMA TwoAndOne ==
  ASSUME NEW x, NEW y, NEW z
  PROVE  <<x, y>> \o <<z>> = <<x, y, z>>
<1> DEFINE S == {x, y, z}
<1>1. <<z>> \in Seq(S) /\ <<x, y>> \in Seq(S) /\ <<x, y, z>> \in Seq(S) /\ Len(<<z>>) = 1 /\ Len(<<x, y>>) = 2
      /\ Len(<<x, y, z>>) = 3
  OBVIOUS
<1>2. /\ <<x, y>> \o <<z>> \in Seq(S) /\ Len(<<x, y>> \o <<z>>) = 3
      /\ \A i \in 1..3 : (<<x, y>> \o <<z>>)[i] = IF i <= 2 THEN <<x, y>>[i] ELSE <<z>>[i - 2]
  BY <1>1, ConcatProperties
<1>3. \A i \in 1..3 : (<<x, y>> \o <<z>>)[i] = <<x, y, z>>[i]
  BY <1>2
<1> QED BY <1>1, <1>2, <1>3, SeqEqual

-----------------------------------------------------------------------------
(* Where the thread is, from the step it is at. *)

Rest == ipc.todo \in {<<>>, <<"ended">>}

LEMMA AtOne ==
  ASSUME ThreadInv
  PROVE  /\ At("add")     => ipc.todo = <<"add">>
         /\ At("refuse")  => ipc.todo = <<"refuse">>
         /\ At("lines")   => ipc.todo = <<"lines">>
         /\ At("acquire") => ipc.todo = <<"acquire", "lines">>
         /\ At("release") => ipc.todo = <<"release", "lines">>
         /\ At("permission") => ipc.todo = <<"permission", "lines">>
         /\ At("answer")  => ipc.todo \in {<<"answer", "lines">>, <<"answer", "handler", "lines">>}
         /\ At("handler") => ipc.todo \in {<<"handler", "lines">>, <<"handler", "answer", "lines">>}
         /\ At("notify")  => ipc.todo \in {<<"notify", "lines">>, <<"notify", "answer", "lines">>}
BY DEF ThreadInv, Todos, Commanding, At

\* A record with fields of its own is changed in the ones named.
LEMMA Changed ==
  ASSUME ThreadInv, NEW f, NEW c, NEW next
  PROVE  /\ [ipc EXCEPT !.todo = next] = [fd |-> ipc.fd, cmd |-> ipc.cmd, todo |-> next]
         /\ [ipc EXCEPT !.cmd = c, !.todo = next] = [fd |-> ipc.fd, cmd |-> c, todo |-> next]
         /\ [ipc EXCEPT !.fd = f, !.todo = next] = [fd |-> f, cmd |-> ipc.cmd, todo |-> next]
<1> DEFINE g == ipc.fd  d == ipc.cmd  t == ipc.todo
<1>1. ipc = [fd |-> g, cmd |-> d, todo |-> t]
  BY Zenon DEF ThreadInv
<1> HIDE DEF g, d, t
<1>2. [[fd |-> g, cmd |-> d, todo |-> t] EXCEPT !.todo = next] = [fd |-> g, cmd |-> d, todo |-> next]
  OBVIOUS
<1>3. [[fd |-> g, cmd |-> d, todo |-> t] EXCEPT !.cmd = c, !.todo = next] = [fd |-> g, cmd |-> c, todo |-> next]
  <2>1. [[fd |-> g, cmd |-> d, todo |-> t] EXCEPT !.cmd = c] = [fd |-> g, cmd |-> c, todo |-> t]
    OBVIOUS
  <2>2. [[fd |-> g, cmd |-> c, todo |-> t] EXCEPT !.todo = next] = [fd |-> g, cmd |-> c, todo |-> next]
    OBVIOUS
  <2>3. [[fd |-> g, cmd |-> d, todo |-> t] EXCEPT !.cmd = c, !.todo = next]
        = [[[fd |-> g, cmd |-> d, todo |-> t] EXCEPT !.cmd = c] EXCEPT !.todo = next]
    OBVIOUS
  <2> QED BY <2>1, <2>2, <2>3, Zenon
<1>4. [[fd |-> g, cmd |-> d, todo |-> t] EXCEPT !.fd = f, !.todo = next] = [fd |-> f, cmd |-> d, todo |-> next]
  <2>1. [[fd |-> g, cmd |-> d, todo |-> t] EXCEPT !.fd = f] = [fd |-> f, cmd |-> d, todo |-> t]
    OBVIOUS
  <2>2. [[fd |-> f, cmd |-> d, todo |-> t] EXCEPT !.todo = next] = [fd |-> f, cmd |-> d, todo |-> next]
    OBVIOUS
  <2>3. [[fd |-> g, cmd |-> d, todo |-> t] EXCEPT !.fd = f, !.todo = next]
        = [[[fd |-> g, cmd |-> d, todo |-> t] EXCEPT !.fd = f] EXCEPT !.todo = next]
    OBVIOUS
  <2> QED BY <2>1, <2>2, <2>3, Zenon
<1>5. /\ [ipc EXCEPT !.todo = next] = [fd |-> g, cmd |-> d, todo |-> next]
      /\ [ipc EXCEPT !.cmd = c, !.todo = next] = [fd |-> g, cmd |-> c, todo |-> next]
      /\ [ipc EXCEPT !.fd = f, !.todo = next] = [fd |-> f, cmd |-> d, todo |-> next]
  BY <1>1, <1>2, <1>3, <1>4, Zenon
<1> QED BY <1>5, Zenon DEF g, d

LEMMA DoneIs ==
  ASSUME ThreadInv
  PROVE  Done = [fd |-> ipc.fd, cmd |-> ipc.cmd, todo |-> Tail(ipc.todo)]
BY Changed, Zenon DEF Done

LEMMA Tails ==
  /\ \A x : Tail(<<x>>) = <<>>
  /\ \A x, y : Tail(<<x, y>>) = <<y>>
  /\ \A x, y, z : Tail(<<x, y, z>>) = <<y, z>>
<1>1. \A x : Tail(<<x>>) = <<>>
  OBVIOUS
<1>2. \A x, y : Tail(<<x, y>>) = <<y>>
  OBVIOUS
<1>3. \A x, y, z : Tail(<<x, y, z>>) = <<y, z>>
  OBVIOUS
<1> QED BY <1>1, <1>2, <1>3, Zenon

-----------------------------------------------------------------------------
(* What keeps each part of the invariant. *)

\* Steps that leave the connections and control alone keep ControlInv.
LEMMA ControlKept ==
  ASSUME ControlInv, UNCHANGED <<m_connections, m_controlFd, holder>>
  PROVE  ControlInv'
BY DEF ControlInv, Owner, Buffer, Connected

\* Steps of other threads, and of the clients.
LEMMA NothingSeen ==
  ASSUME IInv, UNCHANGED <<m_connections, m_controlFd, holder, ipc, events>>
  PROVE  IInv'
<1>1. ControlInv'
  BY ControlKept DEF IInv
<1>2. ThreadInv'
  BY DEF IInv, ThreadInv, Connected
<1>3. EventsInv'
  BY DEF IInv, EventsInv, Connected
<1> QED BY <1>1, <1>2, <1>3 DEF IInv

\* The thread goes on with its connection.
LEMMA ThreadGoesOn ==
  ASSUME IInv, ~Rest, NEW cmd, NEW next \in Todos,
         Connected' = Connected, events' = events,
         ipc' = [fd |-> ipc.fd, cmd |-> cmd, todo |-> next],
         next \in Commanding => m_controlFd' = ipc.fd,
         next \notin {<<"add">>, <<"refuse">>, <<"ended">>}
  PROVE  ThreadInv' /\ EventsInv'
<1>1. ipc'.todo = next /\ ipc'.fd = ipc.fd /\ ipc' = [fd |-> ipc'.fd, cmd |-> ipc'.cmd, todo |-> ipc'.todo]
  OBVIOUS
<1>2. ipc.fd \in Connected
  BY DEF IInv, ThreadInv, Rest
<1>3. ThreadInv'
  BY <1>1, <1>2 DEF ThreadInv
<1>4. EventsInv'
  BY <1>1 DEF IInv, EventsInv
<1> QED BY <1>3, <1>4

\* It is done with a connection that may be no more, and that it will not look at.
LEMMA ThreadIdle ==
  ASSUME ipc' = Idle, events' \subseteq Connected' \cup {ListenFd}
  PROVE  ThreadInv' /\ EventsInv'
<1>1. ipc'.todo = <<>> /\ ipc' = [fd |-> ipc'.fd, cmd |-> ipc'.cmd, todo |-> ipc'.todo]
  BY DEF Idle
<1>2. <<>> \in Todos /\ <<>> \notin Commanding /\ <<>> \notin {<<"add">>, <<"refuse">>} /\ <<>> # <<"ended">>
  BY DEF Todos, Commanding
<1> QED BY <1>1, <1>2 DEF ThreadInv, EventsInv

\* ... and leaves the connections and control alone.
LEMMA GoesOn ==
  ASSUME IInv, ~Rest, NEW cmd, NEW next \in Todos,
         UNCHANGED <<m_connections, m_controlFd, holder, events>>,
         ipc' = [fd |-> ipc.fd, cmd |-> cmd, todo |-> next],
         next \in Commanding => m_controlFd = ipc.fd,
         next \notin {<<"add">>, <<"refuse">>, <<"ended">>}
  PROVE  IInv'
<1>1. ControlInv'
  BY ControlKept DEF IInv
<1>2. Connected' = Connected
  BY DEF Connected
<1> QED BY <1>1, <1>2, ThreadGoesOn DEF IInv

\* The lists of steps, told apart.
LEMMA Lists ==
  /\ \A next \in {<<"lines">>, <<"answer", "lines">>, <<"notify", "lines">>, <<"notify", "answer", "lines">>,
                  <<"acquire", "lines">>, <<"release", "lines">>, <<"permission", "lines">>} :
        next \in Todos /\ next \notin Commanding /\ next \notin {<<"add">>, <<"refuse">>, <<"ended">>}
  /\ \A next \in Commanding : next \in Todos /\ next \notin {<<"add">>, <<"refuse">>, <<"ended">>}
BY DEF Todos, Commanding

-----------------------------------------------------------------------------
(* The steps of the thread that leave the connections alone. *)

LEMMA AnswerKeeps ==
  ASSUME IInv, Answer
  PROVE  IInv'
<1>1. ~Rest
  BY DEF Answer, At, Rest
<1>2. ipc.todo \in {<<"answer", "lines">>, <<"answer", "handler", "lines">>}
  BY AtOne DEF IInv, Answer
<1>3. Done = [fd |-> ipc.fd, cmd |-> ipc.cmd, todo |-> Tail(ipc.todo)]
  BY DoneIs DEF IInv
<1>4. UNCHANGED <<m_connections, m_controlFd, holder, events>> /\ ipc' = Done
  BY DEF Answer, server, history
<1>5. CASE ipc.todo = <<"answer", "lines">>
  <2>1. Tail(ipc.todo) = <<"lines">>
    BY <1>5, Tails
  <2> QED BY <1>1, <1>3, <1>4, <2>1, Lists, GoesOn
<1>6. CASE ipc.todo = <<"answer", "handler", "lines">>
  <2>1. Tail(ipc.todo) = <<"handler", "lines">>
    BY <1>6, Tails
  <2>2. m_controlFd = ipc.fd /\ <<"handler", "lines">> \in Commanding
    BY <1>6 DEF IInv, ThreadInv, Commanding
  <2> QED BY <1>1, <1>3, <1>4, <2>1, <2>2, Lists, GoesOn
<1> QED BY <1>2, <1>5, <1>6

LEMMA NotifyKeeps ==
  ASSUME IInv, Notify
  PROVE  IInv'
<1>1. ~Rest
  BY DEF Notify, At, Rest
<1>2. ipc.todo \in {<<"notify", "lines">>, <<"notify", "answer", "lines">>}
  BY AtOne DEF IInv, Notify
<1>3. Done = [fd |-> ipc.fd, cmd |-> ipc.cmd, todo |-> Tail(ipc.todo)]
  BY DoneIs DEF IInv
<1>4. Tail(ipc.todo) \in {<<"lines">>, <<"answer", "lines">>}
  <2>1. CASE ipc.todo = <<"notify", "lines">>
    BY <2>1, Tails, Zenon
  <2>2. CASE ipc.todo = <<"notify", "answer", "lines">>
    <3>1. Tail(<<"notify", "answer", "lines">>) = <<"answer", "lines">>
      BY Tails
    <3> QED BY <2>2, <3>1
  <2> QED BY <1>2, <2>1, <2>2
<1>5. UNCHANGED <<m_connections, m_controlFd, holder, events>> /\ ipc' = Done
  BY DEF Notify, server, history
<1> QED BY <1>1, <1>3, <1>4, <1>5, Lists, GoesOn

\* A command is only carried out for the connection that has control.
LEMMA PermissionKeeps ==
  ASSUME IInv, Permission
  PROVE  IInv'
<1> DEFINE steps == Dispatch(ipc.cmd)
           next == steps \o Tail(ipc.todo)
<1>1. ~Rest
  BY DEF Permission, At, Rest
<1>2. Tail(ipc.todo) = <<"lines">>
  <2>1. ipc.todo = <<"permission", "lines">>
    BY AtOne DEF IInv, Permission
  <2> QED BY <2>1, Tails, Zenon
<1>3. UNCHANGED <<m_connections, m_controlFd, holder, events>>
  BY DEF Permission, server, history
<1>4. CASE m_controlFd = ipc.fd /\ ipc' = [ipc EXCEPT !.todo = next]
  <2>1. steps \in {<<"answer">>, <<"handler", "answer">>, <<"answer", "handler">>}
    BY DEF Dispatch
  <2>2. next \in {<<"answer", "lines">>} \cup Commanding
    <3>1. CASE steps = <<"answer">>
      BY <3>1, <1>2, OneAndOne
    <3>2. CASE steps = <<"handler", "answer">>
      BY <3>2, <1>2, TwoAndOne DEF Commanding
    <3>3. CASE steps = <<"answer", "handler">>
      BY <3>3, <1>2, TwoAndOne DEF Commanding
    <3> QED BY <2>1, <3>1, <3>2, <3>3
  <2> HIDE DEF next
  <2>3. ipc' = [fd |-> ipc.fd, cmd |-> ipc.cmd, todo |-> next]
    BY <1>4, Changed DEF IInv
  <2> QED BY <1>1, <1>3, <1>4, <2>2, <2>3, Lists, GoesOn
<1>5. CASE ipc' = Done
  <2>1. Done = [fd |-> ipc.fd, cmd |-> ipc.cmd, todo |-> <<"lines">>]
    BY <1>2, DoneIs DEF IInv
  <2> QED BY <1>1, <1>3, <1>5, <2>1, Lists, GoesOn
<1> QED BY <1>4, <1>5 DEF Permission

\* What a handler leaves to do: the answer, or a notification and the answer.
LEMMA HandlerKeeps ==
  ASSUME IInv, Handler
  PROVE  IInv'
<1>1. ~Rest
  BY DEF Handler, At, Rest
<1>2. Tail(ipc.todo) \in {<<"lines">>, <<"answer", "lines">>}
  <2>1. ipc.todo \in {<<"handler", "lines">>, <<"handler", "answer", "lines">>}
    BY AtOne DEF IInv, Handler
  <2>2. CASE ipc.todo = <<"handler", "lines">>
    BY <2>2, Tails, Zenon
  <2>3. CASE ipc.todo = <<"handler", "answer", "lines">>
    <3>1. Tail(<<"handler", "answer", "lines">>) = <<"answer", "lines">>
      BY Tails
    <3> QED BY <2>3, <3>1
  <2> QED BY <2>1, <2>2, <2>3
<1>3. Done = [fd |-> ipc.fd, cmd |-> ipc.cmd, todo |-> Tail(ipc.todo)]
  BY DoneIs DEF IInv
<1>4. UNCHANGED <<m_connections, m_controlFd, holder, events>>
  BY DEF Handler, server, history
<1>5. ipc' = Done \/ ipc' = [ipc EXCEPT !.todo = <<"notify">> \o Tail(ipc.todo)] \/ ipc' = ipc
  BY DEF Handler, Play, Stop, SelectTarget, Shutdown
<1>6. CASE ipc' = Done
  BY <1>1, <1>2, <1>3, <1>4, <1>6, Lists, GoesOn
<1>7. CASE ipc' = [ipc EXCEPT !.todo = <<"notify">> \o Tail(ipc.todo)]
  <2> DEFINE next == <<"notify">> \o Tail(ipc.todo)
  <2>1. next \in {<<"notify", "lines">>, <<"notify", "answer", "lines">>}
    BY <1>2, OneAndOne, OneAndTwo
  <2> HIDE DEF next
  <2>2. ipc' = [fd |-> ipc.fd, cmd |-> ipc.cmd, todo |-> next]
    BY <1>7, Changed DEF IInv, next
  <2> QED BY <1>1, <1>4, <2>1, <2>2, Lists, GoesOn
<1>8. CASE ipc' = ipc
  BY <1>4, <1>8, NothingSeen
<1> QED BY <1>5, <1>6, <1>7, <1>8

\* The connection is set up, or the thread found nobody to accept.
LEMMA AddKeeps ==
  ASSUME IInv, Add \/ AcceptEnds
  PROVE  IInv'
<1>1. UNCHANGED <<m_connections, m_controlFd, holder>> /\ ipc' = Idle /\ events' \subseteq events
  BY DEF Add, AcceptEnds, Leaves, server, history
<1>2. ControlInv'
  BY <1>1, ControlKept DEF IInv
<1>3. events' \subseteq Connected' \cup {ListenFd}
  BY <1>1 DEF IInv, EventsInv, Connected
<1> QED BY <1>1, <1>2, <1>3, ThreadIdle DEF IInv

LEMMA AddFailsKeeps ==
  ASSUME IInv, AddFails
  PROVE  IInv'
<1>1. UNCHANGED <<m_connections, m_controlFd, holder, events>> /\ ipc' = [ipc EXCEPT !.todo = <<"refuse">>]
  BY DEF AddFails, server
<1>2. ControlInv'
  BY <1>1, ControlKept DEF IInv
<1>3. ipc' = [fd |-> ipc.fd, cmd |-> ipc.cmd, todo |-> <<"refuse">>]
  BY <1>1, Changed DEF IInv
<1>4. ipc'.fd = ipc.fd /\ ipc'.todo = <<"refuse">> /\ ipc' = [fd |-> ipc'.fd, cmd |-> ipc'.cmd, todo |-> ipc'.todo]
  BY <1>3
<1>5. ipc.todo = <<"add">> /\ Connected' = Connected
  BY <1>1, AtOne DEF IInv, AddFails, Connected
<1>6. ipc.fd \in Connected /\ m_controlFd # ipc.fd /\ ipc.fd \notin events
  BY <1>5 DEF IInv, ThreadInv, EventsInv
<1>7. <<"refuse">> \in Todos /\ <<"refuse">> \notin Commanding /\ <<"refuse">> # <<"ended">>
  BY DEF Todos, Commanding
<1>8. ThreadInv'
  BY <1>1, <1>4, <1>5, <1>6, <1>7 DEF ThreadInv
<1>9. EventsInv'
  BY <1>1, <1>4, <1>5, <1>6, <1>7 DEF IInv, EventsInv
<1> QED BY <1>2, <1>8, <1>9 DEF IInv

\* epoll_wait() reports what is there; and the loop ends with nothing reported.
LEMMA WaitKeeps ==
  ASSUME IInv, Wait
  PROVE  IInv'
<1>1. UNCHANGED <<m_connections, m_controlFd, holder, ipc>> /\ ipc.todo = <<>> /\ events' = Ready
  BY DEF Wait, server, history
<1>2. ControlInv'
  BY <1>1, ControlKept DEF IInv
<1>3. ThreadInv'
  BY <1>1 DEF IInv, ThreadInv, Connected
<1>4. Ready \subseteq Connected \cup {ListenFd} /\ Connected' = Connected
  BY <1>1 DEF Ready, Connected
<1>5. EventsInv'
  BY <1>1, <1>4 DEF EventsInv
<1> QED BY <1>2, <1>3, <1>5 DEF IInv

LEMMA LoopEndsKeeps ==
  ASSUME IInv, LoopEnds
  PROVE  IInv'
<1>1. /\ UNCHANGED <<m_connections, m_controlFd, holder, events>> /\ events = {}
      /\ ipc' = [ipc EXCEPT !.todo = <<"ended">>]
  BY DEF LoopEnds, server, history
<1>2. ControlInv'
  BY <1>1, ControlKept DEF IInv
<1>3. ipc' = [fd |-> ipc.fd, cmd |-> ipc.cmd, todo |-> <<"ended">>]
  BY <1>1, Changed DEF IInv
<1>4. ipc'.todo = <<"ended">> /\ ipc' = [fd |-> ipc'.fd, cmd |-> ipc'.cmd, todo |-> ipc'.todo]
  BY <1>3
<1>5. <<"ended">> \in Todos /\ <<"ended">> \notin Commanding /\ <<"ended">> \notin {<<"add">>, <<"refuse">>}
  BY DEF Todos, Commanding
<1>6. ThreadInv' /\ EventsInv'
  BY <1>1, <1>4, <1>5 DEF ThreadInv, EventsInv
<1> QED BY <1>2, <1>6 DEF IInv

-----------------------------------------------------------------------------
(* The steps that change a connection. *)

\* A buffer changes, and nothing else of a connection.
LEMMA BufferChanged ==
  ASSUME ControlInv, NEW fd \in Connected, NEW b,
         m_connections' = [m_connections EXCEPT ![fd].buffer = b],
         UNCHANGED <<m_controlFd, holder>>
  PROVE  ControlInv' /\ Connected' = Connected
<1> DEFINE k == m_connections[fd].client  h == m_connections[fd].isControl  old == m_connections[fd].buffer
<1>1. Connected' = Connected
  BY DEF Connected
<1>2. m_connections[fd] = [client |-> k, isControl |-> h, buffer |-> old] /\ h = (fd = m_controlFd)
  <2>1. m_connections[fd] = [client |-> Owner(fd), isControl |-> (fd = m_controlFd), buffer |-> Buffer(fd)]
    BY Zenon DEF ControlInv
  <2>2. h = (fd = m_controlFd)
    BY <2>1
  <2> QED BY <2>1, <2>2, Zenon DEF Owner, Buffer
<1>3. m_connections'[fd] = [client |-> k, isControl |-> h, buffer |-> b]
  <2>1. m_connections'[fd] = [m_connections[fd] EXCEPT !.buffer = b]
    BY DEF ControlInv
  <2> HIDE DEF k, h, old
  <2>2. [[client |-> k, isControl |-> h, buffer |-> old] EXCEPT !.buffer = b]
        = [client |-> k, isControl |-> h, buffer |-> b]
    OBVIOUS
  <2> QED BY <1>2, <2>1, <2>2, Zenon
<1>4. /\ m_connections' = [f \in Connected' |-> m_connections'[f]]
      /\ \A f \in Connected : f # fd => m_connections'[f] = m_connections[f]
  BY <1>1 DEF ControlInv
<1>5. m_connections'[fd].client = k /\ m_connections'[fd].buffer = b
  BY <1>3
<1>6. ASSUME NEW f \in Connected
      PROVE  /\ m_connections'[f] = [client |-> Owner(f)', isControl |-> (f = m_controlFd'), buffer |-> Buffer(f)']
             /\ Owner(f)' = Owner(f)
  <2>1. CASE f = fd
    <3> HIDE DEF k, h, old
    <3>1. /\ m_connections'[f] = [client |-> k, isControl |-> (f = m_controlFd'), buffer |-> b]
          /\ Owner(f)' = k /\ Buffer(f)' = b
      BY <2>1, <1>2, <1>3, <1>5 DEF Owner, Buffer
    <3>2. Owner(f) = k
      BY <2>1 DEF Owner, k
    <3> QED BY <3>1, <3>2
  <2>2. CASE f # fd
    BY <2>2, <1>4 DEF ControlInv, Owner, Buffer
  <2> QED BY <2>1, <2>2
<1>7. Connected' \subseteq Fd
  BY <1>1 DEF ControlInv
<1>8. IF m_controlFd' = NoFd THEN holder' = "nobody"
      ELSE m_controlFd' \in Connected' /\ holder' = Owner(m_controlFd)'
  BY <1>1, <1>6 DEF ControlInv
<1>9. ControlInv'
  <2>1. \A f \in Connected' :
          m_connections'[f] = [client |-> Owner(f)', isControl |-> (f = m_controlFd'), buffer |-> Buffer(f)']
    BY <1>1, <1>6, Zenon
  <2> QED BY <1>4, <1>7, <1>8, <2>1, Zenon DEF ControlInv
<1> QED BY <1>1, <1>9

LEMMA ReadKeeps ==
  ASSUME IInv, NEW fd \in Fd, Read(fd)
  PROVE  IInv'
<1> DEFINE n == Min({ReadSize, Len(stream[Owner(fd)])})
           b == Joined(m_connections[fd].buffer, SubSeq(stream[Owner(fd)], 1, n))
<1>1. /\ m_connections' = [m_connections EXCEPT ![fd].buffer = b]
      /\ ipc' = [ipc EXCEPT !.fd = fd, !.todo = <<"lines">>]
      /\ UNCHANGED <<m_controlFd, holder, events>> /\ fd \in events
  BY DEF Read, Takes, history
<1>2. fd \in Connected
  BY <1>1, IPCServerAssumption DEF IInv, EventsInv
<1> HIDE DEF b
<1>3. ControlInv' /\ Connected' = Connected
  BY <1>1, <1>2, BufferChanged DEF IInv
<1>4. ipc' = [fd |-> fd, cmd |-> ipc.cmd, todo |-> <<"lines">>]
  BY <1>1, Changed DEF IInv
<1>5. ipc'.fd = fd /\ ipc'.todo = <<"lines">> /\ ipc' = [fd |-> ipc'.fd, cmd |-> ipc'.cmd, todo |-> ipc'.todo]
  BY <1>4
<1>6. ThreadInv' /\ EventsInv'
  BY <1>1, <1>2, <1>3, <1>5, Lists DEF IInv, ThreadInv, EventsInv
<1> QED BY <1>3, <1>6 DEF IInv

LEMMA LineKeeps ==
  ASSUME IInv, Line
  PROVE  IInv'
<1> DEFINE cmd == FirstLine(Buffer(ipc.fd))
           next == Steps(cmd) \o Repeat
           b == AfterLine(m_connections[ipc.fd].buffer)
<1>1. /\ m_connections' = [m_connections EXCEPT ![ipc.fd].buffer = b]
      /\ ipc' = [ipc EXCEPT !.cmd = cmd, !.todo = next]
      /\ UNCHANGED <<m_controlFd, holder, events>>
  BY DEF Line
<1>2. ~Rest /\ ipc.fd \in Connected
  BY DEF Line, At, Rest, IInv, ThreadInv
<1>3. next \in {<<"answer", "lines">>, <<"acquire", "lines">>, <<"release", "lines">>, <<"permission", "lines">>}
  <2> HIDE DEF cmd
  <2>1. Steps(cmd) \in {<<"answer">>, <<"acquire">>, <<"release">>, <<"permission">>}
    BY DEF Steps
  <2> QED BY <2>1, OneAndOne DEF Repeat
<1> HIDE DEF cmd, next, b
<1>4. ControlInv' /\ Connected' = Connected
  BY <1>1, <1>2, BufferChanged DEF IInv
<1>5. ipc' = [fd |-> ipc.fd, cmd |-> cmd, todo |-> next]
  BY <1>1, Changed DEF IInv
<1>6. next \in Todos /\ next \notin Commanding /\ next \notin {<<"add">>, <<"refuse">>, <<"ended">>}
  BY <1>3, Lists
<1>7. ThreadInv' /\ EventsInv'
  BY <1>1, <1>2, <1>4, <1>5, <1>6, ThreadGoesOn
<1> QED BY <1>4, <1>7 DEF IInv

\* A new connection has no control: its descriptor was free.
LEMMA AcceptKeeps ==
  ASSUME IInv, NEW c \in Client, Accept(c)
  PROVE  IInv'
<1>1. PICK fd \in FreeFd :
        /\ m_connections' = [f \in Connected \cup {fd} |->
             IF f = fd THEN [client |-> c, isControl |-> FALSE, buffer |-> <<>>] ELSE m_connections[f]]
        /\ ipc' = [ipc EXCEPT !.fd = fd, !.todo = <<"add">>]
  BY DEF Accept
<1>2. UNCHANGED <<m_controlFd, holder, events>>
  BY DEF Accept, history
<1>3. fd \in Fd /\ fd \notin Connected /\ fd # ListenFd
  BY IPCServerAssumption DEF FreeFd
<1>4. Connected' = Connected \cup {fd}
  BY <1>1 DEF Connected
<1>5. /\ m_connections'[fd] = [client |-> c, isControl |-> FALSE, buffer |-> <<>>]
      /\ \A f \in Connected : m_connections'[f] = m_connections[f]
      /\ m_connections' = [f \in Connected' |-> m_connections'[f]]
  BY <1>1, <1>3, <1>4
<1>6. m_controlFd # fd
  BY <1>3, IPCServerAssumption DEF IInv, ControlInv, NoFd
<1>7. ASSUME NEW f \in Connected'
      PROVE  m_connections'[f] = [client |-> Owner(f)', isControl |-> (f = m_controlFd'), buffer |-> Buffer(f)']
  <2>1. CASE f = fd
    <3>1. (f = m_controlFd') = FALSE
      BY <2>1, <1>2, <1>6
    <3>2. Owner(f)' = c /\ Buffer(f)' = <<>>
      BY <2>1, <1>5 DEF Owner, Buffer
    <3> QED BY <2>1, <1>5, <3>1, <3>2, Zenon
  <2>2. CASE f \in Connected
    BY <2>2, <1>2, <1>5 DEF IInv, ControlInv, Owner, Buffer
  <2> QED BY <1>4, <2>1, <2>2
<1>8. IF m_controlFd' = NoFd THEN holder' = "nobody"
      ELSE m_controlFd' \in Connected' /\ holder' = Owner(m_controlFd)'
  BY <1>2, <1>4, <1>5 DEF IInv, ControlInv, Owner
<1>9. ControlInv'
  <2>1. Connected' \subseteq Fd
    BY <1>3, <1>4 DEF IInv, ControlInv
  <2> QED BY <1>5, <1>7, <1>8, <2>1, Zenon DEF ControlInv
<1>10. ipc' = [fd |-> fd, cmd |-> ipc.cmd, todo |-> <<"add">>]
  BY <1>1, Changed DEF IInv
<1>11. ipc'.fd = fd /\ ipc'.todo = <<"add">> /\ ipc' = [fd |-> ipc'.fd, cmd |-> ipc'.cmd, todo |-> ipc'.todo]
  BY <1>10
<1>12. <<"add">> \in Todos /\ <<"add">> \notin Commanding /\ <<"add">> # <<"ended">>
  BY DEF Todos, Commanding
<1>13. ThreadInv'
  BY <1>2, <1>4, <1>6, <1>11, <1>12 DEF ThreadInv
<1>14. EventsInv'
  BY <1>2, <1>3, <1>4, <1>11, <1>12 DEF IInv, EventsInv
<1> QED BY <1>9, <1>13, <1>14 DEF IInv

\* A connection goes, with control if it had it.
LEMMA ConnectionGone ==
  ASSUME ControlInv, NEW fd \in Connected,
         m_connections' = Restrict(m_connections, Connected \ {fd}),
         IF m_controlFd = fd THEN m_controlFd' = NoFd /\ holder' = "nobody"
         ELSE UNCHANGED <<m_controlFd, holder>>
  PROVE  ControlInv' /\ Connected' = Connected \ {fd}
<1>1. /\ m_connections' = [f \in Connected \ {fd} |-> m_connections[f]]
      /\ Connected' = Connected \ {fd}
  BY DEF Restrict, Connected
<1>2. /\ \A f \in Connected' : m_connections'[f] = m_connections[f]
      /\ m_connections' = [f \in Connected' |-> m_connections'[f]]
  BY <1>1
<1>3. NoFd \notin Connected
  BY IPCServerAssumption DEF ControlInv, NoFd
<1>4. ASSUME NEW f \in Connected'
      PROVE  m_connections'[f] = [client |-> Owner(f)', isControl |-> (f = m_controlFd'), buffer |-> Buffer(f)']
  <2>1. (f = m_controlFd') = (f = m_controlFd)
    BY <1>1, <1>3
  <2> QED BY <1>1, <1>2, <2>1 DEF ControlInv, Owner, Buffer
<1>5. IF m_controlFd' = NoFd THEN holder' = "nobody"
      ELSE m_controlFd' \in Connected' /\ holder' = Owner(m_controlFd)'
  BY <1>1, <1>2 DEF ControlInv, Owner
<1>6. Connected' \subseteq Fd
  BY <1>1 DEF ControlInv
<1>7. ControlInv'
  BY <1>2, <1>4, <1>5, <1>6, Zenon DEF ControlInv
<1> QED BY <1>1, <1>7

LEMMA RemovedKeeps ==
  ASSUME IInv, NEW fd \in Connected, Removed(fd)
  PROVE  IInv'
<1>1. m_connections[fd].isControl = (fd = m_controlFd)
  BY DEF IInv, ControlInv
<1>2. ControlInv' /\ Connected' = Connected \ {fd}
  BY <1>1, ConnectionGone DEF IInv, Removed
<1>3. ipc' = Idle /\ events' = events \ {fd}
  BY DEF Removed, Leaves
<1>4. events' \subseteq Connected' \cup {ListenFd}
  BY <1>2, <1>3 DEF IInv, EventsInv
<1> QED BY <1>2, <1>3, <1>4, ThreadIdle DEF IInv

LEMMA EndOfStreamKeeps ==
  ASSUME IInv, NEW fd \in Fd, EndOfStream(fd)
  PROVE  IInv'
<1>1. fd \in Connected
  BY IPCServerAssumption DEF EndOfStream, Takes, IInv, EventsInv
<1> QED BY <1>1, RemovedKeeps DEF EndOfStream

\* The buffer has no line, or it overflows.
LEMMA NoLineKeeps ==
  ASSUME IInv, NoLine
  PROVE  IInv'
<1>1. ipc.fd \in Connected
  BY DEF NoLine, At, IInv, ThreadInv
<1>2. CASE Removed(ipc.fd)
  BY <1>1, <1>2, RemovedKeeps
<1>3. CASE Leaves(ipc.fd) /\ UNCHANGED <<m_connections, m_controlFd, phase, history>>
  <2>1. UNCHANGED <<m_connections, m_controlFd, holder>> /\ ipc' = Idle /\ events' \subseteq events
    BY <1>3 DEF Leaves, history
  <2>2. ControlInv'
    BY <2>1, ControlKept DEF IInv
  <2>3. events' \subseteq Connected' \cup {ListenFd}
    BY <2>1 DEF IInv, EventsInv, Connected
  <2> QED BY <2>1, <2>2, <2>3, ThreadIdle DEF IInv
<1> QED BY <1>2, <1>3 DEF NoLine

\* The connection that could not be added was given no control.
LEMMA RefuseKeeps ==
  ASSUME IInv, Refuse
  PROVE  IInv'
<1>1. ipc.fd \in Connected /\ m_controlFd # ipc.fd /\ ipc.fd \notin events
  <2>1. ipc.todo = <<"refuse">>
    BY AtOne DEF Refuse, IInv
  <2> QED BY <2>1 DEF IInv, ThreadInv, EventsInv
<1>2. ControlInv' /\ Connected' = Connected \ {ipc.fd}
  BY <1>1, ConnectionGone DEF IInv, Refuse, history
<1>3. ipc' = Idle /\ events' \subseteq Connected' \cup {ListenFd}
  BY <1>1, <1>2 DEF Refuse, IInv, EventsInv
<1> QED BY <1>2, <1>3, ThreadIdle DEF IInv

-----------------------------------------------------------------------------
(* Control given, given up, and lost when the server stops. *)

\* The thread answers a command about control.
LEMMA ControlAnswered ==
  ASSUME IInv, At("acquire") \/ At("release"), ControlInv', Connected' = Connected,
         ipc' = Done, events' = events
  PROVE  IInv'
<1>1. ~Rest
  BY DEF At, Rest
<1>2. Tail(ipc.todo) = <<"lines">>
  <2>1. ipc.todo = <<"acquire", "lines">> \/ ipc.todo = <<"release", "lines">>
    BY AtOne DEF IInv
  <2> QED BY <2>1, Tails, Zenon
<1>3. Done = [fd |-> ipc.fd, cmd |-> ipc.cmd, todo |-> Tail(ipc.todo)]
  BY DoneIs DEF IInv
<1>4. ThreadInv' /\ EventsInv'
  BY <1>1, <1>2, <1>3, Lists, ThreadGoesOn
<1> QED BY <1>4 DEF IInv

\* A connection gets or loses the mark of control, together with m_controlFd.
LEMMA MarkChanged ==
  ASSUME ControlInv, NEW fd \in Connected, m_controlFd \in {NoFd, fd}, NEW mark \in BOOLEAN,
         m_connections' = [m_connections EXCEPT ![fd].isControl = mark],
         IF mark THEN m_controlFd' = fd /\ holder' = Owner(fd) ELSE m_controlFd' = NoFd /\ holder' = "nobody"
  PROVE  ControlInv' /\ Connected' = Connected
<1> DEFINE k == m_connections[fd].client  h == m_connections[fd].isControl  b == m_connections[fd].buffer
<1>1. Connected' = Connected
  BY DEF Connected
<1>2. m_connections[fd] = [client |-> k, isControl |-> h, buffer |-> b]
  <2>1. m_connections[fd] = [client |-> Owner(fd), isControl |-> (fd = m_controlFd), buffer |-> Buffer(fd)]
    BY Zenon DEF ControlInv
  <2>2. h = (fd = m_controlFd)
    BY <2>1
  <2> QED BY <2>1, <2>2, Zenon DEF Owner, Buffer
<1>3. m_connections'[fd] = [client |-> k, isControl |-> mark, buffer |-> b]
  <2>1. m_connections'[fd] = [m_connections[fd] EXCEPT !.isControl = mark]
    BY DEF ControlInv
  <2> HIDE DEF k, h, b
  <2>2. [[client |-> k, isControl |-> h, buffer |-> b] EXCEPT !.isControl = mark]
        = [client |-> k, isControl |-> mark, buffer |-> b]
    OBVIOUS
  <2> QED BY <1>2, <2>1, <2>2, Zenon
<1>4. /\ m_connections' = [f \in Connected' |-> m_connections'[f]]
      /\ \A f \in Connected : f # fd => m_connections'[f] = m_connections[f]
  BY <1>1 DEF ControlInv
<1>5. m_connections'[fd].client = k /\ m_connections'[fd].buffer = b
  BY <1>3
<1>6. fd # NoFd /\ NoFd \notin Connected
  BY IPCServerAssumption DEF ControlInv, NoFd
<1>7. ASSUME NEW f \in Connected
      PROVE  /\ m_connections'[f] = [client |-> Owner(f)', isControl |-> (f = m_controlFd'), buffer |-> Buffer(f)']
             /\ Owner(f)' = Owner(f)
  <2>1. CASE f = fd
    <3>1. (f = m_controlFd') = mark
      BY <2>1, <1>6
    <3> HIDE DEF k, h, b
    <3>2. Owner(f)' = k /\ Buffer(f)' = b
      BY <2>1, <1>5 DEF Owner, Buffer
    <3>3. m_connections'[f] = [client |-> Owner(f)', isControl |-> (f = m_controlFd'), buffer |-> Buffer(f)']
      BY <2>1, <1>3, <3>1, <3>2, Zenon
    <3>4. Owner(f) = k
      BY <2>1 DEF Owner, k
    <3> QED BY <3>2, <3>3, <3>4
  <2>2. CASE f # fd
    <3>1. (f = m_controlFd') = (f = m_controlFd)
      BY <2>2, <1>6
    <3> QED BY <2>2, <1>4, <3>1 DEF ControlInv, Owner, Buffer
  <2> QED BY <2>1, <2>2
<1>8. IF m_controlFd' = NoFd THEN holder' = "nobody"
      ELSE m_controlFd' \in Connected' /\ holder' = Owner(m_controlFd)'
  BY <1>1, <1>6, <1>7
<1>9. ControlInv'
  <2>1. Connected' \subseteq Fd
    BY <1>1 DEF ControlInv
  <2>2. \A f \in Connected' :
          m_connections'[f] = [client |-> Owner(f)', isControl |-> (f = m_controlFd'), buffer |-> Buffer(f)']
    BY <1>1, <1>7, Zenon
  <2> QED BY <1>4, <1>8, <2>1, <2>2, Zenon DEF ControlInv
<1> QED BY <1>1, <1>9

LEMMA AcquireKeeps ==
  ASSUME IInv, Acquire
  PROVE  IInv'
<1>1. ipc.fd \in Connected
  BY DEF Acquire, At, IInv, ThreadInv
<1>2. ControlInv' /\ Connected' = Connected
  <2>1. CASE m_controlFd \in {NoFd, ipc.fd}
    BY <1>1, <2>1, MarkChanged DEF IInv, Acquire
  <2>2. CASE m_controlFd \notin {NoFd, ipc.fd}
    BY <2>2, ControlKept DEF IInv, Acquire, Connected
  <2> QED BY <2>1, <2>2
<1> QED BY <1>2, ControlAnswered DEF Acquire

LEMMA ReleaseKeeps ==
  ASSUME IInv, Release
  PROVE  IInv'
<1>1. ipc.fd \in Connected
  BY DEF Release, At, IInv, ThreadInv
<1>2. ControlInv' /\ Connected' = Connected
  <2>1. CASE m_controlFd = ipc.fd
    BY <1>1, <2>1, MarkChanged DEF IInv, Release
  <2>2. CASE m_controlFd # ipc.fd
    BY <2>2, ControlKept DEF IInv, Release, Connected
  <2> QED BY <2>1, <2>2
<1> QED BY <1>2, ControlAnswered DEF Release

LEMMA JoinIpcKeeps ==
  ASSUME IInv, JoinIpc
  PROVE  IInv'
<1>1. ipc.todo = <<"ended">>
  BY DEF JoinIpc, At, IInv, ThreadInv, Todos, Commanding
<1>2. /\ m_connections' = <<>> /\ m_controlFd' = NoFd /\ holder' = "nobody"
      /\ UNCHANGED <<ipc, events>>
  BY DEF JoinIpc, AllClosed, loop
<1>3. Connected' = {} /\ m_connections' = [f \in {} |-> m_connections'[f]]
  BY <1>2 DEF Connected
<1>4. ControlInv'
  BY <1>2, <1>3 DEF ControlInv
<1>5. ThreadInv'
  BY <1>1, <1>2, <1>3 DEF IInv, ThreadInv, Commanding
<1>6. EventsInv'
  BY <1>1, <1>2, <1>3 DEF IInv, EventsInv
<1> QED BY <1>4, <1>5, <1>6 DEF IInv

-----------------------------------------------------------------------------
LEMMA InitIInv == Init => IInv
<1> SUFFICES ASSUME Init PROVE IInv
  OBVIOUS
<1>1. /\ m_connections = <<>> /\ m_controlFd = NoFd /\ holder = "nobody" /\ events = {} /\ ipc = Idle
  BY DEF Init, IpcInit
<1>2. Connected = {} /\ m_connections = [f \in {} |-> m_connections[f]]
  BY <1>1 DEF Connected
<1>3. ControlInv
  BY <1>1, <1>2 DEF ControlInv
<1>4. ipc.todo = <<>> /\ ipc = [fd |-> ipc.fd, cmd |-> ipc.cmd, todo |-> ipc.todo]
  BY <1>1 DEF Idle
<1>5. <<>> \in Todos /\ <<>> \notin Commanding /\ <<>> \notin {<<"add">>, <<"refuse">>} /\ <<>> # <<"ended">>
  BY DEF Todos, Commanding
<1> QED BY <1>1, <1>3, <1>4, <1>5 DEF IInv, ThreadInv, EventsInv

\* The steps of the IPC server's thread.
LEMMA EventLoopKeeps ==
  ASSUME IInv, EventLoop
  PROVE  IInv'
<1>1. CASE Wait
  BY <1>1, WaitKeeps
<1>2. CASE \E c \in Client : Accept(c)
  BY <1>2, AcceptKeeps
<1>3. CASE Add \/ AcceptEnds
  BY <1>3, AddKeeps
<1>4. CASE AddFails
  BY <1>4, AddFailsKeeps
<1>5. CASE Refuse
  BY <1>5, RefuseKeeps
<1>6. CASE \E fd \in Fd : Read(fd) \/ EndOfStream(fd)
  BY <1>6, ReadKeeps, EndOfStreamKeeps
<1>7. CASE Line
  BY <1>7, LineKeeps
<1>8. CASE NoLine
  BY <1>8, NoLineKeeps
<1>9. CASE Acquire
  BY <1>9, AcquireKeeps
<1>10. CASE Release
  BY <1>10, ReleaseKeeps
<1>11. CASE Permission
  BY <1>11, PermissionKeeps
<1>12. CASE Answer
  BY <1>12, AnswerKeeps
<1>13. CASE Notify
  BY <1>13, NotifyKeeps
<1>14. CASE LoopEnds
  BY <1>14, LoopEndsKeeps
<1> QED BY <1>1, <1>2, <1>3, <1>4, <1>5, <1>6, <1>7, <1>8, <1>9, <1>10, <1>11, <1>12, <1>13, <1>14 DEF EventLoop

\* The steps that neither the connections nor control depend on.
LEMMA OthersKeep ==
  ASSUME IInv,
         \/ ClientStep \/ TrackEnds \/ AudioSticks \/ AudioThread \/ Tick \/ PositionThread \/ Signal
         \/ StartThreads \/ MainLoop \/ StopEngine \/ StopTarget \/ StopIpc \/ JoinThreads \/ Exit \/ Destroyed
         \/ UNCHANGED vars
  PROVE  IInv'
<1>1. UNCHANGED <<m_connections, m_controlFd, holder, ipc, events>>
  BY DEF ClientStep, Connect, Close, Write, TrackEnds, AudioSticks, AudioThread, TrackEndTold, AudioEnds, Tick, PositionBegins,
         PositionThread, Ticking, TickerEnds, PositionText, PositionNewline, PositionEnds, Signal, StartThreads,
         MainLoop, StopEngine, StopTarget, StopIpc, JoinThreads, Exit, Destroyed,
         vars, ipcVars, server, loop, threads, clients, history
<1> QED BY <1>1, NothingSeen

THEOREM Controlled == Spec => []IInv
<1>1. Init => IInv
  BY InitIInv
<1>2. IInv /\ [Next]_vars => IInv'
  <2> SUFFICES ASSUME IInv, [Next]_vars PROVE IInv'
    OBVIOUS
  <2>1. CASE EventLoop
    BY <2>1, EventLoopKeeps
  <2>2. CASE Handler
    BY <2>2, HandlerKeeps
  <2>3. CASE JoinIpc
    BY <2>3, JoinIpcKeeps
  <2>4. CASE \/ ClientStep \/ TrackEnds \/ AudioSticks \/ AudioThread \/ Tick \/ PositionThread \/ Signal
             \/ StartThreads \/ MainLoop \/ StopEngine \/ StopTarget \/ StopIpc \/ JoinThreads \/ Exit \/ Destroyed
             \/ UNCHANGED vars
    BY <2>4, OthersKeep
  <2> QED BY <2>1, <2>2, <2>3, <2>4 DEF Next, ServerThread, MainThread, Ipc
<1> QED BY <1>1, <1>2, PTL DEF Spec

\* Whoever leaves, comes back to the same descriptor, asks for control or gives it
\* up, in whatever order: m_controlFd, the marks of the connections and what the
\* clients were told agree, and only the holder's commands are carried out
\* (handleCommand, acquireControl, removeConnection).
THEOREM ControlIsExclusive == Spec => []OneController
<1>1. IInv => OneController
  <2> SUFFICES ASSUME IInv PROVE OneController
    OBVIOUS
  <2>1. ASSUME NEW fd \in Connected
        PROVE  m_connections[fd].isControl <=> fd = m_controlFd
    <3>1. m_connections[fd].isControl = (fd = m_controlFd)
      BY DEF IInv, ControlInv
    <3> QED BY <3>1
  <2>2. At("handler") => holder = Owner(ipc.fd)
    <3>1. At("handler") => ipc.todo \in Commanding /\ ipc.todo \notin {<<>>, <<"ended">>}
      BY AtOne DEF IInv, Commanding
    <3>2. NoFd \notin Connected
      BY IPCServerAssumption DEF IInv, ControlInv, NoFd
    <3> QED BY <3>1, <3>2 DEF IInv, ThreadInv, ControlInv
  <2> QED BY <2>1, <2>2 DEF IInv, ControlInv, OneController
<1> QED BY <1>1, Controlled, PTL
-----------------------------------------------------------------------------
(* Lines cut out of what was read. *)

\* A set of numbers that is not empty has a least one.
LEMMA HasLeast ==
  ASSUME NEW S \in SUBSET Nat, S # {}
  PROVE  Min(S) \in S /\ \A k \in S : Min(S) <= k
<1> DEFINE R == OpToRel(<, Nat)
<1>1. IsWellFoundedOn(R, Nat)
  BY NatLessThanWellFounded
<1> HIDE DEF R
<1>2. PICK m \in S : \A k \in S : <<k, m>> \notin R
  BY <1>1, WFMin
<1>3. \A k \in S : ~(k < m)
  <2>1. ASSUME NEW k \in S, k < m PROVE <<k, m>> \in R
    BY <2>1 DEF R, OpToRel
  <2> QED BY <1>2, <2>1
<1>4. \E least \in S : \A k \in S : least <= k
  BY <1>2, <1>3
<1> QED BY <1>4, Zenon DEF Min

\* The first line of a buffer ends where no earlier one does.
LEMMA FirstEnd ==
  ASSUME NEW b \in Seq(Piece), LineEnds(b) # {}
  PROVE  /\ Min(LineEnds(b)) \in 1..Len(b) /\ b[Min(LineEnds(b))] # "part"
         /\ \A k \in LineEnds(b) : Min(LineEnds(b)) <= k
<1>1. LineEnds(b) \in SUBSET Nat /\ LineEnds(b) \subseteq 1..Len(b)
  BY DEF LineEnds
<1>2. Min(LineEnds(b)) \in LineEnds(b) /\ \A k \in LineEnds(b) : Min(LineEnds(b)) <= k
  BY <1>1, HasLeast
<1>3. \A k \in LineEnds(b) : b[k] # "part"
  BY DEF LineEnds
<1> QED BY <1>1, <1>2, <1>3

LEMMA LineTyped ==
  ASSUME NEW b \in Seq(Piece)
  PROVE  AfterLine(b) \in Seq(Piece) /\ (LineEnds(b) # {} => FirstLine(b) \in Piece)
<1>1. CASE LineEnds(b) = {}
  BY <1>1 DEF AfterLine
<1>2. CASE LineEnds(b) # {}
  <2> DEFINE n == Min(LineEnds(b))
  <2>1. n \in 1..Len(b)
    BY <1>2, FirstEnd
  <2>2. AfterLine(b) = SubSeq(b, n + 1, Len(b)) /\ FirstLine(b) = b[n]
    BY <1>2 DEF AfterLine, FirstLine
  <2> HIDE DEF n
  <2>3. SubSeq(b, n + 1, Len(b)) \in Seq(Piece) /\ b[n] \in Piece
    <3>1. \A i \in n + 1..Len(b) : b[i] \in Piece
      BY <2>1
    <3> QED BY <2>1, <3>1, SubSeqProperties, ElementOfSeq
  <2> QED BY <2>2, <2>3
<1> QED BY <1>1, <1>2

\* What is left of a sequence after its first n elements.
LEMMA RestOfSeq ==
  ASSUME NEW b \in Seq(Piece), NEW n \in 0..Len(b)
  PROVE  /\ SubSeq(b, n + 1, Len(b)) \in Seq(Piece)
         /\ Len(SubSeq(b, n + 1, Len(b))) = Len(b) - n
         /\ \A i \in 1..Len(b) - n : SubSeq(b, n + 1, Len(b))[i] = b[n + i]
<1>1. \A i \in n + 1..Len(b) : b[i] \in Piece
  OBVIOUS
<1>2. n + 1 \in Int /\ Len(b) \in Int
  OBVIOUS
<1>3. /\ SubSeq(b, n + 1, Len(b)) \in Seq(Piece)
      /\ Len(SubSeq(b, n + 1, Len(b))) = IF n + 1 <= Len(b) THEN Len(b) - (n + 1) + 1 ELSE 0
      /\ \A i \in 1..Len(b) - (n + 1) + 1 : SubSeq(b, n + 1, Len(b))[i] = b[n + 1 + i - 1]
  BY <1>1, <1>2, SubSeqProperties
<1> QED BY <1>3

\* A complete line is cut out of the same place whether what follows was read or not.
LEMMA AfterLineJoined ==
  ASSUME NEW b \in Seq(Piece), NEW s \in Seq(Piece), LineEnds(b) # {}
  PROVE  AfterLine(b \o s) = AfterLine(b) \o s
<1> DEFINE n == Min(LineEnds(b))
           m == Min(LineEnds(b \o s))
<1>1. /\ b \o s \in Seq(Piece) /\ Len(b \o s) = Len(b) + Len(s)
      /\ \A i \in 1..Len(b) + Len(s) : (b \o s)[i] = IF i <= Len(b) THEN b[i] ELSE s[i - Len(b)]
  BY ConcatProperties
<1>2. n \in 1..Len(b) /\ b[n] # "part" /\ \A k \in LineEnds(b) : n <= k
  BY FirstEnd
<1>3. n \in LineEnds(b \o s)
  BY <1>1, <1>2 DEF LineEnds
<1>4. m \in 1..Len(b \o s) /\ (b \o s)[m] # "part" /\ \A k \in LineEnds(b \o s) : m <= k
  BY <1>1, <1>3, FirstEnd
<1>5. AfterLine(b \o s) = SubSeq(b \o s, m + 1, Len(b \o s)) /\ AfterLine(b) = SubSeq(b, n + 1, Len(b))
  BY <1>3 DEF AfterLine
<1> HIDE DEF n, m
<1>6. m <= n
  BY <1>3, <1>4
<1>7. m \in LineEnds(b)
  BY <1>1, <1>2, <1>4, <1>6 DEF LineEnds
<1>8. m = n
  BY <1>2, <1>4, <1>6, <1>7
<1> DEFINE t == SubSeq(b, n + 1, Len(b))
<1>9. /\ t \in Seq(Piece) /\ Len(t) = Len(b) - n
      /\ \A i \in 1..Len(b) - n : t[i] = b[n + i]
  BY <1>2, RestOfSeq
<1> DEFINE u == SubSeq(b \o s, n + 1, Len(b \o s))
<1>10. /\ u \in Seq(Piece) /\ Len(u) = Len(b \o s) - n
       /\ \A i \in 1..Len(b \o s) - n : u[i] = (b \o s)[n + i]
  <2>1. n \in 0..Len(b \o s)
    BY <1>1, <1>2
  <2> QED BY <1>1, <2>1, RestOfSeq, Zenon
<1> HIDE DEF t, u
<1>11. t \o s \in Seq(Piece) /\ Len(t \o s) = Len(t) + Len(s)
       /\ \A i \in 1..Len(t) + Len(s) : (t \o s)[i] = IF i <= Len(t) THEN t[i] ELSE s[i - Len(t)]
  BY <1>9, ConcatProperties
<1>12. ASSUME NEW i \in 1..Len(u) PROVE u[i] = (t \o s)[i]
  <2>1. CASE i <= Len(b) - n
    <3> DEFINE k == n + i
    <3>1. u[i] = (b \o s)[k] /\ k \in 1..Len(b) + Len(s) /\ k <= Len(b)
      BY <2>1, <1>2, <1>10
    <3>2. i \in 1..Len(t) + Len(s) /\ i <= Len(t) /\ t[i] = b[k]
      BY <2>1, <1>2, <1>9, <1>10
    <3> HIDE DEF k
    <3>3. (b \o s)[k] = b[k]
      BY <3>1, <1>1, Zenon
    <3>4. (t \o s)[i] = t[i]
      BY <3>2, <1>11, Zenon
    <3> QED BY <3>1, <3>2, <3>3, <3>4, Zenon
  <2>2. CASE i > Len(b) - n
    <3> DEFINE k == n + i
    <3>1. u[i] = (b \o s)[k] /\ k \in 1..Len(b) + Len(s) /\ ~(k <= Len(b))
      BY <2>2, <1>2, <1>10
    <3> HIDE DEF k
    <3>2. u[i] = s[k - Len(b)]
      <4>1. (b \o s)[k] = s[k - Len(b)]
        BY <3>1, <1>1, Zenon
      <4> QED BY <3>1, <4>1, Zenon
    <3>3. (t \o s)[i] = s[i - Len(t)]
      <4>1. i \in 1..Len(t) + Len(s) /\ ~(i <= Len(t))
        BY <2>2, <1>2, <1>9, <1>10
      <4> QED BY <4>1, <1>11, Zenon
    <3>4. i - Len(t) = k - Len(b)
      BY <1>2, <1>9, <1>10 DEF k
    <3> QED BY <3>2, <3>3, <3>4, Zenon
  <2>3. i <= Len(b) - n \/ i > Len(b) - n
    BY <1>2, <1>10
  <2> QED BY <2>1, <2>2, <2>3, Zenon
<1>13. Len(u) = Len(t \o s)
  BY <1>2, <1>9, <1>10, <1>11
<1>14. u = t \o s
  BY <1>10, <1>11, <1>12, <1>13, SeqEqual
<1> QED BY <1>1, <1>5, <1>8, <1>14 DEF t, u
-----------------------------------------------------------------------------
(* What the buffers, the sockets and the clients hold. *)

\* The connections without their marks, and what the clients wrote: pieces.
StoreInv ==
  /\ \A f \in Connected : Owner(f) \in Client /\ Buffer(f) \in Seq(Piece)
  /\ phase \in [Client -> {"new", "waiting", "connected", "closed", "gone"}]
  /\ stream \in [Client -> Seq(Piece)] /\ owed \in [Client -> Seq(Piece)]

\* Every connection is another client's, who is past connect(); of a client that is
\* not, everything is still in the socket; and of the others, what was read and not
\* processed comes before what was not read.
OwnersInv ==
  /\ \A f, g \in Connected : Owner(f) = Owner(g) => f = g
  /\ \A f \in Connected : phase[Owner(f)] \in {"connected", "closed", "gone"}
OwedInv ==
  /\ \A c \in Client : phase[c] \in {"new", "waiting"} => owed[c] = stream[c]
  /\ \A f \in Connected : phase[Owner(f)] # "gone" => owed[Owner(f)] = Buffer(f) \o stream[Owner(f)]

\* notifyPosition() holds m_mutex for as long as it has connections to write to, so
\* none of them goes away.
PositionInv ==
  /\ position = [todo |-> position.todo, fd |-> position.fd]
  /\ position.todo \subseteq Connected /\ position.fd \in position.todo \cup {NoFd}
  /\ position # Silent => m_mutex = "position"
  /\ m_mutex \in {"free", "position"}
-----------------------------------------------------------------------------
(* Connections as the owners and buffers they have. *)

\* A step that changes the buffer of one connection.
LEMMA BufferSet ==
  ASSUME ControlInv, NEW fd \in Connected, NEW b,
         m_connections' = [m_connections EXCEPT ![fd].buffer = b]
  PROVE  /\ Connected' = Connected
         /\ \A f \in Connected : Owner(f)' = Owner(f) /\ Buffer(f)' = IF f = fd THEN b ELSE Buffer(f)
<1> DEFINE k == m_connections[fd].client  h == m_connections[fd].isControl  old == m_connections[fd].buffer
<1>1. Connected' = Connected
  BY DEF Connected
<1>2. m_connections[fd] = [client |-> k, isControl |-> h, buffer |-> old]
  <2>1. m_connections[fd] = [client |-> Owner(fd), isControl |-> (fd = m_controlFd), buffer |-> Buffer(fd)]
    BY Zenon DEF ControlInv
  <2>2. h = (fd = m_controlFd)
    BY <2>1
  <2> QED BY <2>1, <2>2, Zenon DEF Owner, Buffer
<1>3. m_connections'[fd] = [client |-> k, isControl |-> h, buffer |-> b]
  <2>1. m_connections'[fd] = [m_connections[fd] EXCEPT !.buffer = b]
    BY DEF ControlInv
  <2> HIDE DEF k, h, old
  <2>2. [[client |-> k, isControl |-> h, buffer |-> old] EXCEPT !.buffer = b]
        = [client |-> k, isControl |-> h, buffer |-> b]
    OBVIOUS
  <2> QED BY <1>2, <2>1, <2>2, Zenon
<1>4. m_connections'[fd].client = k /\ m_connections'[fd].buffer = b
  BY <1>3
<1>5. \A f \in Connected : f # fd => m_connections'[f] = m_connections[f]
  BY DEF ControlInv
<1>6. Owner(fd)' = Owner(fd) /\ Buffer(fd)' = b
  BY <1>4, Zenon DEF Owner, Buffer, k
<1>7. \A f \in Connected : f # fd => Owner(f)' = Owner(f) /\ Buffer(f)' = Buffer(f)
  BY <1>5, Zenon DEF Owner, Buffer
<1> QED BY <1>1, <1>6, <1>7, Zenon

\* One that gives or takes the mark of control.
LEMMA MarkSet ==
  ASSUME ControlInv, NEW fd \in Connected, NEW mark,
         m_connections' = [m_connections EXCEPT ![fd].isControl = mark]
  PROVE  /\ Connected' = Connected
         /\ \A f \in Connected : Owner(f)' = Owner(f) /\ Buffer(f)' = Buffer(f)
<1> DEFINE k == m_connections[fd].client  h == m_connections[fd].isControl  b == m_connections[fd].buffer
<1>1. Connected' = Connected
  BY DEF Connected
<1>2. m_connections[fd] = [client |-> k, isControl |-> h, buffer |-> b]
  <2>1. m_connections[fd] = [client |-> Owner(fd), isControl |-> (fd = m_controlFd), buffer |-> Buffer(fd)]
    BY Zenon DEF ControlInv
  <2>2. h = (fd = m_controlFd)
    BY <2>1
  <2> QED BY <2>1, <2>2, Zenon DEF Owner, Buffer
<1>3. m_connections'[fd] = [client |-> k, isControl |-> mark, buffer |-> b]
  <2>1. m_connections'[fd] = [m_connections[fd] EXCEPT !.isControl = mark]
    BY DEF ControlInv
  <2> HIDE DEF k, h, b
  <2>2. [[client |-> k, isControl |-> h, buffer |-> b] EXCEPT !.isControl = mark]
        = [client |-> k, isControl |-> mark, buffer |-> b]
    OBVIOUS
  <2> QED BY <1>2, <2>1, <2>2, Zenon
<1>4. m_connections'[fd].client = k /\ m_connections'[fd].buffer = b
  BY <1>3
<1>5. \A f \in Connected : f # fd => m_connections'[f] = m_connections[f]
  BY DEF ControlInv
<1>6. Owner(fd)' = Owner(fd) /\ Buffer(fd)' = Buffer(fd)
  BY <1>4, Zenon DEF Owner, Buffer, k, b
<1>7. \A f \in Connected : f # fd => Owner(f)' = Owner(f) /\ Buffer(f)' = Buffer(f)
  BY <1>5, Zenon DEF Owner, Buffer
<1> QED BY <1>1, <1>6, <1>7, Zenon

\* One that removes a connection.
LEMMA ConnectionDropped ==
  ASSUME NEW fd \in Connected, m_connections' = Restrict(m_connections, Connected \ {fd})
  PROVE  /\ Connected' = Connected \ {fd}
         /\ \A f \in Connected' : Owner(f)' = Owner(f) /\ Buffer(f)' = Buffer(f)
<1>1. /\ m_connections' = [f \in Connected \ {fd} |-> m_connections[f]]
      /\ Connected' = Connected \ {fd}
  BY DEF Restrict, Connected
<1>2. \A f \in Connected' : m_connections'[f] = m_connections[f]
  BY <1>1
<1> QED BY <1>1, <1>2, Zenon DEF Owner, Buffer

-----------------------------------------------------------------------------
(* What the clients wrote is kept in order. *)

Books == StoreInv /\ OwnersInv /\ OwedInv

\* Clients come and go, are closed or are told nothing: nothing is read or processed.
LEMMA ClientsMove ==
  ASSUME Books, Connected' \subseteq Connected,
         \A f \in Connected' : Owner(f)' = Owner(f) /\ Buffer(f)' = Buffer(f),
         stream' = stream,
         phase' \in [Client -> {"new", "waiting", "connected", "closed", "gone"}],
         owed' \in [Client -> Seq(Piece)],
         \A c \in Client : \/ phase'[c] = "gone"
                           \/ /\ owed'[c] = owed[c]
                              /\ \/ phase'[c] = phase[c]
                                 \/ {phase[c], phase'[c]} \subseteq {"new", "waiting"}
                                 \/ {phase[c], phase'[c]} \subseteq {"connected", "closed"}
  PROVE  Books'
<1>1. StoreInv'
  BY DEF Books, StoreInv
<1>2. OwnersInv'
  <2>1. \A f, g \in Connected' : Owner(f)' = Owner(g)' => f = g
    BY DEF Books, OwnersInv
  <2>2. ASSUME NEW f \in Connected'
        PROVE  phase'[Owner(f)'] \in {"connected", "closed", "gone"}
    <3>1. /\ Owner(f)' = Owner(f) /\ Owner(f) \in Client
          /\ phase[Owner(f)] \in {"connected", "closed", "gone"}
      BY DEF Books, OwnersInv, StoreInv
    <3> QED BY <3>1
  <2> QED BY <2>1, <2>2 DEF OwnersInv
<1>3. \A c \in Client : phase'[c] \in {"new", "waiting"} => owed'[c] = stream'[c]
  BY DEF Books, OwedInv
<1>4. \A f \in Connected' : phase'[Owner(f)'] # "gone" => owed'[Owner(f)'] = Buffer(f)' \o stream'[Owner(f)']
  <2> SUFFICES ASSUME NEW f \in Connected', phase'[Owner(f)'] # "gone"
               PROVE  owed'[Owner(f)'] = Buffer(f)' \o stream'[Owner(f)']
    OBVIOUS
  <2>1. f \in Connected /\ Owner(f)' = Owner(f) /\ Buffer(f)' = Buffer(f) /\ Owner(f) \in Client
    BY DEF Books, StoreInv
  <2>2. owed'[Owner(f)] = owed[Owner(f)] /\ phase[Owner(f)] # "gone"
    BY <2>1 DEF Books, OwnersInv
  <2> QED BY <2>1, <2>2 DEF Books, OwedInv
<1> QED BY <1>1, <1>2, <1>3, <1>4 DEF Books, OwedInv

LEMMA PiecesAssociative ==
  ASSUME NEW s \in Seq(Piece), NEW t \in Seq(Piece), NEW u \in Seq(Piece)
  PROVE  (s \o t) \o u = s \o (t \o u)
BY ConcatAssociative

\* A client writes: one piece more in its socket, and one more it is owed.
LEMMA WriteBooked ==
  ASSUME Books, NEW c \in Client, NEW p \in Sends[c], Write(c, p)
  PROVE  Books'
<1>1. p \in Piece
  BY IPCServerAssumption
<1>2. /\ UNCHANGED <<m_connections, phase>>
      /\ stream' = [stream EXCEPT ![c] = Append(@, p)] /\ owed' = [owed EXCEPT ![c] = Append(@, p)]
  BY DEF Write, server
<1>3. Connected' = Connected /\ \A f \in Connected : Owner(f)' = Owner(f) /\ Buffer(f)' = Buffer(f)
  BY <1>2 DEF Connected, Owner, Buffer
<1>4. Append(stream[c], p) \in Seq(Piece) /\ Append(owed[c], p) \in Seq(Piece)
  BY <1>1, AppendProperties DEF Books, StoreInv
<1>5. StoreInv'
  BY <1>2, <1>3, <1>4 DEF Books, StoreInv
<1>6. OwnersInv'
  BY <1>2, <1>3 DEF Books, OwnersInv
<1>7. \A d \in Client : phase'[d] \in {"new", "waiting"} => owed'[d] = stream'[d]
  BY <1>2 DEF Books, OwedInv, StoreInv
<1>8. \A f \in Connected' : phase'[Owner(f)'] # "gone" => owed'[Owner(f)'] = Buffer(f)' \o stream'[Owner(f)']
  <2> SUFFICES ASSUME NEW f \in Connected, phase[Owner(f)] # "gone"
               PROVE  owed'[Owner(f)] = Buffer(f) \o stream'[Owner(f)]
    BY <1>2, <1>3
  <2>1. owed[Owner(f)] = Buffer(f) \o stream[Owner(f)] /\ Owner(f) \in Client /\ Buffer(f) \in Seq(Piece)
    BY DEF Books, StoreInv, OwedInv
  <2>2. CASE Owner(f) # c
    BY <1>2, <2>1, <2>2 DEF Books, StoreInv
  <2>3. CASE Owner(f) = c
    <3>1. stream'[c] = stream[c] \o <<p>> /\ owed'[c] = owed[c] \o <<p>>
      BY <1>1, <1>2, AppendIsConcat DEF Books, StoreInv
    <3>2. stream[c] \in Seq(Piece) /\ <<p>> \in Seq(Piece)
      BY <1>1 DEF Books, StoreInv
    <3>3. (Buffer(f) \o stream[c]) \o <<p>> = Buffer(f) \o (stream[c] \o <<p>>)
      BY <2>1, <3>2, PiecesAssociative
    <3> QED BY <2>1, <2>3, <3>1, <3>3
  <2> QED BY <2>2, <2>3
<1> QED BY <1>5, <1>6, <1>7, <1>8 DEF Books, OwedInv

\* A client is accepted: nothing of it was read yet.
LEMMA AcceptBooked ==
  ASSUME Books, ControlInv, NEW c \in Client, Accept(c)
  PROVE  Books'
<1>1. PICK fd \in FreeFd :
        m_connections' = [f \in Connected \cup {fd} |->
             IF f = fd THEN [client |-> c, isControl |-> FALSE, buffer |-> <<>>] ELSE m_connections[f]]
  BY DEF Accept
<1>2. /\ phase[c] = "waiting" /\ phase' = [phase EXCEPT ![c] = "connected"]
      /\ UNCHANGED <<stream, owed>>
  BY DEF Accept, history
<1>3. fd \notin Connected /\ Connected' = Connected \cup {fd}
  BY <1>1 DEF FreeFd, Connected
<1>4. /\ m_connections'[fd] = [client |-> c, isControl |-> FALSE, buffer |-> <<>>]
      /\ \A f \in Connected : m_connections'[f] = m_connections[f]
  BY <1>1, <1>3
<1>5. /\ Owner(fd)' = c /\ Buffer(fd)' = <<>>
      /\ \A f \in Connected : Owner(f)' = Owner(f) /\ Buffer(f)' = Buffer(f)
  BY <1>4 DEF Owner, Buffer
<1>6. \A f \in Connected : Owner(f) \in Client /\ Owner(f) # c
  BY <1>2 DEF Books, StoreInv, OwnersInv
<1>7. StoreInv'
  <2>1. <<>> \in Seq(Piece)
    OBVIOUS
  <2>2. \A f \in Connected' : Owner(f)' \in Client /\ Buffer(f)' \in Seq(Piece)
    BY <1>3, <1>5, <2>1 DEF Books, StoreInv
  <2>3. phase' \in [Client -> {"new", "waiting", "connected", "closed", "gone"}]
    BY <1>2 DEF Books, StoreInv
  <2> QED BY <1>2, <2>2, <2>3 DEF Books, StoreInv
<1>8. OwnersInv'
  <2>1. \A f, g \in Connected' : Owner(f)' = Owner(g)' => f = g
    BY <1>3, <1>5, <1>6 DEF Books, OwnersInv
  <2>2. \A f \in Connected' : phase'[Owner(f)'] \in {"connected", "closed", "gone"}
    BY <1>2, <1>3, <1>5, <1>6 DEF Books, OwnersInv, StoreInv
  <2> QED BY <2>1, <2>2 DEF OwnersInv
<1>9. \A d \in Client : phase'[d] \in {"new", "waiting"} => owed'[d] = stream'[d]
  BY <1>2 DEF Books, OwedInv, StoreInv
<1>10. ASSUME NEW f \in Connected', phase'[Owner(f)'] # "gone"
       PROVE  owed'[Owner(f)'] = Buffer(f)' \o stream'[Owner(f)']
  <2>1. CASE f = fd
    <3>1. owed[c] = stream[c] /\ stream[c] \in Seq(Piece)
      BY <1>2 DEF Books, OwedInv, StoreInv
    <3>2. <<>> \o stream[c] = stream[c]
      BY <3>1, ConcatEmptySeq
    <3> QED BY <1>2, <1>5, <2>1, <3>1, <3>2
  <2>2. CASE f \in Connected
    <3>1. phase[Owner(f)] # "gone" /\ owed[Owner(f)] = Buffer(f) \o stream[Owner(f)]
      BY <1>2, <1>5, <1>6, <1>10, <2>2 DEF Books, OwedInv, StoreInv
    <3> QED BY <1>2, <1>5, <2>2, <3>1
  <2> QED BY <1>3, <2>1, <2>2
<1> QED BY <1>7, <1>8, <1>9, <1>10 DEF Books, OwedInv

\* The smaller of two numbers.
LEMMA MinOfTwo ==
  ASSUME NEW a \in Nat, NEW b \in Nat
  PROVE  Min({a, b}) \in Nat /\ Min({a, b}) <= a /\ Min({a, b}) <= b
<1>1. {a, b} \in SUBSET Nat /\ {a, b} # {}
  OBVIOUS
<1>2. Min({a, b}) \in {a, b} /\ \A k \in {a, b} : Min({a, b}) <= k
  BY <1>1, HasLeast
<1> QED BY <1>2

\* What is read goes to the end of the buffer, in front of what was not.
LEMMA ReadBooked ==
  ASSUME Books, ControlInv, NEW fd \in Connected, Read(fd)
  PROVE  Books'
<1> DEFINE c == Owner(fd)
           n == Min({ReadSize, Len(stream[c])})
           data == SubSeq(stream[c], 1, n)
           rest == SubSeq(stream[c], n + 1, Len(stream[c]))
           b == Joined(m_connections[fd].buffer, data)
<1>1. /\ m_connections' = [m_connections EXCEPT ![fd].buffer = b]
      /\ stream' = [stream EXCEPT ![c] = rest]
      /\ UNCHANGED <<phase, owed>>
  BY DEF Read, history
<1>2. /\ c \in Client /\ Buffer(fd) \in Seq(Piece) /\ stream[c] \in Seq(Piece)
      /\ b = Buffer(fd) \o data
  BY DEF Books, StoreInv, Joined, Buffer
<1>3. n \in 0..Len(stream[c])
  <2> HIDE DEF c
  <2>1. ReadSize \in Nat /\ Len(stream[c]) \in Nat
    BY <1>2, IPCServerAssumption
  <2> QED BY <2>1, MinOfTwo
<1>4. data \in Seq(Piece) /\ rest \in Seq(Piece) /\ data \o rest = stream[c]
  <2> HIDE DEF n, c
  <2>1. \A i \in 1..n : stream[c][i] \in Piece
    BY <1>2, <1>3
  <2>2. data \in Seq(Piece)
    BY <1>2, <1>3, <2>1, SubSeqProperties
  <2>3. rest \in Seq(Piece)
    BY <1>2, <1>3, RestOfSeq
  <2>4. data \o rest = SubSeq(stream[c], 1, Len(stream[c]))
    <3>1. 1 \in 1..Len(stream[c]) + 1 /\ n \in 1 - 1..Len(stream[c]) /\ Len(stream[c]) \in n..Len(stream[c])
      BY <1>2, <1>3
    <3> QED BY <1>2, <3>1, ConcatAdjacentSubSeq, Zenon
  <2>5. SubSeq(stream[c], 1, Len(stream[c])) = stream[c]
    BY <1>2, SubSeqFull
  <2> QED BY <2>2, <2>3, <2>4, <2>5
<1> HIDE DEF n, data, rest, b
<1>5. Connected' = Connected /\ \A f \in Connected : Owner(f)' = Owner(f) /\ Buffer(f)' = IF f = fd THEN b ELSE Buffer(f)
  BY <1>1, BufferSet
<1>6. b \in Seq(Piece)
  BY <1>2, <1>4, ConcatProperties
<1>7. StoreInv'
  BY <1>1, <1>2, <1>4, <1>5, <1>6 DEF Books, StoreInv
<1>8. OwnersInv'
  BY <1>1, <1>5 DEF Books, OwnersInv
<1>9. \A d \in Client : phase'[d] \in {"new", "waiting"} => owed'[d] = stream'[d]
  <2>1. phase[c] \notin {"new", "waiting"}
    BY DEF Books, OwnersInv
  <2> HIDE DEF c
  <2> QED BY <1>1, <1>2, <2>1 DEF Books, OwedInv, StoreInv
<1>10. ASSUME NEW f \in Connected, phase[Owner(f)] # "gone"
       PROVE  owed[Owner(f)] = Buffer(f)' \o stream'[Owner(f)]
  <2>1. owed[Owner(f)] = Buffer(f) \o stream[Owner(f)] /\ Owner(f) \in Client
    BY <1>10 DEF Books, OwedInv, StoreInv
  <2>2. CASE f = fd
    <3>1. Buffer(f)' = Buffer(fd) \o data /\ stream'[c] = rest
      BY <1>1, <1>2, <1>5, <2>2 DEF Books, StoreInv
    <3>2. (Buffer(fd) \o data) \o rest = Buffer(fd) \o (data \o rest)
      BY <1>2, <1>4, PiecesAssociative
    <3> QED BY <1>4, <2>1, <2>2, <3>1, <3>2
  <2>3. CASE f # fd
    <3>1. Owner(f) # c
      BY <2>3 DEF Books, OwnersInv
    <3>2. stream'[Owner(f)] = stream[Owner(f)]
      BY <1>1, <2>1, <3>1 DEF Books, StoreInv
    <3> QED BY <1>5, <2>1, <2>3, <3>2
  <2> QED BY <2>2, <2>3
<1>11. \A f \in Connected' : phase'[Owner(f)'] # "gone" => owed'[Owner(f)'] = Buffer(f)' \o stream'[Owner(f)']
  BY <1>1, <1>5, <1>10
<1> QED BY <1>7, <1>8, <1>9, <1>11 DEF Books, OwedInv

\* A line is cut out of the buffer: the client is owed one line less.
LEMMA LineBooked ==
  ASSUME Books, ControlInv, ipc.fd \in Connected, Line
  PROVE  Books'
<1> DEFINE fd == ipc.fd
           c == Owner(fd)
           b == AfterLine(m_connections[fd].buffer)
<1>1. /\ m_connections' = [m_connections EXCEPT ![fd].buffer = b]
      /\ owed' = [owed EXCEPT ![c] = AfterLine(@)]
      /\ UNCHANGED <<phase, stream>> /\ LineEnds(Buffer(fd)) # {}
  BY DEF Line, clients
<1>2. /\ c \in Client /\ Buffer(fd) \in Seq(Piece) /\ stream[c] \in Seq(Piece) /\ owed[c] \in Seq(Piece)
      /\ b = AfterLine(Buffer(fd)) /\ fd \in Connected
  BY DEF Books, StoreInv, Buffer
<1> HIDE DEF b, fd
<1>3. Connected' = Connected /\ \A f \in Connected : Owner(f)' = Owner(f) /\ Buffer(f)' = IF f = fd THEN b ELSE Buffer(f)
  BY <1>1, <1>2, BufferSet
<1>4. b \in Seq(Piece) /\ AfterLine(owed[c]) \in Seq(Piece)
  BY <1>2, LineTyped
<1>5. StoreInv'
  BY <1>1, <1>2, <1>3, <1>4 DEF Books, StoreInv
<1>6. OwnersInv'
  BY <1>1, <1>3 DEF Books, OwnersInv
<1>7. \A d \in Client : phase'[d] \in {"new", "waiting"} => owed'[d] = stream'[d]
  <2>1. phase[c] \notin {"new", "waiting"}
    BY <1>2 DEF Books, OwnersInv
  <2> HIDE DEF c
  <2> QED BY <1>1, <1>2, <2>1 DEF Books, OwedInv, StoreInv
<1>8. ASSUME NEW f \in Connected, phase[Owner(f)] # "gone"
      PROVE  owed'[Owner(f)] = Buffer(f)' \o stream[Owner(f)]
  <2>1. owed[Owner(f)] = Buffer(f) \o stream[Owner(f)] /\ Owner(f) \in Client
    BY <1>8 DEF Books, OwedInv, StoreInv
  <2>2. CASE f = fd
    <3>1. owed'[c] = AfterLine(Buffer(fd) \o stream[c]) /\ Buffer(f)' = AfterLine(Buffer(fd))
      BY <1>1, <1>2, <1>3, <2>1, <2>2 DEF Books, StoreInv
    <3>2. AfterLine(Buffer(fd) \o stream[c]) = AfterLine(Buffer(fd)) \o stream[c]
      BY <1>1, <1>2, AfterLineJoined
    <3> QED BY <2>2, <3>1, <3>2
  <2>3. CASE f # fd
    <3>1. Owner(f) # c
      BY <1>2, <2>3 DEF Books, OwnersInv
    <3>2. owed'[Owner(f)] = owed[Owner(f)]
      BY <1>1, <2>1, <3>1 DEF Books, StoreInv
    <3> QED BY <1>3, <2>1, <2>3, <3>2
  <2> QED BY <2>2, <2>3
<1>9. \A f \in Connected' : phase'[Owner(f)'] # "gone" => owed'[Owner(f)'] = Buffer(f)' \o stream'[Owner(f)']
  BY <1>1, <1>3, <1>8
<1> QED BY <1>5, <1>6, <1>7, <1>9 DEF Books, OwedInv

\* The steps that change connections, or what their clients wrote.
LEMMA BookSteps ==
  ASSUME [Next]_vars
  PROVE  \/ UNCHANGED <<m_connections, phase, stream, owed>>
         \/ \E c \in Client : Connect(c) \/ Close(c) \/ Accept(c) \/ \E p \in Sends[c] : Write(c, p)
         \/ AddFails \/ Refuse \/ NoLine \/ Line \/ Acquire \/ Release \/ JoinIpc
         \/ \E fd \in Fd : Read(fd) \/ EndOfStream(fd)
<1>1. CASE EventLoop
  <2>1. Wait \/ Add \/ AcceptEnds \/ Permission \/ Answer \/ Notify \/ LoopEnds
        => UNCHANGED <<m_connections, phase, stream, owed>>
    BY DEF Wait, Add, AcceptEnds, Permission, Answer, Notify, LoopEnds, server, clients, history
  <2> QED BY <1>1, <2>1 DEF EventLoop
<1>2. CASE ClientStep
  BY <1>2 DEF ClientStep
<1>3. CASE JoinIpc
  BY <1>3
<1>4. CASE \/ TrackEnds \/ AudioSticks \/ AudioThread \/ Tick \/ PositionThread \/ Signal \/ Handler
           \/ StartThreads \/ MainLoop \/ StopEngine \/ StopTarget \/ StopIpc \/ JoinThreads \/ Exit \/ Destroyed
           \/ UNCHANGED vars
  BY <1>4 DEF TrackEnds, AudioSticks, AudioThread, TrackEndTold, AudioEnds, Tick, PositionBegins, Handler,
         PositionThread, Ticking, TickerEnds, PositionText, PositionNewline, PositionEnds, Signal, StartThreads,
         MainLoop, StopEngine, StopTarget, StopIpc, JoinThreads, Exit, Destroyed,
         vars, ipcVars, server, loop, threads, clients, history
<1> QED BY <1>1, <1>2, <1>3, <1>4 DEF Next, ServerThread, MainThread, Ipc

\* A connection is removed, and its client is told.
LEMMA RemovedBooked ==
  ASSUME Books, NEW fd \in Connected, Removed(fd), stream' = stream,
         owed' = owed \/ owed' = [owed EXCEPT ![Owner(fd)] = <<>>]
  PROVE  Books'
<1>1. /\ m_connections' = Restrict(m_connections, Connected \ {fd})
      /\ phase' = [phase EXCEPT ![Owner(fd)] = "gone"]
  BY DEF Removed
<1>2. Connected' \subseteq Connected /\ \A f \in Connected' : Owner(f)' = Owner(f) /\ Buffer(f)' = Buffer(f)
  BY <1>1, ConnectionDropped
<1>3. phase' \in [Client -> {"new", "waiting", "connected", "closed", "gone"}] /\ owed' \in [Client -> Seq(Piece)]
  <2>1. <<>> \in Seq(Piece)
    OBVIOUS
  <2> QED BY <1>1, <2>1 DEF Books, StoreInv
<1>4. \A c \in Client : phase'[c] = "gone" \/ (owed'[c] = owed[c] /\ phase'[c] = phase[c])
  BY <1>1 DEF Books, StoreInv
<1> QED BY <1>2, <1>3, <1>4, ClientsMove

LEMMA RefuseBooked ==
  ASSUME Books, ipc.fd \in Connected, Refuse
  PROVE  Books'
<1>1. m_connections' = Restrict(m_connections, Connected \ {ipc.fd}) /\ UNCHANGED <<stream, phase, owed>>
  BY DEF Refuse, clients, history
<1>2. Connected' \subseteq Connected /\ \A f \in Connected' : Owner(f)' = Owner(f) /\ Buffer(f)' = Buffer(f)
  BY <1>1, ConnectionDropped
<1> QED BY <1>1, <1>2, ClientsMove DEF Books, StoreInv

LEMMA AddFailsBooked ==
  ASSUME Books, ipc.fd \in Connected, AddFails
  PROVE  Books'
<1>1. /\ phase' = [phase EXCEPT ![Owner(ipc.fd)] = "gone"]
      /\ owed' = [owed EXCEPT ![Owner(ipc.fd)] = <<>>]
      /\ UNCHANGED <<m_connections, stream>>
  BY DEF AddFails, server
<1>2. Connected' \subseteq Connected /\ \A f \in Connected' : Owner(f)' = Owner(f) /\ Buffer(f)' = Buffer(f)
  BY <1>1 DEF Connected, Owner, Buffer
<1>3. phase' \in [Client -> {"new", "waiting", "connected", "closed", "gone"}] /\ owed' \in [Client -> Seq(Piece)]
  <2>1. <<>> \in Seq(Piece)
    OBVIOUS
  <2> QED BY <1>1, <2>1 DEF Books, StoreInv
<1>4. \A c \in Client : phase'[c] = "gone" \/ (owed'[c] = owed[c] /\ phase'[c] = phase[c])
  BY <1>1 DEF Books, StoreInv
<1> QED BY <1>1, <1>2, <1>3, <1>4, ClientsMove

\* Clients connect, or close their end.
LEMMA ComesOrGoes ==
  ASSUME Books, NEW c \in Client, Connect(c) \/ Close(c)
  PROVE  Books'
<1>1. /\ UNCHANGED <<m_connections, stream, owed>>
      /\ \/ phase[c] = "new" /\ phase' = [phase EXCEPT ![c] = "waiting"]
         \/ phase[c] = "connected" /\ phase' = [phase EXCEPT ![c] = "closed"]
  BY DEF Connect, Close, server, history
<1>2. Connected' \subseteq Connected /\ \A f \in Connected' : Owner(f)' = Owner(f) /\ Buffer(f)' = Buffer(f)
  BY <1>1 DEF Connected, Owner, Buffer
<1>3. phase' \in [Client -> {"new", "waiting", "connected", "closed", "gone"}] /\ owed' \in [Client -> Seq(Piece)]
  BY <1>1 DEF Books, StoreInv
<1>4. \A d \in Client : \/ phase'[d] = phase[d]
                        \/ {phase[d], phase'[d]} \subseteq {"new", "waiting"}
                        \/ {phase[d], phase'[d]} \subseteq {"connected", "closed"}
  BY <1>1 DEF Books, StoreInv
<1> QED BY <1>1, <1>2, <1>3, <1>4, ClientsMove

\* Control is asked for or given up.
LEMMA MarkBooked ==
  ASSUME Books, ControlInv, ipc.fd \in Connected, Acquire \/ Release
  PROVE  Books'
<1>1. /\ UNCHANGED <<phase, stream, owed>>
      /\ \/ m_connections' = m_connections
         \/ m_connections' = [m_connections EXCEPT ![ipc.fd].isControl = TRUE]
         \/ m_connections' = [m_connections EXCEPT ![ipc.fd].isControl = FALSE]
  BY DEF Acquire, Release
<1>2. Connected' \subseteq Connected /\ \A f \in Connected' : Owner(f)' = Owner(f) /\ Buffer(f)' = Buffer(f)
  <2>1. CASE m_connections' = m_connections
    BY <2>1 DEF Connected, Owner, Buffer
  <2>2. CASE m_connections' # m_connections
    BY <1>1, <2>2, MarkSet
  <2> QED BY <2>1, <2>2
<1> QED BY <1>1, <1>2, ClientsMove DEF Books, StoreInv

\* The server stops, and everyone who connected is gone.
LEMMA JoinBooked ==
  ASSUME Books, JoinIpc
  PROVE  Books'
<1>1. /\ m_connections' = <<>>
      /\ phase' = [c \in Client |-> IF phase[c] = "new" THEN "new" ELSE "gone"]
      /\ owed' = [c \in Client |-> <<>>] /\ stream' = [c \in Client |-> <<>>]
  BY DEF JoinIpc, AllClosed
<1>2. Connected' = {}
  BY <1>1 DEF Connected
<1>3. <<>> \in Seq(Piece)
  OBVIOUS
<1>4. StoreInv'
  BY <1>1, <1>2, <1>3 DEF StoreInv
<1>5. OwnersInv'
  BY <1>2 DEF OwnersInv
<1>6. OwedInv'
  BY <1>1, <1>2 DEF OwedInv
<1> QED BY <1>4, <1>5, <1>6 DEF Books

LEMMA BooksKept ==
  ASSUME Books, IInv, [Next]_vars
  PROVE  Books'
<1>1. ipc.fd \in Connected \/ ipc.todo \in {<<>>, <<"ended">>}
  BY DEF IInv, ThreadInv
<1>2. AddFails \/ Refuse \/ NoLine \/ Line \/ Acquire \/ Release => ipc.fd \in Connected
  BY <1>1 DEF AddFails, Refuse, NoLine, Line, Acquire, Release, At
<1>3. \A fd \in Fd : fd \in events => fd \in Connected
  BY IPCServerAssumption DEF IInv, EventsInv
<1>4. CASE UNCHANGED <<m_connections, phase, stream, owed>>
  <2>1. Connected' \subseteq Connected /\ \A f \in Connected' : Owner(f)' = Owner(f) /\ Buffer(f)' = Buffer(f)
    BY <1>4 DEF Connected, Owner, Buffer
  <2> QED BY <1>4, <2>1, ClientsMove DEF Books, StoreInv
<1>5. CASE \E c \in Client : Connect(c) \/ Close(c) \/ Accept(c) \/ \E p \in Sends[c] : Write(c, p)
  BY <1>5, ComesOrGoes, AcceptBooked, WriteBooked DEF IInv
<1>6. CASE AddFails
  BY <1>2, <1>6, AddFailsBooked
<1>7. CASE Refuse
  BY <1>2, <1>7, RefuseBooked
<1>8. CASE NoLine
  <2>1. CASE Removed(ipc.fd)
    <3>1. stream' = stream /\ (owed' = owed \/ owed' = [owed EXCEPT ![Owner(ipc.fd)] = <<>>])
      BY <1>8 DEF NoLine, history
    <3> QED BY <1>2, <1>8, <2>1, <3>1, RemovedBooked
  <2>2. CASE UNCHANGED <<m_connections, phase, owed, stream>>
    BY <1>4, <2>2
  <2> QED BY <1>8, <2>1, <2>2 DEF NoLine, history
<1>9. CASE Line
  BY <1>2, <1>9, LineBooked DEF IInv
<1>10. CASE Acquire \/ Release
  BY <1>2, <1>10, MarkBooked DEF IInv
<1>11. CASE JoinIpc
  BY <1>11, JoinBooked
<1>12. CASE \E fd \in Fd : Read(fd)
  <2>1. PICK fd \in Fd : Read(fd)
    BY <1>12
  <2>2. fd \in Connected
    BY <1>3, <2>1 DEF Read, Takes
  <2> QED BY <2>1, <2>2, ReadBooked DEF IInv
<1>13. CASE \E fd \in Fd : EndOfStream(fd)
  <2>1. PICK fd \in Fd : EndOfStream(fd)
    BY <1>13
  <2>2. fd \in Connected /\ stream' = stream /\ owed' = owed
    BY <1>3, <2>1 DEF EndOfStream, Takes
  <2> QED BY <2>1, <2>2, RemovedBooked DEF EndOfStream
<1> QED BY <1>4, <1>5, <1>6, <1>7, <1>8, <1>9, <1>10, <1>11, <1>12, <1>13, BookSteps

LEMMA InitBooks == Init => Books
<1> SUFFICES ASSUME Init PROVE Books
  OBVIOUS
<1>1. /\ m_connections = <<>> /\ phase = [c \in Client |-> "new"]
      /\ stream = [c \in Client |-> <<>>] /\ owed = [c \in Client |-> <<>>]
  BY DEF Init, IpcInit
<1>2. Connected = {} /\ <<>> \in Seq(Piece)
  BY <1>1 DEF Connected
<1>3. StoreInv
  BY <1>1, <1>2 DEF StoreInv
<1> QED BY <1>1, <1>2, <1>3 DEF Books, OwnersInv, OwedInv

THEOREM InBooks == Spec => []Books
<1>1. IInv /\ Books /\ [Next]_vars => Books'
  BY BooksKept
<1> QED BY <1>1, InitBooks, Controlled, PTL DEF Spec

\* However a client's stream is cut into reads, and whoever else connects, writes,
\* leaves or takes its descriptor later: the lines still to be processed are those it
\* wrote and nobody processed, whole and in order (handleReadable).
THEOREM OrderKept == Spec => []CommandsInOrder
<1>1. Books => CommandsInOrder
  BY DEF Books, OwedInv, CommandsInOrder
<1> QED BY <1>1, InBooks, PTL

-----------------------------------------------------------------------------
(* The position thread and the connections it writes to. *)

\* A connection comes or goes only while notifyPosition() does not hold the mutex.
LEMMA ConnectedSteps ==
  ASSUME IInv, [Next]_vars
  PROVE  Connected' = Connected \/ (m_mutex \in {"free", "main"} /\ UNCHANGED position /\ m_mutex' = "free")
<1>1. CASE UNCHANGED m_connections
  BY <1>1 DEF Connected
<1>2. CASE Acquire \/ Release \/ Line \/ \E fd \in Fd : Read(fd)
  BY <1>2 DEF Acquire, Release, Line, Read, Connected
<1>3. CASE Refuse \/ NoLine \/ (\E c \in Client : Accept(c)) \/ \E fd \in Fd : EndOfStream(fd)
  BY <1>1, <1>3 DEF Refuse, NoLine, Accept, EndOfStream, Removed
<1>4. CASE JoinIpc
  BY <1>4 DEF JoinIpc, AllClosed
<1>5. AddFails \/ (\E c \in Client : Connect(c) \/ Close(c) \/ \E p \in Sends[c] : Write(c, p))
      => UNCHANGED m_connections
  BY DEF AddFails, Connect, Close, Write, server
<1> QED BY <1>1, <1>2, <1>3, <1>4, <1>5, BookSteps

\* What becomes of the mutex and of the position thread.
LEMMA PositionSteps ==
  ASSUME [Next]_vars
  PROVE  \/ UNCHANGED <<position, m_mutex>>
         \/ UNCHANGED position /\ m_mutex \in {"free", "main"} /\ m_mutex' = "free"
         \/ PositionBegins \/ PositionNewline \/ PositionEnds \/ \E fd \in Fd : PositionText(fd)
<1>1. CASE EventLoop
  BY <1>1 DEF EventLoop, Wait, Accept, Add, AddFails, Refuse, AcceptEnds, Read, EndOfStream, Line, NoLine, Acquire,
         Release, Permission, Answer, Notify, LoopEnds, server
<1>2. CASE JoinIpc
  BY <1>2 DEF JoinIpc, AllClosed
<1>3. CASE Tick
  BY <1>3 DEF Tick
<1>4. CASE PositionThread
  BY <1>4 DEF PositionThread, Ticking, TickerEnds, ipcVars, server, threads
<1>5. CASE \/ ClientStep \/ TrackEnds \/ AudioSticks \/ AudioThread \/ Signal \/ Handler
           \/ StartThreads \/ MainLoop \/ StopEngine \/ StopTarget \/ StopIpc \/ JoinThreads \/ Exit \/ Destroyed
           \/ UNCHANGED vars
  BY <1>5 DEF ClientStep, Connect, Close, Write, TrackEnds, AudioSticks, AudioThread, TrackEndTold, AudioEnds, Handler,
         Signal, StartThreads, MainLoop, StopEngine, StopTarget, StopIpc, JoinThreads, Exit, Destroyed,
         vars, ipcVars, server, threads
<1> QED BY <1>1, <1>2, <1>3, <1>4, <1>5 DEF Next, ServerThread, MainThread, Ipc

LEMMA PositionKept ==
  ASSUME PositionInv, IInv, [Next]_vars
  PROVE  PositionInv'
<1> DEFINE todo == position.todo  at == position.fd
<1>1. position = [todo |-> todo, fd |-> at] /\ todo \subseteq Connected /\ at \in todo \cup {NoFd}
  BY DEF PositionInv
<1>2. (m_mutex \in {"free", "main"} => position = Silent) /\ m_mutex \in {"free", "position"}
  BY DEF PositionInv
<1>3. Silent.todo = {} /\ Silent.fd = NoFd /\ Silent = [todo |-> Silent.todo, fd |-> Silent.fd]
  BY DEF Silent
<1>4. CASE UNCHANGED position /\ m_mutex \in {"free", "main"} /\ m_mutex' = "free"
  BY <1>2, <1>3, <1>4 DEF PositionInv
<1>9. CASE UNCHANGED <<position, m_mutex>>
  <2>1. CASE position = Silent
    BY <1>2, <1>3, <1>9, <2>1 DEF PositionInv
  <2>2. CASE position # Silent
    <3>1. m_mutex = "position"
      BY <2>2 DEF PositionInv
    <3>2. Connected' = Connected
      BY <3>1, ConnectedSteps
    <3> QED BY <1>9, <3>1, <3>2 DEF PositionInv
  <2> QED BY <2>1, <2>2
<1>5. CASE PositionBegins
  <2>1. position' = [todo |-> Connected, fd |-> NoFd] /\ m_mutex' = "position" /\ Connected' = Connected
    BY <1>5 DEF PositionBegins, Connected
  <2> QED BY <2>1 DEF PositionInv
<1>6. CASE \E fd \in Fd : PositionText(fd)
  <2>1. PICK fd \in Fd : PositionText(fd)
    BY <1>6
  <2>2. fd \in todo /\ position' = [position EXCEPT !.fd = fd] /\ m_mutex' = m_mutex /\ Connected' = Connected
    BY <2>1 DEF PositionText, server, Connected
  <2> HIDE DEF todo, at
  <2>3. position' = [todo |-> todo, fd |-> fd]
    BY <1>1, <2>2
  <2>4. position # Silent
    BY <1>1, <1>3, <2>2 DEF todo
  <2> QED BY <1>1, <2>2, <2>3, <2>4 DEF PositionInv
<1>7. CASE PositionNewline
  <2>1. position' = [todo |-> todo \ {at}, fd |-> NoFd] /\ m_mutex' = m_mutex /\ Connected' = Connected /\ at # NoFd
    BY <1>7 DEF PositionNewline, server, Connected
  <2>2. position # Silent
    BY <1>3, <2>1
  <2> QED BY <1>1, <2>1, <2>2 DEF PositionInv
<1>8. CASE PositionEnds
  <2>1. position = Silent /\ position' = position /\ m_mutex' = "free" /\ Connected' = Connected
    BY <1>8 DEF PositionEnds, threads, Connected
  <2> QED BY <1>3, <2>1 DEF PositionInv
<1> QED BY <1>4, <1>5, <1>6, <1>7, <1>8, <1>9, PositionSteps

-----------------------------------------------------------------------------
(* Types. *)

Told == {"whole", "open", "mixed"}

\* What the IPC server's thread works on, how much was written, what was received.
ThreadTypes ==
  /\ ipc.fd \in Fd \cup {NoFd} /\ ipc.cmd \in Piece
  /\ serving \in BOOLEAN /\ written \in 0..MaxPieces
  /\ received \in [Client -> Told]
RendererTypes ==
  /\ m_running \in BOOLEAN /\ joinable \in BOOLEAN /\ playing \in BOOLEAN /\ target \in BOOLEAN
  /\ main \in MainPc
  /\ audio \in {"none", "loop", "drain", "stuck", "ended"} /\ ticker \in {"none", "loop", "ended"}

LEMMA TodosTyped == Todos \subseteq Seq(IpcStep)
<1>1. \A x, y, z \in IpcStep : /\ <<>> \in Seq(IpcStep) /\ <<x>> \in Seq(IpcStep) /\ <<x, y>> \in Seq(IpcStep)
                               /\ <<x, y, z>> \in Seq(IpcStep)
  OBVIOUS
<1>2. {"add", "refuse", "lines", "permission", "acquire", "release", "handler", "notify", "answer", "ended"}
      \subseteq IpcStep
  BY DEF IpcStep
<1>3. Commanding \subseteq Seq(IpcStep)
  BY <1>1, <1>2 DEF Commanding
<1>4. {<<>>, <<"add">>, <<"refuse">>, <<"ended">>, <<"lines">>, <<"answer", "lines">>} \subseteq Seq(IpcStep)
  BY <1>1, <1>2
<1>5. {<<"acquire", "lines">>, <<"release", "lines">>, <<"permission", "lines">>,
       <<"notify", "answer", "lines">>, <<"notify", "lines">>} \subseteq Seq(IpcStep)
  BY <1>1, <1>2
<1> QED BY <1>3, <1>4, <1>5, Zenon DEF Todos

\* The thread keeps its connection and command, takes another one, or is idle.
LEMMA IpcSteps ==
  ASSUME [Next]_vars
  PROVE  \/ ipc' = ipc \/ ipc' = Idle
         \/ \E next : ipc' = [ipc EXCEPT !.todo = next]
         \/ \E fd \in Fd : \E next : ipc' = [ipc EXCEPT !.fd = fd, !.todo = next]
         \/ Line
<1>1. CASE EventLoop
  <2>1. Wait => ipc' = ipc
    BY DEF Wait
  <2>2. Add \/ AcceptEnds \/ Refuse => ipc' = Idle
    BY DEF Add, AcceptEnds, Refuse, Leaves
  <2>3. NoLine \/ (\E fd \in Fd : EndOfStream(fd)) => ipc' = Idle
    BY DEF NoLine, EndOfStream, Removed, Leaves
  <2>4. AddFails \/ Permission \/ Answer \/ Notify \/ LoopEnds \/ Acquire \/ Release
        => \E next : ipc' = [ipc EXCEPT !.todo = next]
    BY Zenon DEF AddFails, Permission, Answer, Notify, LoopEnds, Acquire, Release, Done
  <2>5. (\E c \in Client : Accept(c)) => \E fd \in Fd : \E next : ipc' = [ipc EXCEPT !.fd = fd, !.todo = next]
    BY Zenon DEF Accept, FreeFd
  <2>6. (\E fd \in Fd : Read(fd)) => \E fd \in Fd : \E next : ipc' = [ipc EXCEPT !.fd = fd, !.todo = next]
    BY Zenon DEF Read
  <2> QED BY <1>1, <2>1, <2>2, <2>3, <2>4, <2>5, <2>6 DEF EventLoop
<1>2. CASE Handler
  BY <1>2, Zenon DEF Handler, Play, Stop, SelectTarget, Shutdown, Done
<1>3. CASE \/ ClientStep \/ TrackEnds \/ AudioSticks \/ AudioThread \/ Tick \/ PositionThread \/ Signal \/ JoinIpc
           \/ StartThreads \/ MainLoop \/ StopEngine \/ StopTarget \/ StopIpc \/ JoinThreads \/ Exit \/ Destroyed
           \/ UNCHANGED vars
  BY <1>3 DEF ClientStep, Connect, Close, Write, TrackEnds, AudioSticks, AudioThread, TrackEndTold, AudioEnds, Tick, JoinIpc,
         AllClosed, PositionBegins, PositionThread, Ticking, TickerEnds, PositionText, PositionNewline, PositionEnds,
         Signal, StartThreads, MainLoop, StopEngine, StopTarget, StopIpc, JoinThreads, Exit, Destroyed,
         vars, ipcVars, server, loop, threads
<1> QED BY <1>1, <1>2, <1>3 DEF Next, ServerThread, MainThread, Ipc

LEMMA IpcTyped ==
  ASSUME ipc.fd \in Fd \cup {NoFd}, ipc.cmd \in Piece, Books, IInv, [Next]_vars
  PROVE  ipc'.fd \in Fd \cup {NoFd} /\ ipc'.cmd \in Piece
<1>1. CASE ipc' = ipc
  BY <1>1
<1>2. CASE ipc' = Idle
  BY <1>2 DEF Idle, Piece
<1>3. CASE \E next : ipc' = [ipc EXCEPT !.todo = next]
  <2>1. PICK next : ipc' = [ipc EXCEPT !.todo = next]
    BY <1>3
  <2>2. ipc' = [fd |-> ipc.fd, cmd |-> ipc.cmd, todo |-> next]
    BY <2>1, Changed DEF IInv
  <2> QED BY <2>2
<1>4. CASE \E fd \in Fd : \E next : ipc' = [ipc EXCEPT !.fd = fd, !.todo = next]
  <2>1. PICK fd \in Fd : \E next : ipc' = [ipc EXCEPT !.fd = fd, !.todo = next]
    BY <1>4
  <2>2. PICK next : ipc' = [ipc EXCEPT !.fd = fd, !.todo = next]
    BY <2>1
  <2>3. ipc' = [fd |-> fd, cmd |-> ipc.cmd, todo |-> next]
    BY <2>2, Changed DEF IInv
  <2> QED BY <2>3
<1>5. CASE Line
  <2> DEFINE cmd == FirstLine(Buffer(ipc.fd))  next == Steps(cmd) \o Repeat
  <2>1. ipc' = [ipc EXCEPT !.cmd = cmd, !.todo = next] /\ LineEnds(Buffer(ipc.fd)) # {} /\ ipc.fd \in Connected
    BY <1>5 DEF Line, At, IInv, ThreadInv
  <2>2. cmd \in Piece
    BY <2>1, LineTyped DEF Books, StoreInv
  <2> HIDE DEF cmd, next
  <2>3. ipc' = [fd |-> ipc.fd, cmd |-> cmd, todo |-> next]
    BY <2>1, Changed DEF IInv
  <2> QED BY <2>2, <2>3
<1> QED BY <1>1, <1>2, <1>3, <1>4, <1>5, IpcSteps

\* The server is stopped once, and the clients write no more than they may.
LEMMA ServingSteps ==
  ASSUME [Next]_vars
  PROVE  /\ serving' = serving \/ serving' = FALSE
         /\ written' = written \/ (written < MaxPieces /\ written' = written + 1)
<1>1. CASE EventLoop
  BY <1>1 DEF EventLoop, Wait, Accept, Add, AddFails, Refuse, AcceptEnds, Read, EndOfStream, Line, NoLine, Acquire,
         Release, Permission, Answer, Notify, LoopEnds, server, clients
<1>2. CASE \/ ClientStep \/ TrackEnds \/ AudioSticks \/ AudioThread \/ Tick \/ PositionThread \/ Signal \/ JoinIpc \/ Handler
           \/ StartThreads \/ MainLoop \/ StopEngine \/ StopTarget \/ StopIpc \/ JoinThreads \/ Exit \/ Destroyed
           \/ UNCHANGED vars
  BY <1>2 DEF ClientStep, Connect, Close, Write, TrackEnds, AudioSticks, AudioThread, TrackEndTold, AudioEnds, Tick, JoinIpc,
         AllClosed, PositionBegins, PositionThread, Ticking, TickerEnds, PositionText, PositionNewline, PositionEnds,
         Signal, StartThreads, MainLoop, StopEngine, StopTarget, StopIpc, JoinThreads, Exit, Destroyed, Handler,
         vars, ipcVars, server, loop, threads, clients
<1> QED BY <1>1, <1>2 DEF Next, ServerThread, MainThread, Ipc

\* What a client received changes by a whole line, the text of a position or its
\* newline, whoever sends it.
LEMMA ReceivedTyped ==
  ASSUME received \in [Client -> Told], [Next]_vars
  PROVE  received' \in [Client -> Told]
<1>1. \A status \in Told : Whole(status) \in Told
  BY DEF Whole, Told
<1>2. CASE ToAll
  BY <1>1, <1>2 DEF ToAll
<1>3. CASE Answer \/ Acquire \/ Release \/ Permission
  BY <1>1, <1>3 DEF Answer, Acquire, Release, Permission
<1>4. CASE (\E fd \in Fd : PositionText(fd)) \/ PositionNewline
  BY <1>4 DEF PositionText, PositionNewline, Told
<1>5. CASE EventLoop
  <2>1. \/ Wait \/ (\E c \in Client : Accept(c)) \/ Add \/ AddFails \/ Refuse \/ AcceptEnds \/ LoopEnds
        \/ (\E fd \in Fd : Read(fd) \/ EndOfStream(fd)) \/ Line \/ NoLine
        => UNCHANGED received
    BY DEF Wait, Accept, Add, AddFails, Refuse, AcceptEnds, Read, EndOfStream, Line, NoLine, LoopEnds, clients
  <2>2. Notify => ToAll
    BY DEF Notify
  <2> QED BY <1>2, <1>3, <1>5, <2>1, <2>2 DEF EventLoop
<1>6. CASE AudioThread
  BY <1>2, <1>6 DEF AudioThread, TrackEndTold, AudioEnds, ipcVars, clients
<1>7. CASE PositionThread
  BY <1>4, <1>7 DEF PositionThread, Ticking, PositionEnds, TickerEnds, ipcVars, clients
<1>8. CASE \/ ClientStep \/ TrackEnds \/ AudioSticks \/ Tick \/ Signal \/ JoinIpc \/ Handler
           \/ StartThreads \/ MainLoop \/ StopEngine \/ StopTarget \/ StopIpc \/ JoinThreads \/ Exit \/ Destroyed
           \/ UNCHANGED vars
  <2>1. UNCHANGED received
    BY <1>8 DEF ClientStep, Connect, Close, Write, TrackEnds, AudioSticks, Tick, JoinIpc, AllClosed, PositionBegins,
         Signal, StartThreads, MainLoop, StopEngine, StopTarget, StopIpc, JoinThreads, Exit, Destroyed, Handler,
         vars, ipcVars, clients
  <2> QED BY <2>1
<1> QED BY <1>5, <1>6, <1>7, <1>8 DEF Next, ServerThread, MainThread, Ipc

LEMMA ThreadTypesKept ==
  ASSUME ThreadTypes, Books, IInv, [Next]_vars
  PROVE  ThreadTypes'
<1>1. ipc'.fd \in Fd \cup {NoFd} /\ ipc'.cmd \in Piece
  BY IpcTyped DEF ThreadTypes
<1>2. serving' \in BOOLEAN
  BY ServingSteps, Zenon DEF ThreadTypes
<1>3. written' \in 0..MaxPieces
  <2>1. MaxPieces \in Nat /\ written \in Nat /\ written <= MaxPieces
    BY IPCServerAssumption DEF ThreadTypes
  <2>2. written' = written \/ (written < MaxPieces /\ written' = written + 1)
    BY ServingSteps, Zenon
  <2> QED BY <2>1, <2>2
<1>4. received' \in [Client -> Told]
  BY ReceivedTyped DEF ThreadTypes
<1> QED BY <1>1, <1>2, <1>3, <1>4, Zenon DEF ThreadTypes

\* The renderer's threads, as the steps leave them.
LEMMA RendererSteps ==
  ASSUME [Next]_vars, RendererTypes
  PROVE  RendererTypes'
<1>1. CASE UNCHANGED renderer
  BY <1>1, Zenon DEF renderer, RendererTypes
<1>2. CASE Handler
  BY <1>2, Zenon DEF Handler, Play, Stop, SelectTarget, Shutdown, RendererTypes
<1>3. CASE TrackEnds \/ AudioSticks \/ AudioThread \/ TickerEnds
  BY <1>3, Zenon DEF TrackEnds, AudioSticks, AudioThread, TrackEndTold, AudioEnds, TickerEnds, RendererTypes
<1>4. CASE StartThreads \/ MainLoop \/ JoinThreads \/ Destroyed
  BY <1>4, Zenon DEF StartThreads, MainLoop, JoinThreads, Destroyed, RendererTypes, MainPc
<1>5. CASE Signal \/ StopEngine \/ StopTarget \/ StopIpc \/ JoinIpc \/ Exit
  BY <1>5, Zenon DEF Signal, StopEngine, StopTarget, StopIpc, JoinIpc, Exit, RendererTypes, MainPc
<1>6. CASE EventLoop /\ UNCHANGED renderer
  BY <1>1, <1>6
<1>7. UNCHANGED vars \/ Tick \/ Ticking => UNCHANGED renderer
  BY DEF Tick, Ticking, vars
<1> QED BY <1>1, <1>2, <1>3, <1>4, <1>5, <1>7 DEF Next, ServerThread, PositionThread, MainThread, Ipc

Typed == PositionInv /\ ThreadTypes /\ RendererTypes

LEMMA InitTyped == Init => Typed
<1> SUFFICES ASSUME Init PROVE Typed
  OBVIOUS
<1>1. PositionInv
  BY DEF Init, IpcInit, PositionInv, Silent
<1>2. ThreadTypes
  <2>1. Idle.fd = NoFd /\ Idle.cmd = "part"
    BY DEF Idle
  <2>2. 0 \in 0..MaxPieces
    BY IPCServerAssumption
  <2>3. ipc = Idle /\ serving = TRUE /\ written = 0 /\ received = [c \in Client |-> "whole"]
    BY DEF Init, IpcInit
  <2> QED BY <2>1, <2>2, <2>3 DEF ThreadTypes, Told, Piece
<1>3. RendererTypes
  BY Zenon DEF Init, RendererTypes, MainPc
<1> QED BY <1>1, <1>2, <1>3 DEF Typed

\* Types: among them notifyPosition() only ever writes to connections that are there,
\* while the mutex keeps them, and epoll_wait() reported no descriptor that has been
\* closed and given to someone else since.
THEOREM TypeCorrect == Spec => []TypeOK
<1>1. Typed /\ Books /\ IInv /\ [Next]_vars => Typed'
  BY PositionKept, ThreadTypesKept, RendererSteps DEF Typed
<1>2. Typed /\ Books /\ IInv => TypeOK
  <2> SUFFICES ASSUME Typed, Books, IInv PROVE TypeOK
    OBVIOUS
  <2>1. \A f \in Connected : m_connections[f] \in Connection
    <3> SUFFICES ASSUME NEW f \in Connected PROVE m_connections[f] \in Connection
      OBVIOUS
    <3>1. m_connections[f] = [client |-> Owner(f), isControl |-> (f = m_controlFd), buffer |-> Buffer(f)]
      BY Zenon DEF IInv, ControlInv
    <3>2. Owner(f) \in Client /\ Buffer(f) \in Seq(Piece) /\ (f = m_controlFd) \in BOOLEAN
      BY DEF Books, StoreInv
    <3> DEFINE own == Owner(f)  mark == (f = m_controlFd)  buf == Buffer(f)
    <3> HIDE DEF own, mark, buf
    <3>3. own \in Client /\ mark \in BOOLEAN /\ buf \in Seq(Piece)
          => [client |-> own, isControl |-> mark, buffer |-> buf] \in Connection
      BY DEF Connection
    <3> QED BY <3>1, <3>2, <3>3, Zenon DEF own, mark, buf
  <2>2. Connected \subseteq Fd /\ m_controlFd \in Connected \cup {NoFd} /\ holder \in Client \cup {"nobody"}
    BY DEF IInv, ControlInv, Books, StoreInv
  <2>3. ipc.todo \in Seq(IpcStep)
    BY TodosTyped DEF IInv, ThreadInv
  <2>4. events \subseteq Connected \cup {ListenFd}
    BY DEF IInv, EventsInv
  <2>5. IpcTypeOK
    <3>1. m_mutex \in {"free", "position", "main"} /\ position.todo \subseteq Connected
          /\ position.fd \in Connected \cup {NoFd}
      BY DEF Typed, PositionInv
    <3>2. ipc.fd \in Fd \cup {NoFd} /\ ipc.cmd \in Piece /\ serving \in BOOLEAN /\ written \in 0..MaxPieces
          /\ received \in [Client -> {"whole", "open", "mixed"}]
      BY Zenon DEF Typed, ThreadTypes, Told
    <3>3. /\ phase \in [Client -> {"new", "waiting", "connected", "closed", "gone"}]
          /\ stream \in [Client -> Seq(Piece)] /\ owed \in [Client -> Seq(Piece)]
      BY DEF Books, StoreInv
    <3> QED BY <2>1, <2>2, <2>3, <2>4, <3>1, <3>2, <3>3, Zenon DEF IpcTypeOK
  <2>6. {m_running, joinable, playing, target} \subseteq BOOLEAN
    BY Zenon DEF Typed, RendererTypes
  <2> QED BY <2>5, <2>6, Zenon DEF Typed, RendererTypes, TypeOK
<1> QED BY <1>1, <1>2, InitTyped, InBooks, Controlled, PTL DEF Spec
=============================================================================
