------------------------- MODULE SyncLifecycle_proofs -------------------------
(***************************************************************************)
(* The safety of the connection for any set of formats: two threads, the   *)
(* handlers in any order, an SDK that fails as it likes and a target that  *)
(* drops at any moment.                                                    *)
(***************************************************************************)
EXTENDS SyncLifecycle, SequenceTheorems, TLAPS

USE SyncLifecycleAssumption

(* The type invariant in parts. *)

FlagsOK ==
  /\ m_enabled \in BOOLEAN /\ m_sdkOpen \in BOOLEAN /\ m_open \in BOOLEAN
  /\ m_playing \in BOOLEAN /\ m_paused \in BOOLEAN
  /\ m_stopRequested \in BOOLEAN /\ m_draining \in BOOLEAN /\ worker \in BOOLEAN

AbortsOK ==
  m_openAbortRequested \in BOOLEAN /\ m_transitionWakeup \in BOOLEAN /\ abortDue \in BOOLEAN

SessionOK ==
  /\ m_previousFormat \in Format \cup {None} /\ m_currentFormat \in Format \cup {None}
  /\ lifecycle \in Thread \cup {"free"}
  /\ sdk \in {"closed", "open", "connected", "lost"}
  /\ sinkFormat \in Format \cup {None}

ControlOK ==
  /\ pc \in [Thread -> Pc]
  /\ calls \in [Thread -> Seq(Call)]
  /\ \A t \in Thread :
       pc[t] # "idle" => calls[t] # <<>> /\ Head(calls[t]).op \in CallAt(pc[t])

LEMMA TypeParts ==
  /\ TypeOK <=> FlagsOK /\ AbortsOK /\ SessionOK /\ ControlOK
  /\ TypeOK' <=> FlagsOK' /\ AbortsOK' /\ SessionOK' /\ ControlOK'
BY DEF TypeOK, FlagsOK, AbortsOK, SessionOK, ControlOK

-----------------------------------------------------------------------------
(* How a thread moves. *)

\* The calls a thread can be in, by where it is.
LEMMA Labels ==
  /\ \A label \in OpenPc : label \in Pc /\ label # "idle" /\ CallAt(label) = {"open"}
  /\ \A label \in ClosePc : label \in Pc /\ label # "idle" /\ CallAt(label) = {"release", "disable"}
  /\ "stop.lock" \in Pc /\ CallAt("stop.lock") = {"stopPlayback"}
  /\ \A label \in {"disable.close", "disable.rest"} : label \in Pc /\ CallAt(label) = {"disable"}
BY DEF Pc, OpenPc, ClosePc, CallAt

LEMMA HeadOf ==
  ASSUME ControlOK, NEW t \in Thread
  PROVE  /\ pc[t] # "idle" => calls[t] # <<>> /\ Head(calls[t]).op \in CallAt(pc[t])
         /\ calls[t] # <<>> /\ Head(calls[t]).op = "open" =>
              Head(calls[t]).format \in Format /\ Head(calls[t]).format # None
         /\ pc[t] \in OpenPc => calls[t] # <<>> /\ Head(calls[t]).op = "open"
                                /\ Head(calls[t]).format \in Format /\ Head(calls[t]).format # None
<1>1. pc[t] # "idle" => calls[t] # <<>> /\ Head(calls[t]).op \in CallAt(pc[t])
  BY DEF ControlOK
<1>2. ASSUME calls[t] # <<>>, Head(calls[t]).op = "open"
      PROVE  Head(calls[t]).format \in Format /\ Head(calls[t]).format # None
  <2>1. Head(calls[t]) \in Call
    BY <1>2 DEF ControlOK
  <2>2. Head(calls[t]).format \in Format
    BY <1>2, <2>1 DEF Call
  <2> QED BY <2>2
<1>3. pc[t] \in OpenPc => calls[t] # <<>> /\ Head(calls[t]).op = "open"
  BY <1>1, Labels
<1> QED BY <1>1, <1>2, <1>3

LEMMA Moved ==
  ASSUME ControlOK, NEW t \in Thread
  PROVE  /\ \A label : GoTo(t, label) =>
              /\ pc'[t] = label /\ calls' = calls
              /\ \A u \in Thread : u # t => pc'[u] = pc[u]
         /\ Done(t) \/ Failed(t) =>
              /\ pc'[t] = "idle"
              /\ \A u \in Thread : u # t => pc'[u] = pc[u] /\ calls'[u] = calls[u]
BY DEF ControlOK, GoTo, Done, Failed, Return

\* Inside its call, a thread goes on ...
LEMMA Goes ==
  ASSUME ControlOK, NEW t \in Thread, NEW label \in Pc, GoTo(t, label),
         calls[t] # <<>>, Head(calls[t]).op \in CallAt(label)
  PROVE  ControlOK'
BY DEF ControlOK, GoTo

\* ... and leaves it, for the next one of its handler, for the call that clears up
\* after it, or for none.
LEMMA Returns ==
  ASSUME ControlOK, NEW t \in Thread, calls[t] # <<>>, Done(t) \/ Failed(t)
  PROVE  ControlOK'
<1>1. ASSUME NEW rest \in Seq(Call), Return(t, rest)
      PROVE  ControlOK'
  <2>1. pc'[t] = "idle" /\ \A u \in Thread : u # t => pc'[u] = pc[u] /\ calls'[u] = calls[u]
    BY <1>1 DEF ControlOK, Return
  <2>2. pc' \in [Thread -> Pc] /\ calls' \in [Thread -> Seq(Call)]
    BY <1>1 DEF ControlOK, Return, Pc
  <2> QED BY <2>1, <2>2 DEF ControlOK
<1>2. Tail(calls[t]) \in Seq(Call)
  BY DEF ControlOK
<1>3. <<Plain("disable")>> \in Seq(Call) /\ <<>> \in Seq(Call)
  BY DEF Plain, Call
<1> QED BY <1>1, <1>2, <1>3 DEF Done, Failed

LEMMA Controls ==
  ASSUME ControlOK, NEW t \in Thread, calls[t] # <<>>
  PROVE  /\ \A label \in OpenPc : Head(calls[t]).op = "open" /\ GoTo(t, label) => ControlOK'
         /\ \A label \in ClosePc : Head(calls[t]).op \in {"release", "disable"} /\ GoTo(t, label) => ControlOK'
         /\ Head(calls[t]).op = "stopPlayback" /\ GoTo(t, "stop.lock") => ControlOK'
         /\ \A label \in {"disable.close", "disable.rest"} :
              Head(calls[t]).op = "disable" /\ GoTo(t, label) => ControlOK'
         /\ Done(t) \/ Failed(t) => ControlOK'
BY Labels, Goes, Returns

\* Where the thread is, its call and what it does next, for the steps of each kind.
LEMMA Opens ==
  ASSUME ControlOK, NEW t \in Thread, Calling(t, "open") \/ pc[t] \in OpenPc,
         (\E label \in OpenPc : GoTo(t, label)) \/ Done(t) \/ Failed(t)
  PROVE  ControlOK'
BY HeadOf, Controls DEF Calling

-----------------------------------------------------------------------------
(* One lemma an action. *)

\* open(): the mutex is taken, and an old abort forgotten.
LEMMA OpenEnterKeeps ==
  ASSUME IInv, NEW t \in Thread, OpenEnter(t)
  PROVE  IInv'
<1>1. FlagsOK' /\ AbortsOK'
  BY TypeParts DEF IInv, FlagsOK, AbortsOK, OpenEnter, Calling, Locks, conn, session, mute, aborts,
     threads
<1>2. SessionOK'
  BY TypeParts DEF IInv, SessionOK, OpenEnter, Calling, Locks, conn, session, mute, aborts, threads
<1>3. ControlOK'
  BY TypeParts, Opens DEF IInv, OpenPc, OpenEnter, Calling, Locks
<1>4. Holders'
  BY TypeParts, Moved DEF IInv, Holders, FlagsOK, SessionOK, Thread, OpenPc, ClosePc, OpenEnter,
     Calling, Locks, conn, session, mute, aborts, threads
<1>5. AbortSeen'
  BY TypeParts, Moved DEF IInv, Holders, AbortSeen, FlagsOK, SessionOK, Thread, OpenPc, ClosePc,
     StillLooks, OpenEnter, Calling, Locks, conn, session, mute, aborts, threads
<1>6. WorkerServes'
  BY TypeParts, Moved DEF IInv, WorkerServes, FlagsOK, SessionOK, Thread, OpenEnter, Calling, Locks,
     conn, session, mute, aborts, threads
<1>7. Unmuted'
  BY TypeParts, Moved DEF IInv, Holders, Unmuted, GettingOnline, Online, FlagsOK, SessionOK, Thread,
     OpenPc, ClosePc, OpenEnter, Calling, Locks, conn, session, mute, aborts, threads
<1>8. FormatKnown'
  BY TypeParts, Moved, HeadOf DEF IInv, Holders, Unmuted, FormatKnown, GettingOnline, Online, FlagsOK,
     SessionOK, Thread, OpenPc, ClosePc, OpenEnter, Calling, Locks, conn, session, mute, aborts, threads
<1> QED BY <1>1, <1>2, <1>3, <1>4, <1>5, <1>6, <1>7, <1>8, TypeParts DEF IInv

LEMMA OpenRefusedKeeps ==
  ASSUME IInv, NEW t \in Thread, OpenRefused(t)
  PROVE  IInv'
<1>1. FlagsOK' /\ AbortsOK'
  BY TypeParts DEF IInv, FlagsOK, AbortsOK, OpenRefused, Calling, conn, session, mute, aborts, threads
<1>2. SessionOK'
  BY TypeParts DEF IInv, SessionOK, OpenRefused, Calling, conn, session, mute, aborts, threads
<1>3. ControlOK'
  BY TypeParts, Opens DEF IInv, OpenPc, OpenRefused, Calling
<1>4. Holders'
  BY TypeParts, Moved DEF IInv, Holders, FlagsOK, SessionOK, Thread, OpenPc, ClosePc, OpenRefused,
     Calling, conn, session, mute, aborts, threads
<1>5. AbortSeen'
  BY TypeParts, Moved DEF IInv, Holders, AbortSeen, FlagsOK, SessionOK, Thread, OpenPc, ClosePc,
     StillLooks, OpenRefused, Calling, conn, session, mute, aborts, threads
<1>6. WorkerServes'
  BY TypeParts, Moved DEF IInv, WorkerServes, FlagsOK, SessionOK, Thread, OpenRefused, Calling, conn,
     session, mute, aborts, threads
<1>7. Unmuted'
  BY TypeParts, Moved DEF IInv, Holders, Unmuted, GettingOnline, Online, FlagsOK, SessionOK, Thread,
     OpenPc, ClosePc, OpenRefused, Calling, conn, session, mute, aborts, threads
<1>8. FormatKnown'
  BY TypeParts, Moved, HeadOf DEF IInv, Holders, Unmuted, FormatKnown, GettingOnline, Online, FlagsOK,
     SessionOK, Thread, OpenPc, ClosePc, OpenRefused, Calling, conn, session, mute, aborts, threads
<1> QED BY <1>1, <1>2, <1>3, <1>4, <1>5, <1>6, <1>7, <1>8, TypeParts DEF IInv

\* Nothing is played any more, and nothing remembered.
LEMMA OpenReconnectKeeps ==
  ASSUME IInv, NEW t \in Thread, OpenReconnect(t)
  PROVE  IInv'
<1>1. FlagsOK' /\ AbortsOK'
  BY TypeParts DEF IInv, FlagsOK, AbortsOK, OpenReconnect, ResetFailed, SessionReopened, SessionReset,
     SdkCloses, conn, session, mute, aborts, threads
<1>2. SessionOK'
  BY TypeParts DEF IInv, SessionOK, OpenReconnect, ResetFailed, SessionReopened, SessionReset,
     SdkCloses, conn, session, mute, aborts, threads
<1>3. ControlOK'
  BY TypeParts, Opens DEF IInv, OpenPc, OpenReconnect, ResetFailed, SessionReopened, SessionReset,
     SdkCloses
<1>4. Holders'
  BY TypeParts, Moved DEF IInv, Holders, FlagsOK, SessionOK, Thread, OpenPc, ClosePc, OpenReconnect,
     ResetFailed, SessionReopened, SessionReset, SdkCloses, conn, session, mute, aborts, threads
<1>5. AbortSeen'
  BY TypeParts, Moved DEF IInv, Holders, AbortSeen, FlagsOK, SessionOK, Thread, OpenPc, ClosePc,
     StillLooks, OpenReconnect, ResetFailed, SessionReopened, SessionReset, SdkCloses, conn, session,
     mute, aborts, threads
<1>6. WorkerServes'
  BY TypeParts, Moved DEF IInv, WorkerServes, FlagsOK, SessionOK, Thread, OpenReconnect, ResetFailed,
     SessionReopened, SessionReset, SdkCloses, conn, session, mute, aborts, threads
<1>7. Unmuted'
  BY TypeParts, Moved DEF IInv, Holders, Unmuted, GettingOnline, Online, FlagsOK, SessionOK, Thread,
     OpenPc, ClosePc, OpenReconnect, ResetFailed, SessionReopened, SessionReset, SdkCloses, conn,
     session, mute, aborts, threads
<1>8. FormatKnown'
  BY TypeParts, Moved, HeadOf DEF IInv, Holders, Unmuted, FormatKnown, GettingOnline, Online, FlagsOK,
     SessionOK, Thread, OpenPc, ClosePc, OpenReconnect, ResetFailed, SessionReopened, SessionReset,
     SdkCloses, conn, session, mute, aborts, threads
<1> QED BY <1>1, <1>2, <1>3, <1>4, <1>5, <1>6, <1>7, <1>8, TypeParts DEF IInv

LEMMA OpenSdkKeeps ==
  ASSUME IInv, NEW t \in Thread, OpenSdk(t)
  PROVE  IInv'
<1>1. FlagsOK' /\ AbortsOK'
  BY TypeParts, ZenonT(40) DEF IInv, FlagsOK, AbortsOK, OpenSdk, SdkOpens, conn, session, mute, aborts, threads
<1>2. SessionOK'
  BY TypeParts DEF IInv, SessionOK, OpenSdk, SdkOpens, conn, session, mute, aborts, threads
<1>3. ControlOK'
  BY TypeParts, Opens DEF IInv, OpenPc, OpenSdk, SdkOpens
<1>4. Holders'
  BY TypeParts, Moved DEF IInv, Holders, FlagsOK, SessionOK, Thread, OpenPc, ClosePc, OpenSdk, SdkOpens,
     conn, session, mute, aborts, threads
<1>5. AbortSeen'
  BY TypeParts, Moved DEF IInv, Holders, AbortSeen, FlagsOK, SessionOK, Thread, OpenPc, ClosePc,
     StillLooks, OpenSdk, SdkOpens, conn, session, mute, aborts, threads
<1>6. WorkerServes'
  BY TypeParts, Moved DEF IInv, WorkerServes, FlagsOK, SessionOK, Thread, OpenSdk, SdkOpens, conn,
     session, mute, aborts, threads
<1>7. Unmuted'
  BY TypeParts, Moved DEF IInv, Holders, Unmuted, GettingOnline, Online, FlagsOK, SessionOK, Thread,
     OpenPc, ClosePc, OpenSdk, SdkOpens, conn, session, mute, aborts, threads
<1>8. FormatKnown'
  BY TypeParts, Moved, HeadOf DEF IInv, Holders, Unmuted, FormatKnown, GettingOnline, Online, FlagsOK,
     SessionOK, Thread, OpenPc, ClosePc, OpenSdk, SdkOpens, conn, session, mute, aborts, threads
<1> QED BY <1>1, <1>2, <1>3, <1>4, <1>5, <1>6, <1>7, <1>8, TypeParts DEF IInv

\* The session was set to the format that is asked for again.
LEMMA OpenQuickKeeps ==
  ASSUME IInv, NEW t \in Thread, OpenQuick(t)
  PROVE  IInv'
<1>1. FlagsOK' /\ AbortsOK'
  BY TypeParts DEF IInv, FlagsOK, AbortsOK, OpenQuick, conn, session, mute, aborts, threads
<1>2. SessionOK'
  BY TypeParts DEF IInv, SessionOK, OpenQuick, conn, session, mute, aborts, threads
<1>3. ControlOK'
  BY TypeParts, Opens DEF IInv, OpenPc, OpenQuick
<1>4. Holders'
  BY TypeParts, Moved DEF IInv, Holders, FlagsOK, SessionOK, Thread, OpenPc, ClosePc, OpenQuick, conn,
     session, mute, aborts, threads
<1>5. AbortSeen'
  BY TypeParts, Moved DEF IInv, Holders, AbortSeen, FlagsOK, SessionOK, Thread, OpenPc, ClosePc,
     StillLooks, OpenQuick, conn, session, mute, aborts, threads
<1>6. WorkerServes'
  BY TypeParts, Moved DEF IInv, WorkerServes, FlagsOK, SessionOK, Thread, OpenQuick, conn, session,
     mute, aborts, threads
<1>7. Unmuted'
  BY TypeParts, Moved DEF IInv, Holders, Unmuted, GettingOnline, Online, FlagsOK, SessionOK, Thread,
     OpenPc, ClosePc, OpenQuick, conn, session, mute, aborts, threads
<1>8. FormatKnown'
  BY TypeParts, Moved, HeadOf DEF IInv, Holders, Unmuted, FormatKnown, GettingOnline, Online, FlagsOK,
     SessionOK, Thread, OpenPc, ClosePc, OpenQuick, conn, session, mute, aborts, threads
<1> QED BY <1>1, <1>2, <1>3, <1>4, <1>5, <1>6, <1>7, <1>8, TypeParts DEF IInv

\* No session, so nothing is online until this open() is done with it.
LEMMA OpenChangeKeeps ==
  ASSUME IInv, NEW t \in Thread, OpenChange(t)
  PROVE  IInv'
<1>1. FlagsOK' /\ AbortsOK'
  BY TypeParts DEF IInv, FlagsOK, AbortsOK, OpenChange, SdkCloses, conn, session, mute, aborts, threads
<1>2. SessionOK'
  BY TypeParts DEF IInv, SessionOK, OpenChange, SdkCloses, conn, session, mute, aborts, threads
<1>3. ControlOK'
  BY TypeParts, Opens DEF IInv, OpenPc, OpenChange, SdkCloses
<1>4. Holders'
  BY TypeParts, Moved DEF IInv, Holders, FlagsOK, SessionOK, Thread, OpenPc, ClosePc, OpenChange,
     SdkCloses, conn, session, mute, aborts, threads
<1>5. AbortSeen'
  BY TypeParts, Moved DEF IInv, Holders, AbortSeen, FlagsOK, SessionOK, Thread, OpenPc, ClosePc,
     StillLooks, OpenChange, SdkCloses, conn, session, mute, aborts, threads
<1>6. WorkerServes'
  BY TypeParts, Moved DEF IInv, WorkerServes, FlagsOK, SessionOK, Thread, OpenChange, SdkCloses, conn,
     session, mute, aborts, threads
<1>7. Unmuted'
  BY TypeParts, Moved DEF IInv, Holders, Unmuted, GettingOnline, Online, FlagsOK, SessionOK, Thread,
     OpenPc, ClosePc, OpenChange, SdkCloses, conn, session, mute, aborts, threads
<1>8. FormatKnown'
  BY TypeParts, Moved, HeadOf DEF IInv, Holders, Unmuted, FormatKnown, GettingOnline, Online, FlagsOK,
     SessionOK, Thread, OpenPc, ClosePc, OpenChange, SdkCloses, conn, session, mute, aborts, threads
<1> QED BY <1>1, <1>2, <1>3, <1>4, <1>5, <1>6, <1>7, <1>8, TypeParts DEF IInv

LEMMA OpenFreshKeeps ==
  ASSUME IInv, NEW t \in Thread, OpenFresh(t)
  PROVE  IInv'
<1>1. FlagsOK' /\ AbortsOK'
  BY TypeParts DEF IInv, FlagsOK, AbortsOK, OpenFresh, conn, session, mute, aborts, threads
<1>2. SessionOK'
  BY TypeParts DEF IInv, SessionOK, OpenFresh, conn, session, mute, aborts, threads
<1>3. ControlOK'
  BY TypeParts, Opens DEF IInv, OpenPc, OpenFresh
<1>4. Holders'
  BY TypeParts, Moved DEF IInv, Holders, FlagsOK, SessionOK, Thread, OpenPc, ClosePc, OpenFresh, conn,
     session, mute, aborts, threads
<1>5. AbortSeen'
  BY TypeParts, Moved DEF IInv, Holders, AbortSeen, FlagsOK, SessionOK, Thread, OpenPc, ClosePc,
     StillLooks, OpenFresh, conn, session, mute, aborts, threads
<1>6. WorkerServes'
  BY TypeParts, Moved DEF IInv, WorkerServes, FlagsOK, SessionOK, Thread, OpenFresh, conn, session,
     mute, aborts, threads
<1>7. Unmuted'
  BY TypeParts, Moved DEF IInv, Holders, Unmuted, GettingOnline, Online, FlagsOK, SessionOK, Thread,
     OpenPc, ClosePc, OpenFresh, conn, session, mute, aborts, threads
<1>8. FormatKnown'
  BY TypeParts, Moved, HeadOf DEF IInv, Holders, Unmuted, FormatKnown, GettingOnline, Online, FlagsOK,
     SessionOK, Thread, OpenPc, ClosePc, OpenFresh, conn, session, mute, aborts, threads
<1> QED BY <1>1, <1>2, <1>3, <1>4, <1>5, <1>6, <1>7, <1>8, TypeParts DEF IInv

LEMMA OpenWaitKeeps ==
  ASSUME IInv, NEW t \in Thread, OpenWait(t)
  PROVE  IInv'
<1>1. FlagsOK' /\ AbortsOK'
  BY TypeParts DEF IInv, FlagsOK, AbortsOK, OpenWait, conn, session, mute, aborts, threads
<1>2. SessionOK'
  BY TypeParts DEF IInv, SessionOK, OpenWait, conn, session, mute, aborts, threads
<1>3. ControlOK'
  BY TypeParts, Opens DEF IInv, OpenPc, OpenWait
<1>4. Holders'
  BY TypeParts, Moved DEF IInv, Holders, FlagsOK, SessionOK, Thread, OpenPc, ClosePc, OpenWait, conn,
     session, mute, aborts, threads
<1>5. AbortSeen'
  BY TypeParts, Moved DEF IInv, Holders, AbortSeen, FlagsOK, SessionOK, Thread, OpenPc, ClosePc,
     StillLooks, OpenWait, conn, session, mute, aborts, threads
<1>6. WorkerServes'
  BY TypeParts, Moved DEF IInv, WorkerServes, FlagsOK, SessionOK, Thread, OpenWait, conn, session, mute,
     aborts, threads
<1>7. Unmuted'
  BY TypeParts, Moved DEF IInv, Holders, Unmuted, GettingOnline, Online, FlagsOK, SessionOK, Thread,
     OpenPc, ClosePc, OpenWait, conn, session, mute, aborts, threads
<1>8. FormatKnown'
  BY TypeParts, Moved, HeadOf DEF IInv, Holders, Unmuted, FormatKnown, GettingOnline, Online, FlagsOK,
     SessionOK, Thread, OpenPc, ClosePc, OpenWait, conn, session, mute, aborts, threads
<1> QED BY <1>1, <1>2, <1>3, <1>4, <1>5, <1>6, <1>7, <1>8, TypeParts DEF IInv

LEMMA OpenWaitedKeeps ==
  ASSUME IInv, NEW t \in Thread, OpenWaited(t)
  PROVE  IInv'
<1>1. FlagsOK' /\ AbortsOK'
  BY TypeParts, ZenonT(40) DEF IInv, FlagsOK, AbortsOK, OpenWaited, SdkOpens, conn, session, mute, aborts, threads
<1>2. SessionOK'
  BY TypeParts DEF IInv, SessionOK, OpenWaited, SdkOpens, conn, session, mute, aborts, threads
<1>3. ControlOK'
  BY TypeParts, Opens DEF IInv, OpenPc, OpenWaited, SdkOpens
<1>4. Holders'
  BY TypeParts, Moved DEF IInv, Holders, FlagsOK, SessionOK, Thread, OpenPc, ClosePc, OpenWaited,
     SdkOpens, conn, session, mute, aborts, threads
<1>5. AbortSeen'
  BY TypeParts, Moved DEF IInv, Holders, AbortSeen, FlagsOK, SessionOK, Thread, OpenPc, ClosePc,
     StillLooks, OpenWaited, SdkOpens, conn, session, mute, aborts, threads
<1>6. WorkerServes'
  BY TypeParts, Moved DEF IInv, WorkerServes, FlagsOK, SessionOK, Thread, OpenWaited, SdkOpens, conn,
     session, mute, aborts, threads
<1>7. Unmuted'
  BY TypeParts, Moved DEF IInv, Holders, Unmuted, GettingOnline, Online, FlagsOK, SessionOK, Thread,
     OpenPc, ClosePc, OpenWaited, SdkOpens, conn, session, mute, aborts, threads
<1>8. FormatKnown'
  BY TypeParts, Moved, HeadOf DEF IInv, Holders, Unmuted, FormatKnown, GettingOnline, Online, FlagsOK,
     SessionOK, Thread, OpenPc, ClosePc, OpenWaited, SdkOpens, conn, session, mute, aborts, threads
<1> QED BY <1>1, <1>2, <1>3, <1>4, <1>5, <1>6, <1>7, <1>8, TypeParts DEF IInv

\* The last look at the abort flag, and the first reset of the mute.
LEMMA OpenResetKeeps ==
  ASSUME IInv, NEW t \in Thread, OpenReset(t)
  PROVE  IInv'
<1>1. FlagsOK' /\ AbortsOK'
  BY TypeParts DEF IInv, FlagsOK, AbortsOK, OpenReset, conn, session, mute, aborts, threads
<1>2. SessionOK'
  BY TypeParts DEF IInv, SessionOK, OpenReset, conn, session, mute, aborts, threads
<1>3. ControlOK'
  BY TypeParts, Opens DEF IInv, OpenPc, OpenReset
<1>4. Holders'
  BY TypeParts, Moved DEF IInv, Holders, FlagsOK, SessionOK, Thread, OpenPc, ClosePc, OpenReset, conn,
     session, mute, aborts, threads
<1>5. AbortSeen'
  BY TypeParts, Moved DEF IInv, Holders, AbortSeen, FlagsOK, SessionOK, Thread, OpenPc, ClosePc,
     StillLooks, OpenReset, conn, session, mute, aborts, threads
<1>6. WorkerServes'
  BY TypeParts, Moved DEF IInv, WorkerServes, FlagsOK, SessionOK, Thread, OpenReset, conn, session,
     mute, aborts, threads
<1>7. Unmuted'
  BY TypeParts, Moved DEF IInv, Holders, Unmuted, GettingOnline, Online, FlagsOK, SessionOK, Thread,
     OpenPc, ClosePc, OpenReset, conn, session, mute, aborts, threads
<1>8. FormatKnown'
  BY TypeParts, Moved, HeadOf DEF IInv, Holders, Unmuted, FormatKnown, GettingOnline, Online, FlagsOK,
     SessionOK, Thread, OpenPc, ClosePc, OpenReset, conn, session, mute, aborts, threads
<1> QED BY <1>1, <1>2, <1>3, <1>4, <1>5, <1>6, <1>7, <1>8, TypeParts DEF IInv

\* The sink is set, and the worker starts, with a session.
LEMMA OpenConnectKeeps ==
  ASSUME IInv, NEW t \in Thread, OpenConnect(t)
  PROVE  IInv'
<1>1. FlagsOK' /\ AbortsOK'
  BY TypeParts, ZenonT(40) DEF IInv, FlagsOK, AbortsOK, OpenConnect, conn, session, mute, aborts, threads
<1>2. SessionOK'
  BY TypeParts, HeadOf DEF IInv, SessionOK, OpenConnect, conn, session, mute, aborts, threads, OpenPc
<1>3. ControlOK'
  BY TypeParts, Opens DEF IInv, OpenPc, OpenConnect
<1>4. Holders'
  BY TypeParts, Moved DEF IInv, Holders, FlagsOK, SessionOK, Thread, OpenPc, ClosePc, OpenConnect, conn,
     session, mute, aborts, threads
<1>5. AbortSeen'
  BY TypeParts, Moved DEF IInv, Holders, AbortSeen, FlagsOK, SessionOK, Thread, OpenPc, ClosePc,
     StillLooks, OpenConnect, conn, session, mute, aborts, threads
<1>6. WorkerServes'
  BY TypeParts, Moved DEF IInv, WorkerServes, FlagsOK, SessionOK, Thread, OpenConnect, conn, session,
     mute, aborts, threads
<1>7. Unmuted'
  BY TypeParts, Moved DEF IInv, Holders, Unmuted, GettingOnline, Online, FlagsOK, SessionOK, Thread,
     OpenPc, ClosePc, OpenConnect, conn, session, mute, aborts, threads
<1>8. FormatKnown'
  BY TypeParts, Moved, HeadOf DEF IInv, Holders, Unmuted, FormatKnown, GettingOnline, Online, FlagsOK,
     SessionOK, Thread, OpenPc, ClosePc, OpenConnect, conn, session, mute, aborts, threads
<1> QED BY <1>1, <1>2, <1>3, <1>4, <1>5, <1>6, <1>7, <1>8, TypeParts DEF IInv

\* What was set up is remembered, or everything is reset.
LEMMA OpenOnlineKeeps ==
  ASSUME IInv, NEW t \in Thread, OpenOnline(t)
  PROVE  IInv'
<1>1. FlagsOK' /\ AbortsOK'
  BY TypeParts DEF IInv, FlagsOK, AbortsOK, OpenOnline, ResetFailed, SessionReset, SdkCloses, conn,
     session, mute, aborts, threads
<1>2. SessionOK'
  BY TypeParts, HeadOf DEF IInv, SessionOK, OpenOnline, ResetFailed, SessionReset, SdkCloses, conn,
     session, mute, aborts, threads, OpenPc
<1>3. ControlOK'
  BY TypeParts, Opens DEF IInv, OpenPc, OpenOnline, ResetFailed, SessionReset, SdkCloses
<1>4. Holders'
  BY TypeParts, Moved DEF IInv, Holders, FlagsOK, SessionOK, Thread, OpenPc, ClosePc, OpenOnline,
     ResetFailed, SessionReset, SdkCloses, conn, session, mute, aborts, threads
<1>5. AbortSeen'
  BY TypeParts, Moved DEF IInv, Holders, AbortSeen, FlagsOK, SessionOK, Thread, OpenPc, ClosePc,
     StillLooks, OpenOnline, ResetFailed, SessionReset, SdkCloses, conn, session, mute, aborts, threads
<1>6. WorkerServes'
  BY TypeParts, Moved DEF IInv, WorkerServes, FlagsOK, SessionOK, Thread, OpenOnline, ResetFailed,
     SessionReset, SdkCloses, conn, session, mute, aborts, threads
<1>7. Unmuted'
  BY TypeParts, Moved DEF IInv, Holders, Unmuted, GettingOnline, Online, FlagsOK, SessionOK, Thread,
     OpenPc, ClosePc, OpenOnline, ResetFailed, SessionReset, SdkCloses, conn, session, mute, aborts,
     threads
<1>8. FormatKnown'
  BY TypeParts, Moved, HeadOf DEF IInv, Holders, Unmuted, FormatKnown, GettingOnline, Online, FlagsOK,
     SessionOK, Thread, OpenPc, ClosePc, OpenOnline, ResetFailed, SessionReset, SdkCloses, conn,
     session, mute, aborts, threads
<1> QED BY <1>1, <1>2, <1>3, <1>4, <1>5, <1>6, <1>7, <1>8, TypeParts DEF IInv

\* The abort is noted only where open() still looks, and open() holds the mutex there.
LEMMA StopSignalKeeps ==
  ASSUME IInv, NEW t \in Thread, StopSignal(t)
  PROVE  IInv'
<1>1. FlagsOK' /\ AbortsOK'
  BY TypeParts DEF IInv, FlagsOK, AbortsOK, StopSignal, Calling, conn, session, mute, aborts, threads
<1>2. SessionOK'
  BY TypeParts DEF IInv, SessionOK, StopSignal, Calling, conn, session, mute, aborts, threads
<1>3. ControlOK'
  BY TypeParts, HeadOf, Labels, Goes, Returns DEF IInv, StopSignal, Calling
<1>4. Holders'
  BY TypeParts, Moved DEF IInv, Holders, FlagsOK, SessionOK, Thread, OpenPc, ClosePc, StopSignal,
     Calling, conn, session, mute, aborts, threads
<1>5. AbortSeen'
  <2>1. pc'[t] = "stop.lock" /\ m_openAbortRequested' = TRUE
        /\ \A u \in Thread : u # t => pc'[u] = pc[u]
    BY TypeParts, Moved DEF IInv, StopSignal
  <2>2. abortDue' => pc[lifecycle] \in StillLooks
    BY DEF StopSignal
  <2>3. \A u \in Thread : pc[u] \in OpenPc => lifecycle = u
    BY DEF IInv, Holders
  <2>4. "stop.lock" \notin OpenPc
    BY DEF OpenPc
  <2> QED BY <2>1, <2>2, <2>3, <2>4 DEF AbortSeen
<1>6. WorkerServes'
  BY TypeParts, Moved DEF IInv, WorkerServes, FlagsOK, SessionOK, Thread, StopSignal, Calling, conn,
     session, mute, aborts, threads
<1>7. Unmuted'
  BY TypeParts, Moved DEF IInv, Holders, Unmuted, GettingOnline, Online, FlagsOK, SessionOK, Thread,
     OpenPc, ClosePc, StopSignal, Calling, conn, session, mute, aborts, threads
<1>8. FormatKnown'
  BY TypeParts, Moved, HeadOf DEF IInv, Holders, Unmuted, FormatKnown, GettingOnline, Online, FlagsOK,
     SessionOK, Thread, OpenPc, ClosePc, StopSignal, Calling, conn, session, mute, aborts, threads
<1> QED BY <1>1, <1>2, <1>3, <1>4, <1>5, <1>6, <1>7, <1>8, TypeParts DEF IInv

LEMMA StopLockedKeeps ==
  ASSUME IInv, NEW t \in Thread, StopLocked(t)
  PROVE  IInv'
<1>1. FlagsOK' /\ AbortsOK'
  BY TypeParts DEF IInv, FlagsOK, AbortsOK, StopLocked, conn, session, mute, aborts, threads
<1>2. SessionOK'
  BY TypeParts DEF IInv, SessionOK, StopLocked, conn, session, mute, aborts, threads
<1>3. ControlOK'
  BY TypeParts, HeadOf, Labels, Goes, Returns DEF IInv, StopLocked
<1>4. Holders'
  BY TypeParts, Moved DEF IInv, Holders, FlagsOK, SessionOK, Thread, OpenPc, ClosePc, StopLocked, conn,
     session, mute, aborts, threads
<1>5. AbortSeen'
  BY TypeParts, Moved DEF IInv, Holders, AbortSeen, FlagsOK, SessionOK, Thread, OpenPc, ClosePc,
     StillLooks, StopLocked, conn, session, mute, aborts, threads
<1>6. WorkerServes'
  BY TypeParts, Moved DEF IInv, WorkerServes, FlagsOK, SessionOK, Thread, StopLocked, conn, session,
     mute, aborts, threads
<1>7. Unmuted'
  BY TypeParts, Moved DEF IInv, Holders, Unmuted, GettingOnline, Online, FlagsOK, SessionOK, Thread,
     OpenPc, ClosePc, StopLocked, conn, session, mute, aborts, threads
<1>8. FormatKnown'
  BY TypeParts, Moved, HeadOf DEF IInv, Holders, Unmuted, FormatKnown, GettingOnline, Online, FlagsOK,
     SessionOK, Thread, OpenPc, ClosePc, StopLocked, conn, session, mute, aborts, threads
<1> QED BY <1>1, <1>2, <1>3, <1>4, <1>5, <1>6, <1>7, <1>8, TypeParts DEF IInv

LEMMA PausePlaybackKeeps ==
  ASSUME IInv, NEW t \in Thread, PausePlayback(t)
  PROVE  IInv'
<1>1. FlagsOK' /\ AbortsOK'
  BY TypeParts DEF IInv, FlagsOK, AbortsOK, PausePlayback, Calling, conn, session, mute, aborts, threads
<1>2. SessionOK'
  BY TypeParts DEF IInv, SessionOK, PausePlayback, Calling, conn, session, mute, aborts, threads
<1>3. ControlOK'
  BY TypeParts, HeadOf, Labels, Goes, Returns DEF IInv, PausePlayback, Calling
<1>4. Holders'
  BY TypeParts, Moved DEF IInv, Holders, FlagsOK, SessionOK, Thread, OpenPc, ClosePc, PausePlayback,
     Calling, conn, session, mute, aborts, threads
<1>5. AbortSeen'
  BY TypeParts, Moved DEF IInv, Holders, AbortSeen, FlagsOK, SessionOK, Thread, OpenPc, ClosePc,
     StillLooks, PausePlayback, Calling, conn, session, mute, aborts, threads
<1>6. WorkerServes'
  BY TypeParts, Moved DEF IInv, WorkerServes, FlagsOK, SessionOK, Thread, PausePlayback, Calling, conn,
     session, mute, aborts, threads
<1>7. Unmuted'
  BY TypeParts, Moved DEF IInv, Holders, Unmuted, GettingOnline, Online, FlagsOK, SessionOK, Thread,
     OpenPc, ClosePc, PausePlayback, Calling, conn, session, mute, aborts, threads
<1>8. FormatKnown'
  BY TypeParts, Moved, HeadOf DEF IInv, Holders, Unmuted, FormatKnown, GettingOnline, Online, FlagsOK,
     SessionOK, Thread, OpenPc, ClosePc, PausePlayback, Calling, conn, session, mute, aborts, threads
<1> QED BY <1>1, <1>2, <1>3, <1>4, <1>5, <1>6, <1>7, <1>8, TypeParts DEF IInv

LEMMA ResumePlaybackKeeps ==
  ASSUME IInv, NEW t \in Thread, ResumePlayback(t)
  PROVE  IInv'
<1>1. FlagsOK' /\ AbortsOK'
  BY TypeParts DEF IInv, FlagsOK, AbortsOK, ResumePlayback, Calling, conn, session, mute, aborts,
     threads
<1>2. SessionOK'
  BY TypeParts DEF IInv, SessionOK, ResumePlayback, Calling, conn, session, mute, aborts, threads
<1>3. ControlOK'
  BY TypeParts, HeadOf, Labels, Goes, Returns DEF IInv, ResumePlayback, Calling
<1>4. Holders'
  BY TypeParts, Moved DEF IInv, Holders, FlagsOK, SessionOK, Thread, OpenPc, ClosePc, ResumePlayback,
     Calling, conn, session, mute, aborts, threads
<1>5. AbortSeen'
  BY TypeParts, Moved DEF IInv, Holders, AbortSeen, FlagsOK, SessionOK, Thread, OpenPc, ClosePc,
     StillLooks, ResumePlayback, Calling, conn, session, mute, aborts, threads
<1>6. WorkerServes'
  BY TypeParts, Moved DEF IInv, WorkerServes, FlagsOK, SessionOK, Thread, ResumePlayback, Calling, conn,
     session, mute, aborts, threads
<1>7. Unmuted'
  BY TypeParts, Moved DEF IInv, Holders, Unmuted, GettingOnline, Online, FlagsOK, SessionOK, Thread,
     OpenPc, ClosePc, ResumePlayback, Calling, conn, session, mute, aborts, threads
<1>8. FormatKnown'
  BY TypeParts, Moved, HeadOf DEF IInv, Holders, Unmuted, FormatKnown, GettingOnline, Online, FlagsOK,
     SessionOK, Thread, OpenPc, ClosePc, ResumePlayback, Calling, conn, session, mute, aborts, threads
<1> QED BY <1>1, <1>2, <1>3, <1>4, <1>5, <1>6, <1>7, <1>8, TypeParts DEF IInv

LEMMA ReleaseKeeps ==
  ASSUME IInv, NEW t \in Thread, Release(t)
  PROVE  IInv'
<1>1. FlagsOK' /\ AbortsOK'
  BY TypeParts DEF IInv, FlagsOK, AbortsOK, Release, Calling, ResetFailed, SessionReset, SdkCloses,
     conn, session, mute, aborts, threads
<1>2. SessionOK'
  BY TypeParts DEF IInv, SessionOK, Release, Calling, ResetFailed, SessionReset, SdkCloses, conn,
     session, mute, aborts, threads
<1>3. ControlOK'
  BY TypeParts, HeadOf, Labels, Goes, Returns DEF IInv, Release, Calling, ResetFailed, SessionReset,
     SdkCloses
<1>4. Holders'
  BY TypeParts, Moved DEF IInv, Holders, FlagsOK, SessionOK, Thread, OpenPc, ClosePc, Release, Calling,
     ResetFailed, SessionReset, SdkCloses, conn, session, mute, aborts, threads
<1>5. AbortSeen'
  BY TypeParts, Moved DEF IInv, Holders, AbortSeen, FlagsOK, SessionOK, Thread, OpenPc, ClosePc,
     StillLooks, Release, Calling, ResetFailed, SessionReset, SdkCloses, conn, session, mute, aborts,
     threads
<1>6. WorkerServes'
  BY TypeParts, Moved DEF IInv, WorkerServes, FlagsOK, SessionOK, Thread, Release, Calling, ResetFailed,
     SessionReset, SdkCloses, conn, session, mute, aborts, threads
<1>7. Unmuted'
  BY TypeParts, Moved DEF IInv, Holders, Unmuted, GettingOnline, Online, FlagsOK, SessionOK, Thread,
     OpenPc, ClosePc, Release, Calling, ResetFailed, SessionReset, SdkCloses, conn, session, mute,
     aborts, threads
<1>8. FormatKnown'
  BY TypeParts, Moved, HeadOf DEF IInv, Holders, Unmuted, FormatKnown, GettingOnline, Online, FlagsOK,
     SessionOK, Thread, OpenPc, ClosePc, Release, Calling, ResetFailed, SessionReset, SdkCloses, conn,
     session, mute, aborts, threads
<1> QED BY <1>1, <1>2, <1>3, <1>4, <1>5, <1>6, <1>7, <1>8, TypeParts DEF IInv

LEMMA ReleaseClosesKeeps ==
  ASSUME IInv, NEW t \in Thread, ReleaseCloses(t)
  PROVE  IInv'
<1>1. FlagsOK' /\ AbortsOK'
  BY TypeParts DEF IInv, FlagsOK, AbortsOK, ReleaseCloses, Calling, Locks, conn, session, mute, aborts,
     threads
<1>2. SessionOK'
  BY TypeParts DEF IInv, SessionOK, ReleaseCloses, Calling, Locks, conn, session, mute, aborts, threads
<1>3. ControlOK'
  BY TypeParts, HeadOf, Labels, Controls DEF IInv, ClosePc, ReleaseCloses, Calling, Locks
<1>4. Holders'
  BY TypeParts, Moved DEF IInv, Holders, FlagsOK, SessionOK, Thread, OpenPc, ClosePc, ReleaseCloses,
     Calling, Locks, conn, session, mute, aborts, threads
<1>5. AbortSeen'
  BY TypeParts, Moved DEF IInv, Holders, AbortSeen, FlagsOK, SessionOK, Thread, OpenPc, ClosePc,
     StillLooks, ReleaseCloses, Calling, Locks, conn, session, mute, aborts, threads
<1>6. WorkerServes'
  BY TypeParts, Moved DEF IInv, WorkerServes, FlagsOK, SessionOK, Thread, ReleaseCloses, Calling, Locks,
     conn, session, mute, aborts, threads
<1>7. Unmuted'
  BY TypeParts, Moved DEF IInv, Holders, Unmuted, GettingOnline, Online, FlagsOK, SessionOK, Thread,
     OpenPc, ClosePc, ReleaseCloses, Calling, Locks, conn, session, mute, aborts, threads
<1>8. FormatKnown'
  BY TypeParts, Moved, HeadOf DEF IInv, Holders, Unmuted, FormatKnown, GettingOnline, Online, FlagsOK,
     SessionOK, Thread, OpenPc, ClosePc, ReleaseCloses, Calling, Locks, conn, session, mute, aborts,
     threads
<1> QED BY <1>1, <1>2, <1>3, <1>4, <1>5, <1>6, <1>7, <1>8, TypeParts DEF IInv

\* From here to the join the worker may have no session.
LEMMA CloseSdkKeeps ==
  ASSUME IInv, NEW t \in Thread, CloseSdk(t)
  PROVE  IInv'
<1>1. FlagsOK' /\ AbortsOK'
  BY TypeParts DEF IInv, FlagsOK, AbortsOK, CloseSdk, SdkCloses, conn, session, mute, aborts, threads
<1>2. SessionOK'
  BY TypeParts DEF IInv, SessionOK, CloseSdk, SdkCloses, conn, session, mute, aborts, threads
<1>3. ControlOK'
  BY TypeParts, HeadOf, Labels, Controls DEF IInv, ClosePc, CloseSdk, SdkCloses
<1>4. Holders'
  BY TypeParts, Moved DEF IInv, Holders, FlagsOK, SessionOK, Thread, OpenPc, ClosePc, CloseSdk,
     SdkCloses, conn, session, mute, aborts, threads
<1>5. AbortSeen'
  BY TypeParts, Moved DEF IInv, Holders, AbortSeen, FlagsOK, SessionOK, Thread, OpenPc, ClosePc,
     StillLooks, CloseSdk, SdkCloses, conn, session, mute, aborts, threads
<1>6. WorkerServes'
  BY TypeParts, Moved DEF IInv, WorkerServes, FlagsOK, SessionOK, Thread, CloseSdk, SdkCloses, conn,
     session, mute, aborts, threads
<1>7. Unmuted'
  BY TypeParts, Moved DEF IInv, Holders, Unmuted, GettingOnline, Online, FlagsOK, SessionOK, Thread,
     OpenPc, ClosePc, CloseSdk, SdkCloses, conn, session, mute, aborts, threads
<1>8. FormatKnown'
  BY TypeParts, Moved, HeadOf DEF IInv, Holders, Unmuted, FormatKnown, GettingOnline, Online, FlagsOK,
     SessionOK, Thread, OpenPc, ClosePc, CloseSdk, SdkCloses, conn, session, mute, aborts, threads
<1> QED BY <1>1, <1>2, <1>3, <1>4, <1>5, <1>6, <1>7, <1>8, TypeParts DEF IInv

LEMMA CloseJoinKeeps ==
  ASSUME IInv, NEW t \in Thread, CloseJoin(t)
  PROVE  IInv'
<1>1. FlagsOK' /\ AbortsOK'
  BY TypeParts DEF IInv, FlagsOK, AbortsOK, CloseJoin, conn, session, mute, aborts, threads
<1>2. SessionOK'
  BY TypeParts DEF IInv, SessionOK, CloseJoin, conn, session, mute, aborts, threads
<1>3. ControlOK'
  BY TypeParts, HeadOf, Labels, Controls DEF IInv, ClosePc, CloseJoin
<1>4. Holders'
  BY TypeParts, Moved DEF IInv, Holders, FlagsOK, SessionOK, Thread, OpenPc, ClosePc, CloseJoin, conn,
     session, mute, aborts, threads
<1>5. AbortSeen'
  BY TypeParts, Moved DEF IInv, Holders, AbortSeen, FlagsOK, SessionOK, Thread, OpenPc, ClosePc,
     StillLooks, CloseJoin, conn, session, mute, aborts, threads
<1>6. WorkerServes'
  BY TypeParts, Moved DEF IInv, WorkerServes, FlagsOK, SessionOK, Thread, CloseJoin, conn, session,
     mute, aborts, threads
<1>7. Unmuted'
  BY TypeParts, Moved DEF IInv, Holders, Unmuted, GettingOnline, Online, FlagsOK, SessionOK, Thread,
     OpenPc, ClosePc, CloseJoin, conn, session, mute, aborts, threads
<1>8. FormatKnown'
  BY TypeParts, Moved, HeadOf DEF IInv, Holders, Unmuted, FormatKnown, GettingOnline, Online, FlagsOK,
     SessionOK, Thread, OpenPc, ClosePc, CloseJoin, conn, session, mute, aborts, threads
<1> QED BY <1>1, <1>2, <1>3, <1>4, <1>5, <1>6, <1>7, <1>8, TypeParts DEF IInv

LEMMA ResetDisconnectedKeeps ==
  ASSUME IInv, NEW t \in Thread, ResetDisconnected(t)
  PROVE  IInv'
<1>1. FlagsOK' /\ AbortsOK'
  BY TypeParts, ZenonT(40) DEF IInv, FlagsOK, AbortsOK, ResetDisconnected, Calling, ResetFailed, SessionReset,
     SdkCloses, conn, session, mute, aborts, threads
<1>2. SessionOK'
  BY TypeParts DEF IInv, SessionOK, ResetDisconnected, Calling, ResetFailed, SessionReset, SdkCloses,
     conn, session, mute, aborts, threads
<1>3. ControlOK'
  BY TypeParts, HeadOf, Labels, Goes, Returns DEF IInv, ResetDisconnected, Calling, ResetFailed,
     SessionReset, SdkCloses
<1>4. Holders'
  BY TypeParts, Moved DEF IInv, Holders, FlagsOK, SessionOK, Thread, OpenPc, ClosePc, ResetDisconnected,
     Calling, ResetFailed, SessionReset, SdkCloses, conn, session, mute, aborts, threads
<1>5. AbortSeen'
  BY TypeParts, Moved DEF IInv, Holders, AbortSeen, FlagsOK, SessionOK, Thread, OpenPc, ClosePc,
     StillLooks, ResetDisconnected, Calling, ResetFailed, SessionReset, SdkCloses, conn, session, mute,
     aborts, threads
<1>6. WorkerServes'
  BY TypeParts, Moved DEF IInv, WorkerServes, FlagsOK, SessionOK, Thread, ResetDisconnected, Calling,
     ResetFailed, SessionReset, SdkCloses, conn, session, mute, aborts, threads
<1>7. Unmuted'
  BY TypeParts, Moved DEF IInv, Holders, Unmuted, GettingOnline, Online, FlagsOK, SessionOK, Thread,
     OpenPc, ClosePc, ResetDisconnected, Calling, ResetFailed, SessionReset, SdkCloses, conn, session,
     mute, aborts, threads
<1>8. FormatKnown'
  BY TypeParts, Moved, HeadOf DEF IInv, Holders, Unmuted, FormatKnown, GettingOnline, Online, FlagsOK,
     SessionOK, Thread, OpenPc, ClosePc, ResetDisconnected, Calling, ResetFailed, SessionReset,
     SdkCloses, conn, session, mute, aborts, threads
<1> QED BY <1>1, <1>2, <1>3, <1>4, <1>5, <1>6, <1>7, <1>8, TypeParts DEF IInv

LEMMA ReconnectKeeps ==
  ASSUME IInv, NEW t \in Thread, Reconnect(t)
  PROVE  IInv'
<1>1. FlagsOK' /\ AbortsOK'
  BY TypeParts, ZenonT(40) DEF IInv, FlagsOK, AbortsOK, Reconnect, Calling, ResetFailed, SessionReset, SdkCloses,
     SessionReopened, conn, session, mute, aborts, threads
<1>2. SessionOK'
  BY TypeParts DEF IInv, SessionOK, Reconnect, Calling, ResetFailed, SessionReset, SdkCloses,
     SessionReopened, conn, session, mute, aborts, threads
<1>3. ControlOK'
  BY TypeParts, HeadOf, Labels, Goes, Returns DEF IInv, Reconnect, Calling, ResetFailed, SessionReset,
     SdkCloses, SessionReopened
<1>4. Holders'
  BY TypeParts, Moved DEF IInv, Holders, FlagsOK, SessionOK, Thread, OpenPc, ClosePc, Reconnect,
     Calling, ResetFailed, SessionReset, SdkCloses, SessionReopened, conn, session, mute, aborts,
     threads
<1>5. AbortSeen'
  BY TypeParts, Moved DEF IInv, Holders, AbortSeen, FlagsOK, SessionOK, Thread, OpenPc, ClosePc,
     StillLooks, Reconnect, Calling, ResetFailed, SessionReset, SdkCloses, SessionReopened, conn,
     session, mute, aborts, threads
<1>6. WorkerServes'
  BY TypeParts, Moved DEF IInv, WorkerServes, FlagsOK, SessionOK, Thread, Reconnect, Calling,
     ResetFailed, SessionReset, SdkCloses, SessionReopened, conn, session, mute, aborts, threads
<1>7. Unmuted'
  BY TypeParts, Moved DEF IInv, Holders, Unmuted, GettingOnline, Online, FlagsOK, SessionOK, Thread,
     OpenPc, ClosePc, Reconnect, Calling, ResetFailed, SessionReset, SdkCloses, SessionReopened, conn,
     session, mute, aborts, threads
<1>8. FormatKnown'
  BY TypeParts, Moved, HeadOf DEF IInv, Holders, Unmuted, FormatKnown, GettingOnline, Online, FlagsOK,
     SessionOK, Thread, OpenPc, ClosePc, Reconnect, Calling, ResetFailed, SessionReset, SdkCloses,
     SessionReopened, conn, session, mute, aborts, threads
<1> QED BY <1>1, <1>2, <1>3, <1>4, <1>5, <1>6, <1>7, <1>8, TypeParts DEF IInv

\* enable() and disable() come between the steps of the others: what they open is not
\* online, and what they leave online is disabled.
LEMMA EnableKeeps ==
  ASSUME IInv, NEW t \in Thread, Enable(t)
  PROVE  IInv'
<1>1. FlagsOK' /\ AbortsOK'
  BY TypeParts, ZenonT(40) DEF IInv, FlagsOK, AbortsOK, Enable, Calling, SdkOpens, conn, session, mute, aborts,
     threads
<1>2. SessionOK'
  BY TypeParts DEF IInv, SessionOK, Enable, Calling, SdkOpens, conn, session, mute, aborts, threads
<1>3. ControlOK'
  BY TypeParts, HeadOf, Labels, Goes, Returns DEF IInv, Enable, Calling, SdkOpens
<1>4. Holders'
  BY TypeParts, Moved DEF IInv, Holders, FlagsOK, SessionOK, Thread, OpenPc, ClosePc, Enable, Calling,
     SdkOpens, conn, session, mute, aborts, threads
<1>5. AbortSeen'
  BY TypeParts, Moved DEF IInv, Holders, AbortSeen, FlagsOK, SessionOK, Thread, OpenPc, ClosePc,
     StillLooks, Enable, Calling, SdkOpens, conn, session, mute, aborts, threads
<1>6. WorkerServes'
  BY TypeParts, Moved DEF IInv, WorkerServes, FlagsOK, SessionOK, Thread, Enable, Calling, SdkOpens,
     conn, session, mute, aborts, threads
<1>7. Unmuted'
  BY TypeParts, Moved DEF IInv, Holders, Unmuted, GettingOnline, Online, FlagsOK, SessionOK, Thread,
     OpenPc, ClosePc, Enable, Calling, SdkOpens, conn, session, mute, aborts, threads
<1>8. FormatKnown'
  BY TypeParts, Moved, HeadOf DEF IInv, Holders, Unmuted, FormatKnown, GettingOnline, Online, FlagsOK,
     SessionOK, Thread, OpenPc, ClosePc, Enable, Calling, SdkOpens, conn, session, mute, aborts, threads
<1> QED BY <1>1, <1>2, <1>3, <1>4, <1>5, <1>6, <1>7, <1>8, TypeParts DEF IInv

LEMMA DisableSignalKeeps ==
  ASSUME IInv, NEW t \in Thread, DisableSignal(t)
  PROVE  IInv'
<1>1. FlagsOK' /\ AbortsOK'
  BY TypeParts DEF IInv, FlagsOK, AbortsOK, DisableSignal, Calling, conn, session, mute, aborts, threads
<1>2. SessionOK'
  BY TypeParts DEF IInv, SessionOK, DisableSignal, Calling, conn, session, mute, aborts, threads
<1>3. ControlOK'
  BY TypeParts, HeadOf, Labels, Goes, Returns DEF IInv, DisableSignal, Calling
<1>4. Holders'
  BY TypeParts, Moved DEF IInv, Holders, FlagsOK, SessionOK, Thread, OpenPc, ClosePc, DisableSignal,
     Calling, conn, session, mute, aborts, threads
<1>5. AbortSeen'
  BY TypeParts, Moved DEF IInv, Holders, AbortSeen, FlagsOK, SessionOK, Thread, OpenPc, ClosePc,
     StillLooks, DisableSignal, Calling, conn, session, mute, aborts, threads
<1>6. WorkerServes'
  BY TypeParts, Moved DEF IInv, WorkerServes, FlagsOK, SessionOK, Thread, DisableSignal, Calling, conn,
     session, mute, aborts, threads
<1>7. Unmuted'
  BY TypeParts, Moved DEF IInv, Holders, Unmuted, GettingOnline, Online, FlagsOK, SessionOK, Thread,
     OpenPc, ClosePc, DisableSignal, Calling, conn, session, mute, aborts, threads
<1>8. FormatKnown'
  BY TypeParts, Moved, HeadOf DEF IInv, Holders, Unmuted, FormatKnown, GettingOnline, Online, FlagsOK,
     SessionOK, Thread, OpenPc, ClosePc, DisableSignal, Calling, conn, session, mute, aborts, threads
<1> QED BY <1>1, <1>2, <1>3, <1>4, <1>5, <1>6, <1>7, <1>8, TypeParts DEF IInv

LEMMA DisableCloseKeeps ==
  ASSUME IInv, NEW t \in Thread, DisableClose(t)
  PROVE  IInv'
<1>1. FlagsOK' /\ AbortsOK'
  BY TypeParts DEF IInv, FlagsOK, AbortsOK, DisableClose, Locks, conn, session, mute, aborts, threads
<1>2. SessionOK'
  BY TypeParts DEF IInv, SessionOK, DisableClose, Locks, conn, session, mute, aborts, threads
<1>3. ControlOK'
  <2>1. calls[t] # <<>> /\ Head(calls[t]).op = "disable"
    BY TypeParts, HeadOf, Labels DEF IInv, DisableClose
  <2>2. GoTo(t, "close") \/ GoTo(t, "disable.rest")
    BY DEF DisableClose
  <2> QED BY <2>1, <2>2, TypeParts, Controls DEF IInv, ClosePc
<1>4. Holders'
  BY TypeParts, Moved DEF IInv, Holders, FlagsOK, SessionOK, Thread, OpenPc, ClosePc, DisableClose,
     Locks, conn, session, mute, aborts, threads
<1>5. AbortSeen'
  BY TypeParts, Moved DEF IInv, Holders, AbortSeen, FlagsOK, SessionOK, Thread, OpenPc, ClosePc,
     StillLooks, DisableClose, Locks, conn, session, mute, aborts, threads
<1>6. WorkerServes'
  BY TypeParts, Moved DEF IInv, WorkerServes, FlagsOK, SessionOK, Thread, DisableClose, Locks, conn,
     session, mute, aborts, threads
<1>7. Unmuted'
  BY TypeParts, Moved DEF IInv, Holders, Unmuted, GettingOnline, Online, FlagsOK, SessionOK, Thread,
     OpenPc, ClosePc, DisableClose, Locks, conn, session, mute, aborts, threads
<1>8. FormatKnown'
  BY TypeParts, Moved, HeadOf DEF IInv, Holders, Unmuted, FormatKnown, GettingOnline, Online, FlagsOK,
     SessionOK, Thread, OpenPc, ClosePc, DisableClose, Locks, conn, session, mute, aborts, threads
<1> QED BY <1>1, <1>2, <1>3, <1>4, <1>5, <1>6, <1>7, <1>8, TypeParts DEF IInv

LEMMA DisableRestKeeps ==
  ASSUME IInv, NEW t \in Thread, DisableRest(t)
  PROVE  IInv'
<1>1. FlagsOK' /\ AbortsOK'
  BY TypeParts DEF IInv, FlagsOK, AbortsOK, DisableRest, SessionReset, SdkCloses, conn, session, mute,
     aborts, threads
<1>2. SessionOK'
  BY TypeParts DEF IInv, SessionOK, DisableRest, SessionReset, SdkCloses, conn, session, mute, aborts,
     threads
<1>3. ControlOK'
  BY TypeParts, HeadOf, Labels, Goes, Returns DEF IInv, DisableRest, SessionReset, SdkCloses
<1>4. Holders'
  BY TypeParts, Moved DEF IInv, Holders, FlagsOK, SessionOK, Thread, OpenPc, ClosePc, DisableRest,
     SessionReset, SdkCloses, conn, session, mute, aborts, threads
<1>5. AbortSeen'
  BY TypeParts, Moved DEF IInv, Holders, AbortSeen, FlagsOK, SessionOK, Thread, OpenPc, ClosePc,
     StillLooks, DisableRest, SessionReset, SdkCloses, conn, session, mute, aborts, threads
<1>6. WorkerServes'
  BY TypeParts, Moved DEF IInv, WorkerServes, FlagsOK, SessionOK, Thread, DisableRest, SessionReset,
     SdkCloses, conn, session, mute, aborts, threads
<1>7. Unmuted'
  BY TypeParts, Moved DEF IInv, Holders, Unmuted, GettingOnline, Online, FlagsOK, SessionOK, Thread,
     OpenPc, ClosePc, DisableRest, SessionReset, SdkCloses, conn, session, mute, aborts, threads
<1>8. FormatKnown'
  BY TypeParts, Moved, HeadOf DEF IInv, Holders, Unmuted, FormatKnown, GettingOnline, Online, FlagsOK,
     SessionOK, Thread, OpenPc, ClosePc, DisableRest, SessionReset, SdkCloses, conn, session, mute,
     aborts, threads
<1> QED BY <1>1, <1>2, <1>3, <1>4, <1>5, <1>6, <1>7, <1>8, TypeParts DEF IInv

-----------------------------------------------------------------------------
(* The other steps, and the theorems. *)

\* A handler begins with a list of calls.
LEMMA StartKeeps ==
  ASSUME IInv, NEW t \in Thread, NEW handler, NEW list \in Seq(Call), Start(t, handler, list)
  PROVE  IInv'
<1>1. /\ UNCHANGED <<m_enabled, m_sdkOpen, m_open, m_playing, m_paused, m_previousFormat, m_currentFormat,
                     m_stopRequested, m_draining, m_openAbortRequested, m_transitionWakeup, lifecycle,
                     sdk, sinkFormat, worker, pc, abortDue>>
      /\ pc[t] = "idle" /\ calls' = [calls EXCEPT ![t] = list]
  BY DEF Start, conn, session, mute, aborts
<1>2. FlagsOK' /\ AbortsOK'
  BY <1>1, TypeParts DEF IInv, FlagsOK, AbortsOK
<1>3. SessionOK'
  BY <1>1, TypeParts DEF IInv, SessionOK
<1>4. ControlOK' /\ \A u \in Thread : pc[u] # "idle" => calls'[u] = calls[u]
  BY <1>1, TypeParts DEF IInv, ControlOK
<1>5. Holders' /\ AbortSeen' /\ WorkerServes'
  BY <1>1 DEF IInv, Holders, AbortSeen, WorkerServes
<1>6. Unmuted'
  BY <1>1 DEF IInv, Unmuted, GettingOnline, Online
<1>7. FormatKnown'
  BY <1>1, <1>4 DEF IInv, FormatKnown, GettingOnline, Online
<1> QED BY <1>2, <1>3, <1>4, <1>5, <1>6, <1>7, TypeParts DEF IInv

LEMMA ClientsKeep ==
  ASSUME IInv, Clients
  PROVE  IInv'
<1>1. /\ \A format \in Format : Open(format) \in Call
      /\ \A immediate \in BOOLEAN : Stop(immediate) \in Call
      /\ \A op \in {"release", "pause", "resume", "resetDisconnected", "reconnect", "disable", "enable"} :
           Plain(op) \in Call
  BY DEF Open, Stop, Plain, Call
<1>2. /\ \A call \in Call : <<call>> \in Seq(Call)
      /\ \A call, next \in Call : <<call, next>> \in Seq(Call)
      /\ \A a, b, c, d \in Call : <<a, b, c, d>> \in Seq(Call)
  OBVIOUS
<1>3. "audio" \in Thread /\ "command" \in Thread
  BY DEF Thread
<1>4. CASE \E format \in Format : Callback(format)
  BY <1>1, <1>2, <1>3, <1>4, StartKeeps DEF Callback
<1>5. CASE TrackEnd \/ Disconnected \/ StopHandler \/ UriChange
  BY <1>1, <1>2, <1>3, <1>5, StartKeeps DEF TrackEnd, Disconnected, StopHandler, UriChange
<1>6. CASE PauseHandler \/ ResumeHandler \/ PlayOffline \/ CleanupFailed
  BY <1>1, <1>2, <1>3, <1>6, StartKeeps DEF PauseHandler, ResumeHandler, PlayOffline, CleanupFailed
<1>7. CASE SelectTarget
  <2>1. <<Plain("disable"), Plain("enable"), Open(Warmup), Stop(TRUE)>> \in Seq(Call)
    BY <1>1, <1>2
  <2> QED BY <1>3, <1>7, <2>1, StartKeeps DEF SelectTarget
<1> QED BY <1>4, <1>5, <1>6, <1>7 DEF Clients

LEMMA TargetDropsKeeps ==
  ASSUME IInv, TargetDrops
  PROVE  IInv'
<1>1. /\ sdk' = "lost"
      /\ UNCHANGED <<m_enabled, m_sdkOpen, m_open, m_playing, m_paused, m_previousFormat, m_currentFormat,
                     m_stopRequested, m_draining, m_openAbortRequested, m_transitionWakeup, lifecycle,
                     sinkFormat, worker, pc, calls, abortDue>>
  BY DEF TargetDrops, conn, mute, aborts, threads
<1>2. FlagsOK' /\ AbortsOK'
  BY <1>1, TypeParts DEF IInv, FlagsOK, AbortsOK
<1>3. SessionOK' /\ ControlOK'
  BY <1>1, TypeParts DEF IInv, SessionOK, ControlOK
<1>4. Holders' /\ AbortSeen' /\ WorkerServes'
  BY <1>1 DEF IInv, Holders, AbortSeen, WorkerServes
<1>5. Unmuted' /\ FormatKnown'
  BY <1>1 DEF IInv, Unmuted, FormatKnown, Online
<1> QED BY <1>2, <1>3, <1>4, <1>5, TypeParts DEF IInv

LEMMA StutterKeeps ==
  ASSUME IInv, UNCHANGED vars
  PROVE  IInv'
<1>1. UNCHANGED <<m_enabled, m_sdkOpen, m_open, m_playing, m_paused, m_previousFormat, m_currentFormat,
                  m_stopRequested, m_draining, m_openAbortRequested, m_transitionWakeup, lifecycle,
                  sdk, sinkFormat, worker, pc, calls, abortDue>>
  BY DEF vars, conn, session, mute, aborts, threads
<1>2. FlagsOK' /\ AbortsOK'
  BY <1>1, TypeParts DEF IInv, FlagsOK, AbortsOK
<1>3. SessionOK' /\ ControlOK'
  BY <1>1, TypeParts DEF IInv, SessionOK, ControlOK
<1>4. Holders' /\ AbortSeen' /\ WorkerServes'
  BY <1>1 DEF IInv, Holders, AbortSeen, WorkerServes
<1>5. Unmuted' /\ FormatKnown'
  BY <1>1 DEF IInv, Unmuted, FormatKnown, Online, GettingOnline
<1> QED BY <1>2, <1>3, <1>4, <1>5, TypeParts DEF IInv

LEMMA InitIInv == Init => IInv
<1> SUFFICES ASSUME Init PROVE IInv
  OBVIOUS
<1>1. FlagsOK /\ AbortsOK
  BY DEF Init, FlagsOK, AbortsOK
<1>2. SessionOK
  BY DEF Init, SessionOK
<1>3. ControlOK
  BY DEF Init, ControlOK, Pc
<1>4. Holders /\ AbortSeen /\ WorkerServes
  BY DEF Init, Holders, AbortSeen, WorkerServes, OpenPc, ClosePc, Thread
<1>5. Unmuted /\ FormatKnown
  BY DEF Init, Unmuted, FormatKnown, Online, GettingOnline
<1> QED BY <1>1, <1>2, <1>3, <1>4, <1>5, TypeParts DEF IInv

\* The type invariant and what the four properties below rest on.
THEOREM Inductive == Spec => []IInv
<1>1. Init => IInv
  BY InitIInv
<1>2. IInv /\ [Next]_vars => IInv'
  <2> SUFFICES ASSUME IInv, [Next]_vars PROVE IInv'
    OBVIOUS
  <2>1. CASE Clients
    BY <2>1, ClientsKeep
  <2>2. CASE TargetDrops
    BY <2>2, TargetDropsKeeps
  <2>3. ASSUME NEW t \in Thread, Opening(t)
        PROVE  IInv'
    BY <2>3, OpenEnterKeeps, OpenRefusedKeeps, OpenReconnectKeeps, OpenSdkKeeps, OpenQuickKeeps, OpenChangeKeeps,
       OpenFreshKeeps, OpenWaitKeeps, OpenWaitedKeeps, OpenResetKeeps, OpenConnectKeeps, OpenOnlineKeeps DEF Opening
  <2>4. ASSUME NEW t \in Thread, Closing(t)
        PROVE  IInv'
    BY <2>4, StopSignalKeeps, StopLockedKeeps, PausePlaybackKeeps, ResumePlaybackKeeps, ReleaseKeeps,
       ReleaseClosesKeeps, CloseSdkKeeps, CloseJoinKeeps, ResetDisconnectedKeeps, ReconnectKeeps, EnableKeeps,
       DisableSignalKeeps, DisableCloseKeeps, DisableRestKeeps DEF Closing
  <2>5. CASE UNCHANGED vars
    BY <2>5, StutterKeeps
  <2> QED BY <2>1, <2>2, <2>3, <2>4, <2>5 DEF Next
<1> QED BY <1>1, <1>2, PTL DEF Spec

\* Every value stays in its range, and every thread inside a call of its own.
THEOREM TypeCorrect == Spec => []TypeOK
<1>1. IInv => TypeOK
  BY DEF IInv
<1> QED BY <1>1, Inductive, PTL

\* In every quiet moment, what plays on a target that is there is neither draining nor
\* stopped, whatever calls and failures came before (sendAudio's first test).
THEOREM NeverMuted == Spec => []NotMuted
<1>1. IInv => NotMuted
  BY DEF IInv, NotMuted, Unmuted
<1> QED BY <1>1, Inductive, PTL

\* What plays on a target that is there has the format the sink was set to, and a
\* quick resume compares with that (open, configureSinkPCM, configureSinkDSD).
THEOREM SinkAgrees == Spec => []SinkHasFormat
<1>1. IInv => SinkHasFormat
  <2> SUFFICES ASSUME IInv, SinkHasFormat!1 PROVE SinkHasFormat!2
    BY DEF SinkHasFormat
  <2>1. ~GettingOnline
    BY DEF Quiet, GettingOnline
  <2> QED BY <2>1 DEF IInv, FormatKnown
<1> QED BY <1>1, Inductive, PTL

\* No worker is left without a session (close, joinWorkerWithTimeout).
THEOREM WorkerIsServed == Spec => []WorkerHasSession
<1>1. IInv => WorkerHasSession
  BY DEF IInv, WorkerHasSession, WorkerServes, Quiet
<1> QED BY <1>1, Inductive, PTL

\* An open() that was told to abort while it can still look never connects
\* (stopPlayback, interruptibleWait and the looks of open at m_openAbortRequested).
THEOREM AbortIsHonoured == Spec => []AbortHonoured
<1>1. IInv => AbortHonoured
  BY DEF IInv, AbortHonoured, AbortSeen, OpenPc, StillLooks
<1> QED BY <1>1, Inductive, PTL
=============================================================================
