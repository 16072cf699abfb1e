----------------------------- MODULE RingAccess -----------------------------
(***************************************************************************)
(* The protocol that keeps the ring buffer of DirettaSync whole while it   *)
(* is resized.  A thread that touches the ring (sendAudio, getNewStream,   *)
(* getBufferLevel) takes a RingAccessGuard: it looks at m_reconfiguring,   *)
(* counts itself in m_ringUsers, and looks again.  A thread that resizes   *)
(* the ring (configureRingPCM, configureRingDSD, reopenForFormatChange,    *)
(* fullReset) holds m_lifecycleMutex, raises m_reconfiguring and spins     *)
(* until m_ringUsers is zero.                                              *)
(*                                                                         *)
(* The guard is a store of one variable followed by a load of another, on  *)
(* both sides.  The code asks for acquire/release only, which lets the     *)
(* store of m_reconfiguring wait in the store buffer of its core while the *)
(* load of m_ringUsers is performed (x86: the store is a plain mov).       *)
(* overtook remembers whether the load that ended the spin passed it.      *)
(***************************************************************************)
EXTENDS Naturals, Sequences, FiniteSets

CONSTANTS
  Users,             \* threads that take a RingAccessGuard
  Reconfigurers,     \* threads that resize the ring
  NoOwner,           \* m_lifecycleMutex is free
  StoreBufferDepth   \* bound: how many stores of one core may be in flight

ASSUME RingAccessAssumption ==
  /\ IsFiniteSet(Users)
  /\ NoOwner \notin Reconfigurers
  /\ StoreBufferDepth \in Nat

VARIABLES
  m_reconfiguring,   \* the flag as the other cores see it
  m_ringUsers,       \* the counter
  lifecycle,         \* owner of m_lifecycleMutex
  storeBuffer,       \* stores of the owner to m_reconfiguring still in flight
  user,              \* where each user is in its guard
  reconf,            \* where each reconfigurer is
  overtook           \* history: the last spin ended with the owner's store still in flight

accessVars == <<m_reconfiguring, m_ringUsers, lifecycle, storeBuffer, user, reconf, overtook>>
ownerVars == <<m_reconfiguring, lifecycle, storeBuffer, reconf, overtook>>

UserStates == {"outside", "checked", "counted", "bailing", "inside"}
ReconfStates == {"idle", "locked", "waiting", "resizing"}

AccessTypeOK ==
  /\ m_reconfiguring \in BOOLEAN
  /\ m_ringUsers \in Nat
  /\ lifecycle \in Reconfigurers \cup {NoOwner}
  /\ storeBuffer \in Seq(BOOLEAN)
  /\ user \in [Users -> UserStates]
  /\ reconf \in [Reconfigurers -> ReconfStates]
  /\ overtook \in BOOLEAN

AccessInit ==
  /\ m_reconfiguring = FALSE
  /\ m_ringUsers = 0
  /\ lifecycle = NoOwner
  /\ storeBuffer = <<>>
  /\ user = [u \in Users |-> "outside"]
  /\ reconf = [r \in Reconfigurers |-> "idle"]
  /\ overtook = FALSE

-----------------------------------------------------------------------------
(* RingAccessGuard *)

UserStep(u, from, to) ==
  /\ user[u] = from
  /\ user' = [user EXCEPT ![u] = to]

GuardCheckIgnoresFlag(u) ==
  /\ UserStep(u, "outside", "checked")
  /\ UNCHANGED <<m_ringUsers, ownerVars>>

\* First look: a thread that sees the flag gives up without counting itself.
GuardCheck(u) ==
  /\ ~m_reconfiguring
  /\ UserStep(u, "outside", "checked")
  /\ UNCHANGED <<m_ringUsers, ownerVars>>

GuardCount(u) ==
  /\ UserStep(u, "checked", "counted")
  /\ m_ringUsers' = m_ringUsers + 1
  /\ UNCHANGED ownerVars

GuardRecheckDropped(u) ==
  /\ UserStep(u, "counted", "inside")
  /\ UNCHANGED <<m_ringUsers, ownerVars>>

\* Second look, after the counter is up.
GuardRecheck(u) ==
  /\ UserStep(u, "counted", IF m_reconfiguring THEN "bailing" ELSE "inside")
  /\ UNCHANGED <<m_ringUsers, ownerVars>>

GuardBailKeepsCount(u) ==
  /\ UserStep(u, "bailing", "outside")
  /\ UNCHANGED <<m_ringUsers, ownerVars>>

GuardBail(u) ==
  /\ UserStep(u, "bailing", "outside")
  /\ m_ringUsers' = m_ringUsers - 1
  /\ UNCHANGED ownerVars

GuardLeaveTwice(u) ==
  /\ UserStep(u, "inside", "outside")
  /\ m_ringUsers' \in {m_ringUsers - 1, m_ringUsers - 2}
  /\ UNCHANGED ownerVars

\* ~RingAccessGuard of an active guard.
GuardLeave(u) ==
  /\ UserStep(u, "inside", "outside")
  /\ m_ringUsers' = m_ringUsers - 1
  /\ UNCHANGED ownerVars

-----------------------------------------------------------------------------
(* beginReconfigure / endReconfigure, under m_lifecycleMutex *)

ReconfStep(r, from, to) ==
  /\ reconf[r] = from
  /\ reconf' = [reconf EXCEPT ![r] = to]

\* m_reconfiguring.store(v, release): visible now, or later when buffered.
StoreFlag(v) ==
  \/ /\ storeBuffer = <<>>
     /\ m_reconfiguring' = v
     /\ UNCHANGED storeBuffer
  \/ /\ Len(storeBuffer) < StoreBufferDepth
     /\ storeBuffer' = Append(storeBuffer, v)
     /\ UNCHANGED m_reconfiguring

\* The core of the owner retires its oldest store.
DrainStore ==
  /\ storeBuffer # <<>>
  /\ m_reconfiguring' = Head(storeBuffer)
  /\ storeBuffer' = Tail(storeBuffer)
  /\ UNCHANGED <<m_ringUsers, lifecycle, user, reconf, overtook>>

LockLifecycle(r) ==
  /\ lifecycle = NoOwner
  /\ ReconfStep(r, "idle", "locked")
  /\ lifecycle' = r
  /\ UNCHANGED <<m_reconfiguring, m_ringUsers, storeBuffer, user, overtook>>

BeginReconfigure(r) ==
  /\ ReconfStep(r, "locked", "waiting")
  /\ StoreFlag(TRUE)
  /\ UNCHANGED <<m_ringUsers, lifecycle, user, overtook>>

\* The spin loop of beginReconfigure, when it finds no user: a load of another
\* variable, which does not wait for the store of the flag.
AwaitUsers(r) ==
  /\ m_ringUsers = 0
  /\ ReconfStep(r, "waiting", "resizing")
  /\ overtook' = (storeBuffer # <<>>)
  /\ UNCHANGED <<m_reconfiguring, m_ringUsers, lifecycle, storeBuffer, user>>

EndReconfigure(r) ==
  /\ ReconfStep(r, "resizing", "locked")
  /\ StoreFlag(FALSE)
  /\ UNCHANGED <<m_ringUsers, lifecycle, user, overtook>>

\* Unlocking a mutex is a read-modify-write: the stores before it are visible.
UnlockLifecycle(r) ==
  /\ storeBuffer = <<>>
  /\ ReconfStep(r, "locked", "idle")
  /\ lifecycle' = NoOwner
  /\ UNCHANGED <<m_reconfiguring, m_ringUsers, storeBuffer, user, overtook>>

-----------------------------------------------------------------------------
UserNext(u) ==
  \/ GuardCheck(u)
  \/ GuardCount(u)
  \/ GuardRecheck(u)
  \/ GuardBail(u)
  \/ GuardLeave(u)

ReconfNext(r) ==
  \/ LockLifecycle(r)
  \/ BeginReconfigure(r)
  \/ AwaitUsers(r)
  \/ EndReconfigure(r)
  \/ UnlockLifecycle(r)

AccessNext ==
  \/ \E u \in Users : UserNext(u)
  \/ \E r \in Reconfigurers : ReconfNext(r)
  \/ DrainStore

AccessSpec == AccessInit /\ [][AccessNext]_accessVars

\* A thread inside its guard or inside beginReconfigure is scheduled, and a core
\* retires its stores; nothing obliges a thread to start an access or a resize.
Fairness ==
  /\ \A u \in Users : WF_accessVars(GuardCount(u) \/ GuardRecheck(u) \/ GuardBail(u) \/ GuardLeave(u))
  /\ \A r \in Reconfigurers : WF_accessVars(AwaitUsers(r) \/ EndReconfigure(r))
  /\ WF_accessVars(DrainStore)

FairSpec == AccessSpec /\ Fairness

-----------------------------------------------------------------------------
(* Properties *)

Counted == {u \in Users : user[u] \in {"counted", "bailing", "inside"}}
Resizing == {r \in Reconfigurers : reconf[r] = "resizing"}

\* No thread pushes to, pops from or measures the ring while another resizes it:
\* the promise of the "C2" comments of RingAccessGuard, which acquire/release does
\* not keep.
Exclusion == Resizing # {} => \A u \in Users : user[u] # "inside"

\* What it does keep: the one way for a resize to overlap an access is that the
\* load that ended its spin passed its own store of the flag.  In every other
\* interleaving of looks, counts, spins, and stores that retire late, no thread
\* is inside while the ring is resized.
ExclusionUnlessOvertaken == Resizing # {} /\ ~overtook => \A u \in Users : user[u] # "inside"

\* m_ringUsers is exactly the number of guards that hold a count, through every
\* interleaving of entering, bailing out and leaving.
CountExact == m_ringUsers = Cardinality(Counted)

\* Only the holder of m_lifecycleMutex is between begin- and endReconfigure, so
\* one boolean flag is enough for all the resizing paths.
OneReconfigurer == \A r \in Reconfigurers : reconf[r] # "idle" => lifecycle = r

\* beginReconfigure's spin loop ends however often the audio threads come back:
\* a thread that sees the flag never raises the counter again.
ReconfigureProceeds ==
  \A r \in Reconfigurers : reconf[r] = "waiting" ~> reconf[r] = "resizing"

\* The flag as the owner of m_lifecycleMutex sees it: its last store.
OwnFlag ==
  IF storeBuffer = <<>> THEN m_reconfiguring ELSE storeBuffer[Len(storeBuffer)]

\* Why a resize that was not overtaken is alone: the owner's flag is up exactly
\* while it waits for the users or resizes, and while it resizes all the others
\* see that.
FlagTracksOwner ==
  /\ OwnFlag <=> \E r \in Reconfigurers : reconf[r] \in {"waiting", "resizing"}
  /\ Resizing # {} /\ ~overtook => storeBuffer = <<>>

GuardInv ==
  /\ AccessTypeOK
  /\ CountExact
  /\ OneReconfigurer
  /\ FlagTracksOwner
  /\ ExclusionUnlessOvertaken
=============================================================================
