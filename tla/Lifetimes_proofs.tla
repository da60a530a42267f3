-------------------------- MODULE Lifetimes_proofs --------------------------
(***************************************************************************)
(* Proofs about how sessions and users of the login daemon come and go:    *)
(* the list of sessions, the stop timer, the runtime directory, what is    *)
(* stopped before it is freed, the primary session, the slots of a seat,   *)
(* the session on the foreground VT, users that nothing holds any more,    *)
(* and what the end of a collection rests on.  Most have an inductive      *)
(* invariant of their own, on top of the one of Logind_proofs.             *)
(***************************************************************************)
EXTENDS Logind_proofs

\* The invariant of Logind_proofs always holds.
LEMMA PointersInvariant == Spec => []IInv
BY InitIInv, NextIInv, PTL DEF Spec

-----------------------------------------------------------------------------
(***************************************************************************)
(* What a step can do to sessions and users: create a session, stop one,   *)
(* free one, change its type or class, change a user, or leave the list of *)
(* sessions, their slots and flags, and the users alone.                   *)
(***************************************************************************)
Creates == \E s \in SessionIds, u \in Uids, c \in Classes, t \in Types,
              e \in Seats \cup {Nil}, v \in 0 .. MaxVT : CreateSession(s, u, c, t, e, v)

\* session_stop() past its early returns, and nothing else but the walk.
Stops(s) ==
    /\ s \in started \ stopping /\ session_stop_running(s)
    /\ UNCHANGED <<info, order, started, procVars, seats, master, active, pending,
                   vtVars, users, uStarted, uStopping, byPin, stamped, uTimer,
                   linger, runtimeDir>>

ChangesUser(u) == EnableLinger(u) \/ UserStopTimeout(u) \/ StopDelayElapses(u)

Leaves == UNCHANGED <<info, order, position, positions, started, stopping, display,
                      uStarted, uStopping, stamped, uTimer, runtimeDir>>

\* A call of session_stop() stops a session that runs, and leaves others alone.
LEMMA StopKinds ==
    ASSUME NEW s, session_stop(s),
           UNCHANGED <<procVars, seats, master, active, pending, vtVars, users,
                       uStarted, uStopping, byPin, stamped, uTimer, linger, runtimeDir>>
    PROVE  Stops(s) \/ (Leaves /\ UNCHANGED timer)
<1>1. CASE s \in started \ stopping
  BY <1>1 DEF session_stop, Stops
<1>2. CASE s \notin started \ stopping
  BY <1>2 DEF session_stop, Leaves, sessVars
<1> QED BY <1>1, <1>2

\* The kinds of steps of the collector and its walks.
LEMMA CollectKinds ==
    ASSUME IInv, Collect
    PROVE  \/ \E s \in sessions : Stops(s)
           \/ \E s \in sessions : session_free(s)
           \/ UserStopped \/ UserFreed \/ Leaves
<1> USE DEF Leaves, sessVars, seatVars, userVars
<1>1. CASE StopNext
  <2>1. PICK s \in todo : session_stop(s)
    BY <1>1 DEF StopNext
  <2>2. s \in sessions
    BY DEF IInv, PointersValid, SourcesPoint
  <2> QED BY <1>1, <2>1, <2>2, StopKinds DEF StopNext
<1>2. CASE SeatStopped \/ SeatFreed
  BY <1>2 DEF SeatStopped, SeatFreed
<1>3. CASE FreeNext
  <2>1. PICK s \in todo : session_free(s)
    BY <1>3 DEF FreeNext, seat_free_session, session_finalize_and_free
  <2>2. s \in sessions
    BY DEF IInv, PointersValid, SourcesPoint
  <2> QED BY <2>1, <2>2
<1>4. ASSUME NEW e \in Seats, GcSeat(e) PROVE Leaves
  BY <1>4 DEF GcSeat
<1>5. ASSUME NEW s \in SessionIds, GcSession(s)
      PROVE  Leaves \/ \E x \in sessions : Stops(x)
  <2>1. CASE session_stop(s)
    <3>1. s \in sessions
      BY <1>5 DEF GcSession, IInv, PointersValid, QueuesPoint
    <3> QED BY <1>5, <2>1, <3>1, StopKinds DEF GcSession
  <2>2. CASE UNCHANGED <<sessVars, positions, display>>
    BY <1>5, <2>2 DEF GcSession
  <2> QED BY <1>5, <2>1, <2>2 DEF GcSession
<1>6. ASSUME NEW u \in Uids, GcUser(u) PROVE Leaves
  BY <1>6 DEF GcUser
<1>7. CASE GcSessionFinish
  <2>1. cur \in sessions
    BY <1>7 DEF GcSessionFinish, IInv, WalksValid
  <2> QED BY <1>7, <2>1 DEF GcSessionFinish, session_finalize_and_free
<1>8. CASE GcUserFinish \/ GcDone
  BY <1>8 DEF GcUserFinish, GcDone
<1> HIDE DEF Leaves
<1> QED BY <1>1, <1>2, <1>3, <1>4, <1>5, <1>6, <1>7, <1>8 DEF Collect

\* The kinds of steps of the daemon and its world.
LEMMA StepKinds ==
    ASSUME IInv, [Next]_vars
    PROVE  \/ Creates
           \/ \E s \in sessions : Stops(s)
           \/ \E s \in sessions : session_free(s)
           \/ \E s \in SessionIds : Retypes(s)
           \/ \E u \in Uids : ChangesUser(u)
           \/ UserStopped \/ UserFreed \/ Leaves
<1> USE DEF Leaves, sessVars, seatVars, userVars
<1>1. ASSUME NEW s \in SessionIds, StopHandler(s)
      PROVE  Leaves \/ \E x \in sessions : Stops(x)
  BY <1>1, StopKinds DEF StopHandler
<1>2. CASE SessionHandler
  <2>1. ASSUME NEW s \in SessionIds, ReleaseSession(s) \/ CgroupEvent(s) \/ Activate(s)
        PROVE  Leaves
    BY <2>1 DEF ReleaseSession, CgroupEvent, Activate, SeatHandler
  <2>2. ASSUME NEW s \in SessionIds,
               \/ ReleaseTimeout(s) \/ LeaderExit(s) \/ FifoEof(s)
               \/ TerminateSession(s) \/ StopOnIdle(s)
        PROVE  StopHandler(s)
    BY <2>2 DEF ReleaseTimeout, LeaderExit, FifoEof, TerminateSession, StopOnIdle
  <2> HIDE DEF Leaves
  <2> QED BY <1>1, <1>2, <2>1, <2>2 DEF SessionHandler, Creates, Retypes
<1>3. CASE SeatOrUserHandler
  <2>1. ASSUME SeatHandler PROVE Leaves
    BY <2>1 DEF SeatHandler
  <2>2. ASSUME NEW e \in Seats,
               \/ TerminateSeat(e) \/ SeatDeviceAdded(e) \/ SeatDeviceRemoved(e)
        PROVE  Leaves
    BY <2>2 DEF TerminateSeat, SeatDeviceAdded, SeatDeviceRemoved
  <2>3. ASSUME NEW u \in Uids, TerminateUser(u) \/ DisableLinger(u)
        PROVE  Leaves
    BY <2>3 DEF TerminateUser, DisableLinger
  <2> HIDE DEF Leaves
  <2> QED BY <1>3, <2>1, <2>2, <2>3 DEF SeatOrUserHandler, ConsoleEvent, CompleteSwitch,
             SwitchTo, SwitchToNext, SwitchToPrevious, ChangesUser
<1>4. CASE Environment
  <2>1. ASSUME NEW s \in SessionIds, LeaderDies(s) \/ FifoWriterGone(s) \/ CgroupChanges(s)
        PROVE  Leaves
    BY <2>1 DEF LeaderDies, FifoWriterGone, CgroupChanges, daemonVars
  <2>2. ASSUME NEW v \in VTs, VtSwitch(v) PROVE Leaves
    BY <2>2 DEF VtSwitch, daemonVars
  <2> HIDE DEF Leaves
  <2> QED BY <1>4, <2>1, <2>2 DEF Environment, ChangesUser
<1>5. CASE UNCHANGED vars
  BY <1>5 DEF vars
<1> HIDE DEF Leaves
<1> QED BY <1>2, <1>3, <1>4, <1>5, CollectKinds DEF Next

\* Changes of users leave the sessions alone.
LEMMA UserSteps ==
    ASSUME UserStopped \/ UserFreed \/ \E u \in Uids : ChangesUser(u)
    PROVE  UNCHANGED <<info, order, position, positions, started, stopping, timer>>
<1>1. ASSUME NEW u \in Uids, ChangesUser(u)
      PROVE  UNCHANGED <<info, order, position, positions, started, stopping, timer>>
  BY <1>1 DEF ChangesUser, EnableLinger, UserStopTimeout, StopDelayElapses, sessVars,
     seatVars
<1>2. CASE UserStopped
  BY <1>2 DEF UserStopped, sessVars, seatVars
<1>3. CASE UserFreed
  BY <1>3 DEF UserFreed, sessVars, seatVars
<1> QED BY <1>1, <1>2, <1>3

\* A new session is what CreateSession() was asked for, and the others are as before.
LEMMA Created ==
    ASSUME IInv, NEW s \in SessionIds, NEW u \in Uids, NEW c \in Classes,
           NEW t \in Types, NEW e \in Seats \cup {Nil}, NEW v \in 0 .. MaxVT,
           CreateSession(s, u, c, t, e, v)
    PROVE  /\ s \notin sessions /\ sessions' = sessions \cup {s}
           /\ \A x \in SessionIds \ {s} : info'[x] = info[x]
           /\ info'[s] # Nil /\ info'[s].user = u /\ info'[s].seat = e
           /\ info'[s].vtnr = v /\ info'[s].class = c
           /\ order' = LIST_PREPEND(order, s)
           /\ stopping' = stopping
           /\ started' \in {started, started \cup {s}}
<1> DEFINE r == [user |-> u, class |-> c, type |-> t, seat |-> e, vtnr |-> v]
<1>1. /\ s \notin sessions /\ info' = [info EXCEPT ![s] = r]
      /\ order' = LIST_PREPEND(order, s) /\ stopping' = stopping
  BY DEF CreateSession, session_register
<1>2. r \in SessionInfo /\ r # Nil /\ r.user = u /\ r.seat = e /\ r.vtnr = v /\ r.class = c
  BY LogindAssumption DEF SessionInfo
<1>3. started' \in {started, started \cup {s}}
  BY DEF CreateSession, session_start_ok, create_session_failed
<1>4. info \in [SessionIds -> SessionInfo \cup {Nil}]
  BY DEF IInv, TypeOK, SessionTypeOK
<1> HIDE DEF r
<1> QED BY <1>1, <1>2, <1>3, <1>4 DEF sessions

-----------------------------------------------------------------------------
(***************************************************************************)
(* The list of sessions                                                    *)
(***************************************************************************)
\* The invariant: ListOrder counts the sessions, here they are linked once.
ListInv ==
    /\ order \in Seq(SessionIds) /\ LinkedOnce(order)
    /\ Linked(order) = sessions

\* Every step keeps it.
LEMMA NextListInv ==
    ASSUME IInv, ListInv, [Next]_vars
    PROVE  ListInv'
<1>1. CASE Creates
  <2>1. PICK s \in SessionIds, u \in Uids, c \in Classes, t \in Types,
             e \in Seats \cup {Nil}, v \in 0 .. MaxVT : CreateSession(s, u, c, t, e, v)
    BY <1>1 DEF Creates
  <2>2. /\ s \notin sessions /\ sessions' = sessions \cup {s}
        /\ order' = LIST_PREPEND(order, s)
    BY <2>1, Created
  <2> QED BY <2>2, Prepended DEF ListInv
<1>2. ASSUME NEW s \in sessions, session_free(s) PROVE ListInv'
  <2>1. sessions' = sessions \ {s} /\ order' = LIST_REMOVE(order, s)
    BY <1>2, SessionFreed DEF session_free
  <2> QED BY <2>1, Removed DEF ListInv
<1>3. CASE UNCHANGED <<info, order>>
  BY <1>3 DEF ListInv, sessions
<1>4. ASSUME NEW s \in SessionIds, Retypes(s) PROVE ListInv'
  <2>1. sessions' = sessions /\ order' = order
    BY <1>4, Retyped
  <2> QED BY <2>1 DEF ListInv
<1> QED BY <1>1, <1>2, <1>3, <1>4, StepKinds, UserSteps DEF Stops, Leaves

\* The list is empty at first, and as it should be after every step.
LEMMA ListInvariant == Spec => []ListInv
<1>1. Init => ListInv
  <2> SUFFICES ASSUME Init PROVE ListInv
    OBVIOUS
  <2>1. sessions = {} /\ order = <<>>
    BY DEF Init, sessions
  <2> QED BY <2>1 DEF ListInv, Linked, LinkedOnce
<1> QED BY <1>1, PointersInvariant, NextListInv, PTL DEF Spec

\* LIST_PREPEND() and LIST_REMOVE() keep the list: it links exactly the sessions that
\* exist, each of them once.
THEOREM ListIsComplete == Spec => []ListOrder
<1>1. ListInv => ListOrder
  BY LinkedCount DEF ListInv, ListOrder
<1> QED BY <1>1, ListInvariant, PTL

-----------------------------------------------------------------------------
(***************************************************************************)
(* The stop timer and the runtime directory of a user                      *)
(***************************************************************************)
\* Every step keeps a user with a stop timer stamped.
LEMMA NextStopTimer ==
    ASSUME IInv, StopTimerStamped, [Next]_vars
    PROVE  StopTimerStamped'
<1> USE DEF StopTimerStamped
<1>1. uTimer \in [Uids -> {"off", "armed", "elapsed", "fired"}]
  BY DEF IInv, TypeOK, UserTypeOK
<1>2. ASSUME NEW u \in Uids, NEW pinned, user_update_last_session_timer(u, pinned)
      PROVE  StopTimerStamped'
  BY <1>1, <1>2 DEF user_update_last_session_timer
<1>3. CASE Creates
  <2>1. PICK s \in SessionIds, u \in Uids, c \in Classes, t \in Types,
             e \in Seats \cup {Nil}, v \in 0 .. MaxVT : CreateSession(s, u, c, t, e, v)
    BY <1>3 DEF Creates
  <2>2. user_update_last_session_timer(u, TRUE)
    BY <2>1 DEF CreateSession, session_register
  <2> QED BY <1>2, <2>2
<1>4. ASSUME NEW s \in sessions, session_free(s) PROVE StopTimerStamped'
  <2>1. info[s].user \in Uids
    BY DEF IInv, TypeOK, SessionTypeOK, sessions, SessionInfo
  <2> QED BY <1>2, <1>4, <2>1 DEF session_free
<1>5. ASSUME NEW u \in Uids, ChangesUser(u) PROVE StopTimerStamped'
  BY <1>1, <1>5 DEF ChangesUser, EnableLinger, UserStopTimeout, StopDelayElapses
<1>6. CASE UserFreed
  BY <1>1, <1>6 DEF UserFreed
<1>7. CASE UNCHANGED <<stamped, uTimer>>
  BY <1>7
<1>8. ASSUME NEW s \in SessionIds, Retypes(s) PROVE UNCHANGED <<stamped, uTimer>>
  BY <1>8, Retyped DEF userVars
<1> QED BY <1>3, <1>4, <1>5, <1>6, <1>7, <1>8, StepKinds DEF Stops, Leaves, UserStopped

\* assert(!u->timer_event_source) in user_update_last_session_timer() never fails: only a
\* user that is stamped has a stop timer.
THEOREM StopTimerOnlyWhenStamped == Spec => []StopTimerStamped
<1>1. Init => StopTimerStamped
  BY DEF Init, StopTimerStamped
<1> QED BY <1>1, PointersInvariant, NextStopTimer, PTL DEF Spec

\* The invariant of the runtime directory: user_start() makes it before a user counts as
\* started, and only user_free() takes it away.
DirInv == RuntimeDirHeld /\ uStarted \subseteq runtimeDir

\* Every step keeps it.
LEMMA NextDirInv ==
    ASSUME IInv, DirInv, [Next]_vars
    PROVE  DirInv'
<1> USE DEF DirInv, RuntimeDirHeld
<1>1. started \subseteq sessions /\ sessions \subseteq SessionIds
      /\ \A s \in sessions : info[s].user \in Uids
  BY DEF IInv, PointersValid, SourcesPoint, sessions, TypeOK, SessionTypeOK, SessionInfo
<1>2. CASE Creates
  <2>1. PICK s \in SessionIds, u \in Uids, c \in Classes, t \in Types,
             e \in Seats \cup {Nil}, v \in 0 .. MaxVT : CreateSession(s, u, c, t, e, v)
    BY <1>2 DEF Creates
  <2>2. /\ s \notin sessions /\ \A x \in SessionIds \ {s} : info'[x] = info[x]
        /\ info'[s].user = u
    BY <2>1, Created
  <2>3. CASE user_start_ok(u) /\ started' \in {started, started \cup {s}}
    BY <1>1, <2>2, <2>3 DEF user_start_ok
  <2>4. CASE user_start_failed(u) /\ started' = started
    BY <1>1, <2>2, <2>4 DEF user_start_failed
  <2> QED BY <2>1, <2>3, <2>4 DEF CreateSession, session_start_ok, create_session_failed
<1>3. ASSUME NEW s \in sessions, session_free(s) PROVE DirInv'
  <2>1. /\ started' = started \ {s} /\ info' = [info EXCEPT ![s] = Nil]
        /\ UNCHANGED <<uStarted, runtimeDir>>
    BY <1>3 DEF session_free
  <2>2. info \in [SessionIds -> SessionInfo \cup {Nil}]
    BY DEF IInv, TypeOK, SessionTypeOK
  <2> QED BY <1>1, <2>1, <2>2
<1>4. ASSUME NEW u \in Uids, ChangesUser(u) PROVE DirInv'
  <2>1. UNCHANGED <<info, started>>
    BY <1>4, UserSteps
  <2>2. \/ user_start_ok(u) \/ user_start_failed(u)
        \/ UNCHANGED <<uStarted, runtimeDir>>
    BY <1>4 DEF ChangesUser, EnableLinger, UserStopTimeout, StopDelayElapses
  <2> QED BY <2>1, <2>2 DEF user_start_ok, user_start_failed
<1>5. CASE UserFreed
  <2>1. /\ todo = SessionsOfUser(cur) /\ todo = {}
        /\ uStarted' = uStarted \ {cur} /\ runtimeDir' = runtimeDir \ {cur}
        /\ UNCHANGED <<info, started>>
    BY <1>5, UserSteps DEF UserFreed, IInv, WalksValid
  <2> QED BY <1>1, <2>1 DEF SessionsOfUser
<1>6. CASE UNCHANGED <<info, started, uStarted, runtimeDir>>
  BY <1>6
<1>7. ASSUME NEW s \in SessionIds, Retypes(s) PROVE DirInv'
  <2>1. /\ UNCHANGED <<started, uStarted, runtimeDir>>
        /\ \A x \in sessions : info'[x].user = info[x].user
    BY <1>7, Retyped DEF userVars
  <2> QED BY <1>1, <2>1
<1> QED BY <1>2, <1>3, <1>4, <1>5, <1>6, <1>7, StepKinds, UserSteps DEF Stops, Leaves,
           UserStopped

\* The invariant always holds.
LEMMA DirInvariant == Spec => []DirInv
<1>1. Init => DirInv
  BY DEF Init, DirInv, RuntimeDirHeld
<1> QED BY <1>1, PointersInvariant, NextDirInv, PTL DEF Spec

\* user_finalize() removes the runtime directory only when no session of the user is
\* left: a session that has started keeps its user and the directory.
THEOREM RuntimeDirStays == Spec => []RuntimeDirHeld
<1>1. DirInv => RuntimeDirHeld
  BY DEF DirInv
<1> QED BY <1>1, DirInvariant, PTL

-----------------------------------------------------------------------------
(***************************************************************************)
(* The active session of seat0                                             *)
(***************************************************************************)
\* The invariant: no switch waits for devices on a seat with VTs.
ForegroundInv == ActiveIsForeground /\ pending[Seat0] = Nil

\* seat_active_vt_changed() finds a session on the VT, or none.
LEMMA VtSessionFound ==
    ASSUME NEW inf, NEW ord, NEW v
    PROVE  LET a == VtSession(inf, ord, v) IN a # Nil => inf[a].vtnr = v
<1> DEFINE here == {s \in SessionIds : /\ inf[s] # Nil
                                       /\ inf[s].seat = Seat0
                                       /\ inf[s].vtnr = v}
<1>1. \A S : S \subseteq here => FirstIn(ord, S) \in here \cup {Nil}
  BY FirstInMember
<1>2. VtSession(inf, ord, v) \in here \cup {Nil}
  BY <1>1 DEF VtSession
<1> QED BY <1>2

\* session_activate() switches the VT of seat0 and the session of another seat.
LEMMA ActivateForeground ==
    ASSUME IInv, ForegroundInv, NEW s \in sessions, session_activate(s), UNCHANGED info
    PROVE  ForegroundInv'
<1> USE DEF ForegroundInv, ActiveIsForeground
<1>1. Seat0 \in Seats /\ Seat0 # Nil
  BY LogindAssumption
<1>2. /\ active \in [Seats -> SessionIds \cup {Nil}]
      /\ pending \in [Seats -> SessionIds \cup {Nil}]
  BY DEF IInv, TypeOK, SeatTypeOK
<1>3. CASE UNCHANGED <<active, pending, vtVars>>
  BY <1>3 DEF vtVars
<1>4. CASE chvt(info[s].vtnr) /\ UNCHANGED <<active, pending>>
  BY <1>4 DEF chvt
<1>5. ASSUME NEW e, e # Seat0, UNCHANGED vtVars,
             \/ complete_switch(e, s)
             \/ pending' = [pending EXCEPT ![e] = s] /\ UNCHANGED active
      PROVE  ForegroundInv'
  BY <1>1, <1>2, <1>5 DEF complete_switch, vtVars
<1> QED BY <1>3, <1>4, <1>5 DEF session_activate, seat_has_vts

\* A step that switches the seats, the VT or nothing.
LEMMA SeatStepForeground ==
    ASSUME IInv, ForegroundInv,
           \/ ConsoleEvent
           \/ \E s \in SessionIds : Activate(s)
           \/ \E e \in Seats : \/ CompleteSwitch(e)
                               \/ \E n \in Positions : SwitchTo(e, n)
           \/ \E v \in VTs : VtSwitch(v)
    PROVE  ForegroundInv'
<1>1. Seat0 \in Seats /\ Seat0 # Nil
  BY LogindAssumption
<1>2. /\ active \in [Seats -> SessionIds \cup {Nil}]
      /\ pending \in [Seats -> SessionIds \cup {Nil}]
  BY DEF IInv, TypeOK, SeatTypeOK
<1>3. ASSUME SeatHandler PROVE UNCHANGED info
  BY <1>3 DEF SeatHandler, sessVars
<1>4. CASE ConsoleEvent
  <2>1. /\ active' = [active EXCEPT ![Seat0] = VtSession(info, order, fgVT)]
        /\ UNCHANGED <<info, pending, fgVT>>
    BY <1>3, <1>4 DEF ConsoleEvent
  <2> QED BY <1>1, <1>2, <2>1, VtSessionFound DEF ForegroundInv, ActiveIsForeground
<1>5. ASSUME NEW s \in SessionIds, Activate(s) PROVE ForegroundInv'
  BY <1>3, <1>5, ActivateForeground DEF Activate
<1>6. ASSUME NEW e \in Seats, CompleteSwitch(e) PROVE ForegroundInv'
  BY <1>1, <1>2, <1>3, <1>6
     DEF CompleteSwitch, complete_switch, ForegroundInv, ActiveIsForeground, vtVars
<1>7. ASSUME NEW e \in Seats, NEW n \in Positions, SwitchTo(e, n) PROVE ForegroundInv'
  <2>1. CASE positions[<<e, n>>] # Nil /\ session_activate(positions[<<e, n>>])
    <3>1. positions[<<e, n>>] \in sessions
      BY <2>1 DEF IInv, PointersValid, SlotsPoint, SessionsOfSeat
    <3> QED BY <1>3, <1>7, <2>1, <3>1, ActivateForeground DEF SwitchTo
  <2>2. CASE chvt(n) /\ UNCHANGED <<active, pending>>
    BY <1>3, <1>7, <2>2 DEF SwitchTo, chvt, ForegroundInv, ActiveIsForeground
  <2> QED BY <1>7, <2>1, <2>2 DEF SwitchTo, seat_switch_to
<1>8. ASSUME NEW v \in VTs, VtSwitch(v) PROVE ForegroundInv'
  BY <1>8 DEF VtSwitch, daemonVars, sessVars, seatVars, ForegroundInv, ActiveIsForeground
<1> QED BY <1>4, <1>5, <1>6, <1>7, <1>8

\* All other steps leave the seats alone, unless they create or free a session.
LEMMA SeatKinds ==
    ASSUME IInv, [Next]_vars
    PROVE  \/ Creates
           \/ \E s \in sessions : session_free(s)
           \/ \E s \in SessionIds : Retypes(s)
           \/ ConsoleEvent
           \/ \E s \in SessionIds : Activate(s)
           \/ \E e \in Seats : \/ CompleteSwitch(e)
                               \/ \E n \in Positions : SwitchTo(e, n)
           \/ \E v \in VTs : VtSwitch(v)
           \/ UNCHANGED <<info, active, pending, fgVT, console>>
<1> DEFINE Same == UNCHANGED <<info, active, pending, fgVT, console>>
<1> USE DEF sessVars, seatVars, vtVars
<1>1. ASSUME NEW s, session_stop(s) PROVE info' = info
  BY <1>1 DEF session_stop
<1>2. CASE SessionHandler
  <2>1. ASSUME NEW s \in SessionIds, StopHandler(s) PROVE Same
    BY <1>1, <2>1 DEF StopHandler
  <2>2. ASSUME NEW s \in SessionIds, ReleaseSession(s) \/ CgroupEvent(s) PROVE Same
    BY <2>2 DEF ReleaseSession, CgroupEvent
  <2> HIDE DEF Same
  <2> QED BY <1>2, <2>1, <2>2 DEF SessionHandler, Creates, Retypes, ReleaseTimeout,
             LeaderExit, FifoEof, TerminateSession, StopOnIdle, Same
<1>3. CASE SeatOrUserHandler
  <2>1. ASSUME NEW e \in Seats,
               TerminateSeat(e) \/ SeatDeviceAdded(e) \/ SeatDeviceRemoved(e)
        PROVE  Same
    BY <2>1 DEF TerminateSeat, SeatDeviceAdded, SeatDeviceRemoved
  <2>2. ASSUME NEW u \in Uids,
               \/ TerminateUser(u) \/ UserStopTimeout(u)
               \/ EnableLinger(u) \/ DisableLinger(u)
        PROVE  Same
    BY <2>2 DEF TerminateUser, UserStopTimeout, EnableLinger, DisableLinger
  <2>3. ASSUME NEW e \in Seats, SwitchToNext(e) \/ SwitchToPrevious(e)
        PROVE  \E n \in Positions : SwitchTo(e, n)
    BY <2>3 DEF SwitchToNext, SwitchToPrevious, Occupied
  <2> HIDE DEF Same
  <2> QED BY <1>3, <2>1, <2>2, <2>3 DEF SeatOrUserHandler, Same
<1>4. CASE Collect
  <2>1. CASE StopNext
    BY <1>1, <2>1 DEF StopNext
  <2>2. CASE UserStopped \/ SeatStopped \/ SeatFreed \/ UserFreed
    BY <2>2 DEF UserStopped, SeatStopped, SeatFreed, UserFreed
  <2>3. CASE FreeNext
    <3>1. PICK s \in todo : session_free(s)
      BY <2>3 DEF FreeNext, seat_free_session, session_finalize_and_free
    <3>2. s \in sessions
      BY DEF IInv, PointersValid, SourcesPoint
    <3> QED BY <3>1, <3>2
  <2>4. ASSUME NEW e \in Seats, GcSeat(e) PROVE Same
    BY <2>4 DEF GcSeat
  <2>5. ASSUME NEW s \in SessionIds, GcSession(s) PROVE Same
    BY <1>1, <2>5 DEF GcSession
  <2>6. ASSUME NEW u \in Uids, GcUser(u) PROVE Same
    BY <2>6 DEF GcUser
  <2>7. CASE GcSessionFinish
    <3>1. cur \in sessions
      BY <2>7 DEF GcSessionFinish, IInv, WalksValid
    <3> QED BY <2>7, <3>1 DEF GcSessionFinish, session_finalize_and_free
  <2>8. CASE GcUserFinish \/ GcDone
    BY <2>8 DEF GcUserFinish, GcDone
  <2> HIDE DEF Same
  <2> QED BY <1>4, <2>1, <2>2, <2>3, <2>4, <2>5, <2>6, <2>7, <2>8 DEF Collect, Same
<1>5. CASE Environment
  <2>1. ASSUME NEW s \in SessionIds, LeaderDies(s) \/ FifoWriterGone(s) \/ CgroupChanges(s)
        PROVE  Same
    BY <2>1 DEF LeaderDies, FifoWriterGone, CgroupChanges, daemonVars
  <2>2. ASSUME NEW u \in Uids, StopDelayElapses(u) PROVE Same
    BY <2>2 DEF StopDelayElapses
  <2> HIDE DEF Same
  <2> QED BY <1>5, <2>1, <2>2 DEF Environment, Same
<1>6. CASE UNCHANGED vars
  BY <1>6 DEF vars
<1> QED BY <1>2, <1>3, <1>4, <1>5, <1>6 DEF Next

\* Every step keeps the active session in the foreground.
LEMMA NextForeground ==
    ASSUME IInv, ForegroundInv, [Next]_vars
    PROVE  ForegroundInv'
<1>1. Seat0 \in Seats /\ Seat0 # Nil /\ Nil \notin SessionIds
  BY LogindAssumption
<1>2. /\ active \in [Seats -> SessionIds \cup {Nil}]
      /\ pending \in [Seats -> SessionIds \cup {Nil}]
      /\ active[Seat0] # Nil => active[Seat0] \in sessions
      /\ info \in [SessionIds -> SessionInfo \cup {Nil}]
  BY <1>1 DEF IInv, TypeOK, SeatTypeOK, SessionTypeOK, PointersValid, SeatsPoint,
     SessionsOfSeat
<1>3. CASE Creates
  <2>1. PICK s \in SessionIds, u \in Uids, c \in Classes, t \in Types,
             e \in Seats \cup {Nil}, v \in 0 .. MaxVT : CreateSession(s, u, c, t, e, v)
    BY <1>3 DEF Creates
  <2>2. /\ s \notin sessions /\ \A x \in SessionIds \ {s} : info'[x] = info[x]
        /\ sessions \subseteq SessionIds
    BY <2>1, Created DEF sessions
  <2>3. UNCHANGED <<pending, fgVT>>
    BY <2>1 DEF CreateSession
  <2>4. active'[Seat0] = VtSession(info', order', fgVT)
        \/ (active'[Seat0] = active[Seat0] /\ console' = console)
    BY <1>1, <1>2, <2>1 DEF CreateSession, session_start_ok, create_session_failed
  <2> QED BY <1>2, <2>2, <2>3, <2>4, VtSessionFound
          DEF ForegroundInv, ActiveIsForeground
<1>4. ASSUME NEW s \in sessions, session_free(s) PROVE ForegroundInv'
  <2>1. /\ active' = unset(active, s) /\ pending' = unset(pending, s)
        /\ UNCHANGED vtVars /\ info' = [info EXCEPT ![s] = Nil]
    BY <1>4 DEF session_free
  <2>2. /\ active'[Seat0] = IF active[Seat0] = s THEN Nil ELSE active[Seat0]
        /\ pending'[Seat0] = IF pending[Seat0] = s THEN Nil ELSE pending[Seat0]
    BY <1>1, <1>2, <2>1 DEF unset
  <2>3. \A x \in sessions \ {s} : info'[x] = info[x]
    BY <1>2, <2>1 DEF sessions
  <2> QED BY <1>2, <2>1, <2>2, <2>3 DEF ForegroundInv, ActiveIsForeground, vtVars
<1>5. CASE UNCHANGED <<info, active, pending, fgVT, console>>
  BY <1>5 DEF ForegroundInv, ActiveIsForeground
<1>6. ASSUME NEW s \in SessionIds, Retypes(s) PROVE ForegroundInv'
  <2>1. /\ UNCHANGED <<active, pending, fgVT, console>>
        /\ \A x \in sessions : info'[x].vtnr = info[x].vtnr
    BY <1>6, Retyped DEF seatVars, vtVars
  <2> QED BY <1>2, <2>1 DEF ForegroundInv, ActiveIsForeground
<1> QED BY <1>3, <1>4, <1>5, <1>6, SeatKinds, SeatStepForeground

\* seat_active_vt_changed() and session_activate(): the active session of seat0 is on
\* the VT in the foreground, or the change of the VT is still to be read.
THEOREM ActiveInForeground == Spec => []ActiveIsForeground
<1>1. Init => ForegroundInv
  BY LogindAssumption DEF Init, ForegroundInv, ActiveIsForeground
<1>2. ForegroundInv => ActiveIsForeground
  BY DEF ForegroundInv
<1> QED BY <1>1, <1>2, PointersInvariant, NextForeground, PTL DEF Spec

-----------------------------------------------------------------------------
(***************************************************************************)
(* What is stopped before it is freed                                      *)
(***************************************************************************)
\* Sessions that have started and are not stopping.
Running == started \ stopping

\* The invariant.  No running session is queued for collection or belongs to a user
\* that is stopping; a walk that stops sessions has those left to do that run, and a
\* walk that frees sessions meets none that runs, but for sessions that do not pin
\* their user when the stop delay ran out in between.
RunningKept ==
    \A s \in Running :
        /\ s \notin sessGc /\ info[s].user \notin uStopping
        /\ pc = "session_gc" => s # cur
        /\ pc \in {"user_stop", "user_gc_stop"} /\ info[s].user = cur => s \in todo
        /\ pc = "seat_gc_stop" /\ info[s].seat = cur => s \in todo
        /\ pc = "seat_free" => s \notin todo
        /\ pc = "user_free" /\ s \in todo =>
             UserStopDelay = "finite" /\ ~ SESSION_CLASS_PIN_USER(info[s].class)

\* Without a delay that can run out in between, the second call of user_may_gc() only
\* agrees to free a user whose sessions the first one has stopped.
TwiceAsked ==
    pc = "user_gc" /\ UserStopDelay # "finite" /\ user_may_gc(cur) =>
        \A s \in Running : info[s].user # cur

StopInv == RunningKept /\ TwiceAsked

\* Unless a session is created, sessions only stop running; those that run on keep their
\* user and seat, and pin the user or not as before.
StaysItself(s) ==
    /\ info'[s].user = info[s].user /\ info'[s].seat = info[s].seat
    /\ SESSION_CLASS_PIN_USER(info'[s].class) = SESSION_CLASS_PIN_USER(info[s].class)

\* So does every step but the creation of a session.
LEMMA RunningStays ==
    ASSUME IInv, [Next]_vars, ~ Creates
    PROVE  \A s \in Running' : s \in Running /\ StaysItself(s)
<1>1. /\ info \in [SessionIds -> SessionInfo \cup {Nil}] /\ started \subseteq SessionIds
      /\ started \subseteq sessions
  BY DEF IInv, TypeOK, SessionTypeOK, PointersValid, SourcesPoint
<1>2. ASSUME NEW s \in sessions, Stops(s)
      PROVE  \A x \in Running' : x \in Running /\ StaysItself(x)
  BY <1>2 DEF Running, Stops, session_stop_running, StaysItself
<1>3. ASSUME NEW s \in sessions, session_free(s)
      PROVE  \A x \in Running' : x \in Running /\ StaysItself(x)
  <2>1. /\ \A x \in SessionIds \ {s} : info'[x] = info[x]
        /\ started' = started \ {s} /\ stopping' = stopping \ {s}
    BY <1>1, <1>3 DEF session_free
  <2> QED BY <1>1, <2>1 DEF Running, StaysItself
<1>4. ASSUME UNCHANGED <<info, started, stopping>>
      PROVE  \A x \in Running' : x \in Running /\ StaysItself(x)
  BY <1>4 DEF Running, StaysItself
<1>5. ASSUME NEW s \in SessionIds, Retypes(s)
      PROVE  \A x \in Running' : x \in Running /\ StaysItself(x)
  <2>1. UNCHANGED <<started, stopping>> /\ \A x \in sessions : StaysItself(x)
    BY <1>5, Retyped DEF StaysItself
  <2> QED BY <1>1, <2>1 DEF Running
<1> QED BY <1>2, <1>3, <1>4, <1>5, StepKinds, UserSteps DEF Leaves

\* The same, in terms of the sessions.
LEMMA RunningShrinks ==
    ASSUME IInv, [Next]_vars, ~ Creates
    PROVE  \A s \in Running' :
             /\ s \in Running
             /\ info'[s].user = info[s].user /\ info'[s].seat = info[s].seat
             /\ SESSION_CLASS_PIN_USER(info'[s].class) =
                  SESSION_CLASS_PIN_USER(info[s].class)
BY RunningStays DEF StaysItself

\* A session that is stopped, if it has started, does not run.
LEMMA StoppedNotRunning ==
    ASSUME NEW s, session_stop(s)
    PROVE  s \notin Running'
BY DEF session_stop, session_stop_running, Running, sessVars

\* Handlers that stop a session, or only time it, leave the running ones in order.
LEMMA HandlerStops ==
    ASSUME IInv, StopInv, SessionHandler, [Next]_vars, ~ Creates
    PROVE  StopInv'
<1>1. PICK s \in SessionIds :
         \/ ReleaseSession(s) \/ ReleaseTimeout(s) \/ LeaderExit(s)
         \/ FifoEof(s) \/ TerminateSession(s) \/ StopOnIdle(s)
         \/ CgroupEvent(s) \/ Activate(s) \/ Retypes(s)
  BY DEF SessionHandler, Creates, Retypes
<1>2. pc' = "gc" /\ uStopping' = uStopping
  BY <1>1, Retyped DEF ReleaseSession, ReleaseTimeout, LeaderExit, FifoEof, TerminateSession,
     StopOnIdle, CgroupEvent, Activate, StopHandler, SeatHandler, userVars
<1>3. sessGc' = sessGc \/ (sessGc' = sessGc \cup {s} /\ session_stop(s))
  BY <1>1, Retyped DEF ReleaseSession, ReleaseTimeout, LeaderExit, FifoEof, TerminateSession,
     StopOnIdle, CgroupEvent, Activate, StopHandler, SeatHandler, gcVars
<1>4. RunningKept'
  BY <1>2, <1>3, RunningShrinks, StoppedNotRunning DEF StopInv, RunningKept
<1>5. TwiceAsked'
  BY <1>2 DEF TwiceAsked
<1> QED BY <1>4, <1>5 DEF StopInv

\* A session that is created runs, and its user is not stopping any more.
LEMMA CreateStops ==
    ASSUME IInv, StopInv, Creates
    PROVE  StopInv'
<1>1. PICK s \in SessionIds, u \in Uids, c \in Classes, t \in Types,
           e \in Seats \cup {Nil}, v \in 0 .. MaxVT : CreateSession(s, u, c, t, e, v)
  BY DEF Creates
<1>2. /\ s \notin sessions /\ \A x \in SessionIds \ {s} : info'[x] = info[x]
      /\ info'[s].user = u /\ stopping' = stopping
      /\ started' \in {started, started \cup {s}}
  BY <1>1, Created
<1>3. pc' = "gc"
  BY <1>1 DEF CreateSession
<1>4. uStopping' = uStopping \ {u}
  BY <1>1 DEF CreateSession, user_start_ok, user_start_failed
<1>5. \/ sessGc' = sessGc
      \/ sessGc' = sessGc \cup {s} /\ started' = started
  BY <1>1 DEF CreateSession, session_start_ok, create_session_failed
<1>6. started \subseteq sessions /\ sessions \subseteq SessionIds /\ sessGc \subseteq sessions
  BY DEF IInv, PointersValid, SourcesPoint, QueuesPoint, sessions
<1>7. RunningKept'
  <2> SUFFICES ASSUME NEW x \in Running'
               PROVE  x \notin sessGc' /\ info'[x].user \notin uStopping'
    BY <1>3 DEF RunningKept
  <2>1. CASE x = s
    BY <1>2, <1>4, <1>5, <1>6, <2>1 DEF Running
  <2>2. CASE x # s
    <3>1. x \in Running /\ x \in SessionIds
      BY <1>2, <1>6, <2>2 DEF Running
    <3> QED BY <1>2, <1>4, <1>5, <2>2, <3>1 DEF StopInv, RunningKept
  <2> QED BY <2>1, <2>2
<1>8. TwiceAsked'
  BY <1>3 DEF TwiceAsked
<1> QED BY <1>7, <1>8 DEF StopInv

\* The other handlers start walks with everything still to do.
LEMMA OtherHandlerStops ==
    ASSUME IInv, StopInv, SeatOrUserHandler, [Next]_vars, ~ Creates
    PROVE  StopInv'
<1>1. ASSUME NEW u \in Uids, TerminateUser(u), pc' = "user_stop" PROVE StopInv'
  <2>1. /\ cur' = u /\ todo' = SessionsOfUser(u) /\ UNCHANGED <<uStopping, sessGc, info>>
        /\ pc' = "user_stop"
    BY <1>1 DEF TerminateUser, userVars, gcVars, sessVars
  <2>2. Running \subseteq sessions
    BY DEF Running, IInv, PointersValid, SourcesPoint
  <2>3. RunningKept'
    BY <2>1, <2>2, RunningShrinks DEF StopInv, RunningKept, SessionsOfUser
  <2> QED BY <2>1, <2>3 DEF StopInv, TwiceAsked
<1>2. ASSUME pc' \in {"gc", "seat_stop"}, uStopping' \subseteq uStopping, sessGc' = sessGc
      PROVE  StopInv'
  BY <1>2, RunningShrinks DEF StopInv, RunningKept, TwiceAsked
<1>3. ASSUME SeatHandler PROVE StopInv'
  BY <1>2, <1>3 DEF SeatHandler, userVars, gcVars
<1>4. ASSUME NEW e \in Seats,
             TerminateSeat(e) \/ SeatDeviceAdded(e) \/ SeatDeviceRemoved(e)
      PROVE  StopInv'
  BY <1>2, <1>4 DEF TerminateSeat, SeatDeviceAdded, SeatDeviceRemoved, userVars, gcVars
<1>5. ASSUME NEW u \in Uids,
             \/ TerminateUser(u) \/ UserStopTimeout(u)
             \/ EnableLinger(u) \/ DisableLinger(u)
      PROVE  StopInv'
  <2>1. CASE TerminateUser(u)
    BY <1>1, <1>2, <2>1 DEF TerminateUser, userVars, gcVars
  <2>2. CASE UserStopTimeout(u) \/ DisableLinger(u)
    BY <1>2, <2>2 DEF UserStopTimeout, DisableLinger
  <2>3. CASE EnableLinger(u)
    BY <1>2, <2>3 DEF EnableLinger, user_start_ok, user_start_failed
  <2> QED BY <1>5, <2>1, <2>2, <2>3
<1> QED BY <1>3, <1>4, <1>5 DEF SeatOrUserHandler, ConsoleEvent, CompleteSwitch, SwitchTo,
           SwitchToNext, SwitchToPrevious

\* The walks that stop the sessions of a user or a seat, and what follows them.
LEMMA WalkStops ==
    ASSUME IInv, StopInv, StopNext \/ UserStopped \/ SeatStopped, [Next]_vars, ~ Creates
    PROVE  StopInv'
<1>1. CASE StopNext
  <2>1. PICK s \in todo : session_stop(s) /\ todo' = todo \ {s}
    BY <1>1 DEF StopNext
  <2>2. /\ UNCHANGED <<pc, cur, uStopping, sessGc>>
        /\ pc \in {"user_stop", "user_gc_stop", "seat_stop", "seat_gc_stop"}
    BY <1>1 DEF StopNext, gcVars
  <2>3. RunningKept'
    BY <2>1, <2>2, RunningShrinks, StoppedNotRunning DEF StopInv, RunningKept
  <2> QED BY <2>2, <2>3 DEF StopInv, TwiceAsked
<1>2. CASE UserStopped
  <2>1. /\ todo = {} /\ uStopping' = uStopping \cup {cur} /\ sessGc' = sessGc
        /\ pc \in {"user_stop", "user_gc_stop"}
        /\ pc' = "gc" \/ (pc' = "user_gc" /\ cur' = cur)
    BY <1>2 DEF UserStopped
  <2>2. \A s \in Running' : info'[s].user # cur
    BY <2>1, RunningShrinks DEF StopInv, RunningKept
  <2>3. RunningKept'
    BY <2>1, <2>2, RunningShrinks DEF StopInv, RunningKept
  <2> QED BY <2>1, <2>2, <2>3 DEF StopInv, TwiceAsked
<1>3. CASE SeatStopped
  <2>1. /\ todo = {} /\ UNCHANGED <<uStopping, sessGc>>
        /\ \/ pc' = "gc"
           \/ pc = "seat_gc_stop" /\ pc' = "seat_free" /\ todo' = SessionsOfSeat(cur)
    BY <1>3 DEF SeatStopped, userVars
  <2>2. RunningKept'
    BY <2>1, RunningShrinks DEF StopInv, RunningKept, SessionsOfSeat
  <2> QED BY <2>1, <2>2 DEF StopInv, TwiceAsked
<1> QED BY <1>1, <1>2, <1>3

\* The walks that free sessions, and what follows them.
LEMMA FreeStops ==
    ASSUME IInv, StopInv, FreeNext \/ SeatFreed \/ UserFreed \/ GcSessionFinish \/ GcDone,
           [Next]_vars, ~ Creates
    PROVE  StopInv'
<1>1. ASSUME NEW s, session_free(s) PROVE sessGc' \subseteq sessGc /\ uStopping' = uStopping
  BY <1>1 DEF session_free
<1>2. CASE FreeNext
  <2>1. PICK s \in todo : session_free(s) /\ todo' = todo \ {s}
    BY <1>2 DEF FreeNext, seat_free_session, session_finalize_and_free
  <2>2. UNCHANGED <<pc, cur>> /\ pc \in {"seat_free", "user_free"}
    BY <1>2 DEF FreeNext
  <2>3. RunningKept'
    BY <1>1, <2>1, <2>2, RunningShrinks DEF StopInv, RunningKept
  <2> QED BY <2>2, <2>3 DEF StopInv, TwiceAsked
<1>3. ASSUME pc' \in {"gc", "event"}, uStopping' \subseteq uStopping, sessGc' \subseteq sessGc
      PROVE  StopInv'
  BY <1>3, RunningShrinks DEF StopInv, RunningKept, TwiceAsked
<1>4. CASE SeatFreed \/ UserFreed \/ GcDone
  BY <1>3, <1>4 DEF SeatFreed, UserFreed, GcDone, userVars, gcVars
<1>5. CASE GcSessionFinish
  BY <1>1, <1>3, <1>5 DEF GcSessionFinish, session_finalize_and_free, userVars, gcVars
<1> QED BY <1>2, <1>4, <1>5

\* manager_gc() stops what it is about to free.
LEMMA GcStops ==
    ASSUME IInv, DirInv, StopInv, [Next]_vars, ~ Creates,
           \/ \E e \in Seats : GcSeat(e)
           \/ \E s \in SessionIds : GcSession(s)
           \/ \E u \in Uids : GcUser(u)
           \/ GcUserFinish
    PROVE  StopInv'
<1>1. Running \subseteq sessions
  BY DEF Running, IInv, PointersValid, SourcesPoint
<1>2. ASSUME NEW e \in Seats, GcSeat(e) PROVE StopInv'
  <2>1. /\ UNCHANGED <<uStopping, sessGc>>
        /\ \/ pc' = "gc"
           \/ pc' = "seat_gc_stop" /\ cur' = e /\ todo' = SessionsOfSeat(e)
    BY <1>2 DEF GcSeat, userVars, walkVars
  <2>2. RunningKept'
    BY <1>1, <2>1, RunningShrinks DEF StopInv, RunningKept, SessionsOfSeat
  <2> QED BY <2>1, <2>2 DEF StopInv, TwiceAsked
<1>3. ASSUME NEW s \in SessionIds, GcSession(s) PROVE StopInv'
  <2>1. /\ uStopping' = uStopping /\ s \in sessGc /\ sessGc' = sessGc \ {s}
        /\ pc' = "session_gc" /\ cur' = s
    BY <1>3 DEF GcSession
  <2>2. RunningKept'
    BY <2>1, RunningShrinks DEF StopInv, RunningKept
  <2> QED BY <2>1, <2>2 DEF StopInv, TwiceAsked
<1>4. ASSUME NEW u \in Uids, u \notin uStarted PROVE \A s \in Running : info[s].user # u
  BY <1>4 DEF DirInv, RuntimeDirHeld, Running
<1>5. ASSUME NEW u \in Uids, GcUser(u) PROVE StopInv'
  <2>1. /\ UNCHANGED <<info, started, stopping, uStarted, uStopping, byPin, stamped,
                       uTimer, linger, sessGc>>
        /\ cur' = u
        /\ \/ pc' = "user_gc_stop" /\ todo' = SessionsOfUser(u)
           \/ pc' = "user_gc" /\ ~ (user_may_gc(u) /\ u \in uStarted \ uStopping)
    BY <1>5 DEF GcUser, sessVars, userVars
  <2>2. RunningKept'
    BY <1>1, <2>1, RunningShrinks DEF StopInv, RunningKept, SessionsOfUser
  <2>3. TwiceAsked'
    <3> SUFFICES ASSUME pc' = "user_gc", user_may_gc(cur)', NEW s \in Running'
                 PROVE  info'[s].user # cur'
      BY DEF TwiceAsked
    <3>1. user_may_gc(u)
      BY <2>1 DEF user_may_gc, user_pinned_by_sessions, user_pinned_by, sessions
    <3>2. s \in Running /\ info'[s].user = info[s].user
      BY RunningShrinks
    <3>3. u \notin uStarted \/ u \in uStopping
      BY <2>1, <3>1
    <3> QED BY <1>4, <2>1, <3>2, <3>3 DEF StopInv, RunningKept
  <2> QED BY <2>2, <2>3 DEF StopInv
<1>6. ASSUME GcUserFinish PROVE StopInv'
  <2>1. /\ UNCHANGED <<uStopping, sessGc>> /\ pc = "user_gc"
        /\ \/ pc' = "gc"
           \/ pc' = "user_free" /\ user_may_gc(cur) /\ todo' = SessionsOfUser(cur)
    BY <1>6 DEF GcUserFinish, userVars, gcVars
  <2>2. ASSUME user_may_gc(cur), NEW s \in Running, info[s].user = cur
        PROVE  UserStopDelay = "finite" /\ ~ SESSION_CLASS_PIN_USER(info[s].class)
    <3>1. UserStopDelay = "finite"
      BY <2>1, <2>2 DEF StopInv, TwiceAsked
    <3>2. cur \in Uids /\ cur \in uStarted
      BY <1>1, <1>4, <2>1, <2>2 DEF IInv, WalksValid, TypeOK, UserTypeOK
    <3>3. ~ user_pinned_by(cur, sessions)
      BY <2>2, <3>2 DEF user_may_gc, user_pinned_by_sessions
    <3> QED BY <1>1, <2>2, <3>1, <3>3 DEF user_pinned_by
  <2>3. RunningKept'
    BY <2>1, <2>2, RunningShrinks DEF StopInv, RunningKept, SessionsOfUser
  <2> QED BY <2>1, <2>3 DEF StopInv, TwiceAsked
<1> QED BY <1>2, <1>3, <1>5, <1>6

\* Nothing outside the daemon makes a session run, and only a delay that runs out
\* makes user_may_gc() change its mind.
LEMMA EnvironmentStops ==
    ASSUME IInv, StopInv, [Next]_vars, ~ Creates, Environment \/ UNCHANGED vars
    PROVE  StopInv'
<1>1. /\ UNCHANGED <<pc, cur, todo, sessGc, uStopping, info, byPin, stamped, linger,
                     uStarted>>
  <2>1. ASSUME NEW s \in SessionIds, LeaderDies(s) \/ CgroupChanges(s) PROVE UNCHANGED daemonVars
    BY <2>1 DEF LeaderDies, CgroupChanges
  <2>2. ASSUME NEW v \in VTs, VtSwitch(v) PROVE UNCHANGED daemonVars
    BY <2>2 DEF VtSwitch
  <2>3. CASE UNCHANGED daemonVars
    BY <2>3 DEF daemonVars, sessVars, userVars, gcVars, walkVars
  <2>4. ASSUME NEW s \in SessionIds, FifoWriterGone(s)
        PROVE  UNCHANGED <<pc, cur, todo, sessGc, uStopping, info, byPin, stamped, linger,
                           uStarted>>
    BY <2>4 DEF FifoWriterGone, userVars, gcVars, walkVars
  <2>5. ASSUME NEW u \in Uids, StopDelayElapses(u)
        PROVE  UNCHANGED <<pc, cur, todo, sessGc, uStopping, info, byPin, stamped, linger,
                           uStarted>>
    BY <2>5 DEF StopDelayElapses, sessVars, gcVars, walkVars
  <2>6. CASE UNCHANGED vars
    BY <2>3, <2>6 DEF vars, daemonVars
  <2> QED BY <2>1, <2>2, <2>3, <2>4, <2>5, <2>6 DEF Environment
<1>2. RunningKept'
  BY <1>1, RunningShrinks DEF StopInv, RunningKept
<1>3. TwiceAsked'
  <2>1. UserStopDelay # "finite" => (user_may_gc(cur)' <=> user_may_gc(cur))
    BY <1>1 DEF user_may_gc, user_pinned_by_sessions, user_pinned_by, sessions
  <2> QED BY <1>1, <2>1, RunningShrinks DEF StopInv, TwiceAsked
<1> QED BY <1>2, <1>3 DEF StopInv

\* The invariant always holds.
LEMMA StopInvariant == Spec => []StopInv
<1>1. Init => StopInv
  BY DEF Init, StopInv, RunningKept, TwiceAsked, Running
<1>2. IInv /\ DirInv /\ StopInv /\ [Next]_vars => StopInv'
  <2> SUFFICES ASSUME IInv, DirInv, StopInv, [Next]_vars PROVE StopInv'
    OBVIOUS
  <2>1. CASE Creates
    BY <2>1, CreateStops
  <2>2. CASE ~ Creates
    BY <2>2, HandlerStops, OtherHandlerStops, WalkStops, FreeStops, GcStops,
       EnvironmentStops DEF Next, Collect
  <2> QED BY <2>1, <2>2
<1> QED BY <1>1, <1>2, PointersInvariant, DirInvariant, PTL DEF Spec

\* Only these steps make a session, change it or forget it.
LEMMA InfoKinds ==
    ASSUME IInv, [Next]_vars, info' # info
    PROVE  Creates \/ FreeNext \/ GcSessionFinish \/ \E s \in SessionIds : Retypes(s)
<1>1. ASSUME NEW s, session_stop(s) PROVE info' = info
  BY <1>1 DEF session_stop, sessVars
<1> USE DEF sessVars
<1>2. CASE SessionHandler
  <2>1. ASSUME NEW s \in SessionIds, StopHandler(s) PROVE FALSE
    BY <1>1, <2>1 DEF StopHandler
  <2>2. ASSUME NEW s \in SessionIds, ReleaseSession(s) \/ CgroupEvent(s) \/ Activate(s)
        PROVE  FALSE
    BY <2>2 DEF ReleaseSession, CgroupEvent, Activate, SeatHandler
  <2> QED BY <1>2, <2>1, <2>2 DEF SessionHandler, Creates, Retypes, ReleaseTimeout,
             LeaderExit, FifoEof, TerminateSession, StopOnIdle
<1>3. ASSUME SeatOrUserHandler PROVE FALSE
  <2>1. ~ SeatHandler
    BY DEF SeatHandler
  <2>2. ASSUME NEW e \in Seats,
               TerminateSeat(e) \/ SeatDeviceAdded(e) \/ SeatDeviceRemoved(e)
        PROVE  FALSE
    BY <2>2 DEF TerminateSeat, SeatDeviceAdded, SeatDeviceRemoved
  <2>3. ASSUME NEW u \in Uids,
               \/ TerminateUser(u) \/ UserStopTimeout(u)
               \/ EnableLinger(u) \/ DisableLinger(u)
        PROVE  FALSE
    BY <2>3 DEF TerminateUser, UserStopTimeout, EnableLinger, DisableLinger
  <2> QED BY <1>3, <2>1, <2>2, <2>3 DEF SeatOrUserHandler, ConsoleEvent, CompleteSwitch,
             SwitchTo, SwitchToNext, SwitchToPrevious
<1>4. CASE Collect
  <2>1. ASSUME NEW s \in SessionIds, GcSession(s) PROVE FALSE
    BY <1>1, <2>1 DEF GcSession
  <2>2. ~ StopNext
    BY <1>1 DEF StopNext
  <2>3. ~ (UserStopped \/ SeatStopped \/ SeatFreed \/ UserFreed \/ GcUserFinish \/ GcDone)
    BY DEF UserStopped, SeatStopped, SeatFreed, UserFreed, GcUserFinish, GcDone
  <2>4. ASSUME NEW e \in Seats, GcSeat(e) PROVE FALSE
    BY <2>4 DEF GcSeat
  <2>5. ASSUME NEW u \in Uids, GcUser(u) PROVE FALSE
    BY <2>5 DEF GcUser
  <2> QED BY <1>4, <2>1, <2>2, <2>3, <2>4, <2>5 DEF Collect
<1>5. ~ Environment
  BY DEF Environment, LeaderDies, FifoWriterGone, CgroupChanges, VtSwitch,
     StopDelayElapses, daemonVars
<1> QED BY <1>2, <1>3, <1>4, <1>5 DEF Next, vars

\* manager_gc(), seat_free() and user_finalize(): the collector never frees a session
\* below its living leader, and what goes with its seat or user was stopped before.
THEOREM LiveSessionStays == Spec => LiveSessionKept
<1> DEFINE P == \A s \in sessions \cap alive :
                  info'[s] = Nil =>
                      /\ pc \in {"seat_free", "user_free"}
                      /\ s \in started => \/ s \in stopping
                                          \/ /\ pc = "user_free"
                                             /\ UserStopDelay = "finite"
                                             /\ ~ SESSION_CLASS_PIN_USER(info[s].class)
<1>1. IInv /\ StopInv /\ [Next]_vars => [P]_vars
  <2> SUFFICES ASSUME IInv, StopInv, [Next]_vars, NEW s \in sessions, s \in alive,
                      info'[s] = Nil
               PROVE  /\ pc \in {"seat_free", "user_free"}
                      /\ s \in started => \/ s \in stopping
                                          \/ /\ pc = "user_free"
                                             /\ UserStopDelay = "finite"
                                             /\ ~ SESSION_CLASS_PIN_USER(info[s].class)
    OBVIOUS
  <2>1. s \in SessionIds /\ info[s] # Nil /\ info \in [SessionIds -> SessionInfo \cup {Nil}]
    BY DEF sessions, IInv, TypeOK, SessionTypeOK
  <2>2. ASSUME NEW x \in sessions, session_free(x) PROVE x = s
    BY <2>1, <2>2 DEF session_free
  <2>3. CASE FreeNext
    <3>1. PICK x \in todo : session_free(x)
      BY <2>3 DEF FreeNext, seat_free_session, session_finalize_and_free
    <3>2. x = s /\ pc \in {"seat_free", "user_free"}
      BY <2>2, <2>3, <3>1 DEF FreeNext, IInv, PointersValid, SourcesPoint
    <3> QED BY <3>2 DEF StopInv, RunningKept, Running
  <2>4. ~ GcSessionFinish
    <3> SUFFICES ASSUME GcSessionFinish PROVE FALSE
      OBVIOUS
    <3>1. session_may_gc(cur) /\ session_free(cur) /\ cur \in sessions
      BY <2>1 DEF GcSessionFinish, session_finalize_and_free, sessVars, IInv, WalksValid
    <3> QED BY <2>2, <3>1 DEF session_may_gc
  <2>5. ASSUME UNCHANGED info PROVE FALSE
    BY <2>1, <2>5
  <2>6. ~ Creates
    <3> SUFFICES ASSUME Creates PROVE FALSE
      OBVIOUS
    <3>1. PICK x \in SessionIds, u \in Uids, c \in Classes, t \in Types,
               e \in Seats \cup {Nil}, v \in 0 .. MaxVT : CreateSession(x, u, c, t, e, v)
      BY DEF Creates
    <3> QED BY <2>1, <3>1, Created
  <2>7. ASSUME NEW x \in SessionIds, Retypes(x) PROVE FALSE
    BY <2>1, <2>7, Retyped DEF sessions
  <2>8. FreeNext
    BY <2>4, <2>5, <2>6, <2>7, InfoKinds
  <2> QED BY <2>3, <2>8
<1> QED BY <1>1, PointersInvariant, StopInvariant, PTL DEF Spec, LiveSessionKept

-----------------------------------------------------------------------------
(***************************************************************************)
(* The primary session of a user                                           *)
(***************************************************************************)
\* What DisplayElected says of one user u, when the sessions of run are running and d
\* is the display.
Elected(inf, u, run, d) ==
    LET C == DisplayCandidates(inf, u, run)
    IN  C # {} => d \in C /\ \A s \in C : ~ elect_display_prefers(inf, s, d)

\* The order that elect_display_compare() sorts by, as a number.
Rank(inf, s) == 4 * class_rank(inf[s].class) + type_rank(inf[s].type)

\* elect_display_compare() compares the ranks.
LEMMA PrefersByRank ==
    ASSUME NEW inf, NEW a, NEW b
    PROVE  /\ Rank(inf, a) \in Nat
           /\ elect_display_prefers(inf, a, b) => Rank(inf, a) < Rank(inf, b)
<1>1. \A c : class_rank(c) \in 0 .. 2
  BY DEF class_rank
<1>2. \A t : type_rank(t) \in 0 .. 3
  BY DEF type_rank
<1> DEFINE ca == class_rank(inf[a].class)
           cb == class_rank(inf[b].class)
           ta == type_rank(inf[a].type)
           tb == type_rank(inf[b].type)
<1>3. ca \in 0 .. 2 /\ cb \in 0 .. 2 /\ ta \in 0 .. 3 /\ tb \in 0 .. 3
  BY <1>1, <1>2
<1>4. Rank(inf, a) = 4 * ca + ta /\ Rank(inf, b) = 4 * cb + tb
  BY DEF Rank
<1>5. elect_display_prefers(inf, a, b) => ca < cb \/ (ca = cb /\ ta < tb)
  BY DEF elect_display_prefers
<1> HIDE DEF ca, cb, ta, tb
<1>6. 4 * ca + ta \in Nat
  BY <1>3
<1>7. ca < cb \/ (ca = cb /\ ta < tb) => 4 * ca + ta < 4 * cb + tb
  BY <1>3
<1> QED BY <1>4, <1>5, <1>6, <1>7

\* user_elect_display() elects a candidate that no other beats.
LEMMA BestElected ==
    ASSUME NEW inf, NEW ord \in Seq(SessionIds), NEW u, NEW run \in SUBSET Linked(ord)
    PROVE  Elected(inf, u, run, user_elect_display(inf, ord, u, run))
<1> DEFINE C == DisplayCandidates(inf, u, run)
           best == {s \in C : \A t \in C : ~ elect_display_prefers(inf, t, s)}
           d == user_elect_display(inf, ord, u, run)
<1> SUFFICES ASSUME C # {}
             PROVE  d \in C /\ \A s \in C : ~ elect_display_prefers(inf, s, d)
  BY DEF Elected
<1>1. C \subseteq Linked(ord)
  BY DEF DisplayCandidates
<1>2. d = IF display[u] \in C /\ \A s \in C : ~ elect_display_prefers(inf, s, display[u])
          THEN display[u] ELSE FirstIn(ord, best)
  BY DEF user_elect_display
<1> HIDE DEF C, d
<1>3. best # {}
  <2> DEFINE T == {Rank(inf, s) : s \in C}
  <2>1. T \in SUBSET Nat /\ T # {}
    BY PrefersByRank
  <2>2. PICK r \in T : \A y \in T : r <= y
    BY <2>1, LeastNatural
  <2>3. PICK s \in C : r = Rank(inf, s)
    BY <2>2
  <2>4. ASSUME NEW t \in C, elect_display_prefers(inf, t, s) PROVE FALSE
    <3>1. Rank(inf, t) < Rank(inf, s) /\ Rank(inf, t) \in Nat /\ Rank(inf, s) \in Nat
      BY <2>4, PrefersByRank
    <3>2. Rank(inf, s) <= Rank(inf, t)
      BY <2>2, <2>3
    <3> QED BY <3>1, <3>2
  <2> QED BY <2>3, <2>4
<1>4. FirstIn(ord, best) \in best
  <2>1. best \subseteq Linked(ord)
    BY <1>1
  <2>2. Linked(ord) \cap best # {}
    BY <1>3, <2>1
  <2> HIDE DEF best
  <2> QED BY <2>2, FirstInFound
<1> QED BY <1>2, <1>4

\* An election stands as long as the candidates do.
LEMMA StillElected ==
    ASSUME NEW inf, NEW inf2, NEW u, NEW run, NEW run2, NEW d, Elected(inf, u, run, d),
           DisplayCandidates(inf2, u, run2) = DisplayCandidates(inf, u, run),
           \A s \in DisplayCandidates(inf, u, run) : inf2[s] = inf[s]
    PROVE  Elected(inf2, u, run2, d)
BY DEF Elected, elect_display_prefers

\* A session that is freed was no candidate.
LEMMA FreedNoCandidate ==
    ASSUME IInv, StopInv, [Next]_vars, NEW s \in sessions, session_free(s)
    PROVE  s \notin Running \/ ~ SESSION_CLASS_CAN_DISPLAY(info[s].class)
<1>1. info \in [SessionIds -> SessionInfo \cup {Nil}] /\ s \in SessionIds /\ info[s] # Nil
  BY DEF IInv, TypeOK, SessionTypeOK, sessions
<1>2. info' = [info EXCEPT ![s] = Nil]
  BY DEF session_free
<1>3. \A x : session_free(x) /\ x \in sessions => x = s
  BY <1>1, <1>2 DEF session_free, sessions
<1>4. CASE FreeNext
  <2>1. PICK x \in todo : session_free(x)
    BY <1>4 DEF FreeNext, seat_free_session, session_finalize_and_free
  <2>2. s \in todo /\ pc \in {"seat_free", "user_free"}
    BY <1>3, <1>4, <2>1 DEF FreeNext, IInv, PointersValid, SourcesPoint
  <2>3. s \notin Running \/ ~ SESSION_CLASS_PIN_USER(info[s].class)
    BY <2>2 DEF StopInv, RunningKept
  <2> QED BY <2>3 DEF SESSION_CLASS_PIN_USER, SESSION_CLASS_CAN_DISPLAY
<1>5. CASE GcSessionFinish
  <2>1. cur \in sessions /\ pc = "session_gc"
    BY <1>5 DEF GcSessionFinish, IInv, WalksValid
  <2>2. session_free(cur)
    BY <1>1, <1>2, <1>5 DEF GcSessionFinish, session_finalize_and_free, sessVars
  <2> QED BY <1>3, <2>1, <2>2 DEF StopInv, RunningKept
<1>6. info'[s] = Nil /\ info' # info
  BY <1>1, <1>2
<1>7. ASSUME Creates PROVE FALSE
  <2>1. PICK x \in SessionIds, u \in Uids, c \in Classes, t \in Types,
             e \in Seats \cup {Nil}, v \in 0 .. MaxVT : CreateSession(x, u, c, t, e, v)
    BY <1>7 DEF Creates
  <2> QED BY <1>1, <1>6, <2>1, Created
<1>8. ASSUME NEW x \in SessionIds, Retypes(x) PROVE FALSE
  BY <1>1, <1>6, <1>8, Retyped DEF sessions
<1> QED BY <1>4, <1>5, <1>6, <1>7, <1>8, InfoKinds

\* What a step does to the election of user w: it is held where a session of w starts or
\* stops, and it stands unless a session of w changes.
LEMMA NextDisplay ==
    ASSUME IInv, ListInv, ListInv', StopInv, [Next]_vars, NEW w \in Uids
    PROVE  /\ StartsOrStops(w) => Elected(info', w, Running', display'[w])
           /\ Elected(info, w, Running, display[w]) /\ ~ Changes(w)
                => Elected(info', w, Running', display'[w])
<1> DEFINE C == DisplayCandidates(info, w, Running)
           Before == Elected(info, w, Running, display[w])
           After == Elected(info', w, Running', display'[w])
<1>1. /\ info \in [SessionIds -> SessionInfo \cup {Nil}]
      /\ display \in [Uids -> SessionIds \cup {Nil}]
      /\ started \subseteq sessions /\ sessions \subseteq SessionIds
      /\ \A s \in sessions : info[s].user \in Uids
  BY DEF IInv, TypeOK, SessionTypeOK, UserTypeOK, PointersValid, SourcesPoint, sessions,
     SessionInfo
<1>2. ASSUME UNCHANGED <<started, stopping>> PROVE ~ StartsOrStops(w)
  BY <1>2 DEF StartsOrStops
<1> DEFINE Goal == /\ StartsOrStops(w) => After
                   /\ Before /\ ~ Changes(w) => After
<1>3. ASSUME Creates PROVE Goal
  <2>1. PICK s \in SessionIds, u \in Uids, c \in Classes, t \in Types,
             e \in Seats \cup {Nil}, v \in 0 .. MaxVT : CreateSession(s, u, c, t, e, v)
    BY <1>3 DEF Creates
  <2>2. /\ s \notin sessions /\ sessions' = sessions \cup {s}
        /\ \A x \in SessionIds \ {s} : info'[x] = info[x]
        /\ info'[s].user = u /\ stopping' = stopping
    BY <2>1, Created
  <2>3. ASSUME started' = started \/ (w # u /\ started' = started \cup {s}),
               display'[w] = display[w]
        PROVE  Goal
    <3>1. DisplayCandidates(info', w, Running') = C
      BY <1>1, <2>2, <2>3 DEF DisplayCandidates, Running
    <3>2. \A x \in C : info'[x] = info[x]
      BY <1>1, <2>2 DEF DisplayCandidates, Running
    <3>3. Before => After
      BY <2>3, <3>1, <3>2, StillElected
    <3>4. ~ StartsOrStops(w)
      BY <2>2, <2>3 DEF StartsOrStops
    <3> QED BY <3>3, <3>4
  <2>4. CASE started' = started /\ display' = display
    BY <2>3, <2>4
  <2>5. CASE /\ started' = started \cup {s}
             /\ display' = [display EXCEPT ![u] =
                              user_elect_display(info', order', u, started' \ stopping)]
    <3>1. Running' \in SUBSET Linked(order')
      BY <1>1, <2>2, <2>5 DEF Running, ListInv
    <3>2. order' \in Seq(SessionIds)
      BY DEF ListInv
    <3>3. Elected(info', u, Running', user_elect_display(info', order', u, Running'))
      BY <3>1, <3>2, BestElected
    <3>4. display'[u] = user_elect_display(info', order', u, Running')
      BY <1>1, <2>2, <2>5 DEF Running
    <3>5. w # u => display'[w] = display[w]
      BY <1>1, <2>5
    <3> QED BY <2>3, <2>5, <3>3, <3>4, <3>5
  <2> QED BY <2>1, <2>4, <2>5 DEF CreateSession, session_start_ok, create_session_failed
<1>4. ASSUME NEW s \in sessions, Stops(s) PROVE Goal
  <2>0. PICK u \in Uids : u = info[s].user
    BY <1>1
  <2>1. /\ UNCHANGED <<info, order, started>> /\ stopping' = stopping \cup {s}
        /\ display' = [display EXCEPT ![u] =
                         user_elect_display(info, order, u, started \ stopping')]
    BY <1>4, <2>0 DEF Stops, session_stop_running
  <2>2. Running' = started \ stopping' /\ Running' \in SUBSET Linked(order)
    BY <1>1, <2>1 DEF Running, ListInv
  <2>3. order \in Seq(SessionIds)
    BY DEF ListInv
  <2>4. Elected(info, u, Running', user_elect_display(info, order, u, Running'))
    BY <2>2, <2>3, BestElected
  <2>5. display'[u] = user_elect_display(info, order, u, Running')
    BY <1>1, <2>1, <2>2
  <2>6. CASE w # u
    <3>1. display'[w] = display[w]
      BY <1>1, <2>1, <2>6
    <3>2. DisplayCandidates(info', w, Running') = C
      BY <2>0, <2>1, <2>6 DEF DisplayCandidates, Running
    <3>3. Before => After
      BY <2>1, <3>1, <3>2, StillElected
    <3>4. ~ StartsOrStops(w)
      BY <2>0, <2>1, <2>6 DEF StartsOrStops
    <3> QED BY <3>3, <3>4
  <2>7. CASE w = u
    BY <2>1, <2>4, <2>5, <2>7
  <2> QED BY <2>6, <2>7
<1>5. ASSUME NEW s \in sessions, session_free(s) PROVE Goal
  <2>1. /\ info' = [info EXCEPT ![s] = Nil] /\ started' = started \ {s}
        /\ stopping' = stopping \ {s} /\ display' = unset(display, s)
    BY <1>5 DEF session_free
  <2>2. s \notin C
    BY <1>5, FreedNoCandidate DEF DisplayCandidates
  <2>3. \A x \in SessionIds \ {s} : info'[x] = info[x]
    BY <1>1, <2>1
  <2>4. Running' = Running \ {s}
    BY <2>1 DEF Running
  <2>5. DisplayCandidates(info', w, Running') = C
    BY <1>1, <2>2, <2>3, <2>4 DEF DisplayCandidates, Running
  <2>6. \A x \in C : info'[x] = info[x]
    BY <1>1, <2>2, <2>3 DEF DisplayCandidates, Running
  <2>7. Before => Elected(info', w, Running', display[w])
    BY <2>5, <2>6, StillElected
  <2>8. display'[w] = display[w] \/ display[w] = s
    BY <1>1, <2>1 DEF unset
  <2>9. ~ StartsOrStops(w)
    BY <2>1 DEF StartsOrStops
  <2>10. Before => After
    BY <2>2, <2>5, <2>7, <2>8 DEF Elected
  <2> QED BY <2>9, <2>10
<1>6. ASSUME UserFreed PROVE Goal
  <2>1. /\ SessionsOfUser(cur) = {} /\ display' = [display EXCEPT ![cur] = Nil]
        /\ UNCHANGED <<info, started, stopping>>
    BY <1>6, UserSteps DEF UserFreed, IInv, WalksValid
  <2>2. Running' = Running
    BY <2>1 DEF Running
  <2>3. w = cur => C = {}
    BY <1>1, <2>1 DEF DisplayCandidates, Running, SessionsOfUser
  <2>4. w # cur => display'[w] = display[w]
    BY <1>1, <2>1
  <2>5. Before => After
    BY <2>1, <2>2, <2>3, <2>4 DEF Elected
  <2> QED BY <1>2, <2>1, <2>5
<1>7. ASSUME UNCHANGED <<info, started, stopping, display>> PROVE Goal
  <2>1. Running' = Running
    BY <1>7 DEF Running
  <2>2. Before => After
    BY <1>7, <2>1
  <2> QED BY <1>2, <1>7, <2>2
<1>8. ASSUME UserStopped \/ \E u \in Uids : ChangesUser(u)
      PROVE  UNCHANGED display
  BY <1>8 DEF UserStopped, ChangesUser, EnableLinger, UserStopTimeout, StopDelayElapses
<1>9. ASSUME NEW s \in SessionIds, Retypes(s) PROVE Goal
  <2>1. /\ UNCHANGED <<started, stopping, display>> /\ sessions' = sessions
        /\ \A x \in sessions : info'[x].user = info[x].user
    BY <1>9, Retyped DEF userVars
  <2>2. ASSUME ~ Changes(w), NEW x \in sessions, info[x].user = w PROVE info'[x] = info[x]
    BY <2>1, <2>2 DEF Changes, SessionsOfUser, sessions
  <2>3. Running' = Running
    BY <2>1 DEF Running
  <2>4. ASSUME ~ Changes(w) PROVE \A x \in C : info'[x] = info[x]
    BY <1>1, <2>2, <2>4 DEF DisplayCandidates, Running
  <2>5. ASSUME ~ Changes(w) PROVE DisplayCandidates(info', w, Running') = C
    BY <1>1, <2>1, <2>2, <2>3, <2>5 DEF DisplayCandidates, Running, sessions
  <2>6. Before /\ ~ Changes(w) => After
    BY <2>1, <2>4, <2>5, StillElected
  <2> QED BY <1>2, <2>1, <2>6
<1> HIDE DEF Goal
<1>10. Goal
  BY <1>3, <1>4, <1>5, <1>6, <1>7, <1>8, <1>9, StepKinds, UserSteps DEF Leaves
<1> QED BY <1>10 DEF Goal

\* user_elect_display(): whenever a session of a user starts or stops, the user's display
\* is a running session of the user that no other is to be preferred to, if there is one,
\* and it stays that until a session of the user changes its type or class.
THEOREM BestDisplay == Spec => DisplayElected
<1> DEFINE P == \A u \in Uids : /\ StartsOrStops(u) => DisplayBest(u)'
                                /\ DisplayBest(u) /\ ~ Changes(u) => DisplayBest(u)'
<1>1. ASSUME IInv, ListInv, ListInv', StopInv, [Next]_vars PROVE [P]_vars
  <2> SUFFICES ASSUME NEW u \in Uids
               PROVE  /\ StartsOrStops(u) => DisplayBest(u)'
                      /\ DisplayBest(u) /\ ~ Changes(u) => DisplayBest(u)'
    OBVIOUS
  <2>1. DisplayBest(u) <=> Elected(info, u, Running, display[u])
    BY DEF DisplayBest, Elected, Running
  <2>2. DisplayBest(u)' <=> Elected(info', u, Running', display'[u])
    BY DEF DisplayBest, Elected, Running
  <2> QED BY <1>1, <2>1, <2>2, NextDisplay
<1> HIDE DEF P
<1>2. Spec => [][P]_vars
  BY <1>1, PointersInvariant, ListInvariant, StopInvariant, PTL DEF Spec
<1> QED BY <1>2 DEF P, DisplayElected

-----------------------------------------------------------------------------
(***************************************************************************)
(* The slots of a seat                                                     *)
(***************************************************************************)
\* What claims the slot of its position.
Claims(x) == x \in sessions /\ info[x].seat # Nil /\ position[x] # 0

\* seat_evict_position() hands the slot on, if a session that claims it is to stay.
LEMMA SlotHandedOn ==
    ASSUME IInv, ListInv, NEW s \in sessions, seat_evict_position(s),
           NEW x \in sessions, x # s, Claims(x), ~ session_closing(x), ~ SlotFree(x)
    PROVE  /\ position'[x] = position[x]
           /\ positions'[<<info[x].seat, position[x]>>] # Nil
<1>1. /\ s \in SessionIds /\ x \in SessionIds
      /\ position \in [SessionIds -> 0 .. MaxPos]
      /\ positions \in [Seats \X Positions -> SessionIds \cup {Nil}]
      /\ info[x] \in SessionInfo /\ info[s] \in SessionInfo
  BY DEF IInv, TypeOK, SessionTypeOK, SeatTypeOK, sessions
<1>2. info[x].seat \in Seats /\ position[x] \in Positions
  BY <1>1, LogindAssumption DEF SessionInfo, Positions, Claims
<1>3. positions[<<info[x].seat, position[x]>>] # Nil
  BY DEF SlotFree, Claims
<1> DEFINE h == FirstIn(order, Heirs(s))
           k == <<info[s].seat, position[s]>>
<1>4. /\ position' = [position EXCEPT ![s] = 0]
      /\ positions' = IF HoldsPosition(s) THEN [positions EXCEPT ![k] = h] ELSE positions
  BY DEF seat_evict_position
<1>5. CASE info[x].seat = info[s].seat /\ position[x] = position[s]
  <2>1. x \in Heirs(s)
    BY <1>5 DEF Heirs, SessionsOfSeat
  <2>2. x \in Linked(order) \cap Heirs(s) /\ order \in Seq(SessionIds)
    BY <2>1 DEF ListInv
  <2>3. h \in Heirs(s)
    BY <2>2, FirstInFound
  <2>4. h # Nil
    BY <2>3, LogindAssumption DEF Heirs, SessionsOfSeat, sessions
  <2> HIDE DEF h
  <2> QED BY <1>1, <1>2, <1>3, <1>4, <1>5, <2>4
<1>6. CASE ~ (info[x].seat = info[s].seat /\ position[x] = position[s])
  <2>1. <<info[x].seat, position[x]>> # k
    BY <1>6
  <2> HIDE DEF h, k
  <2> QED BY <1>1, <1>2, <1>3, <1>4, <2>1
<1> QED BY <1>5, <1>6

\* A step that frees the slot of a session which is to stay finds it free already.
LEMMA SlotStaysTaken ==
    ASSUME IInv, ListInv, [Next]_vars, NEW x \in SessionIds, Slotless(x)',
           ~ Creates => (~ session_closing(x) \/ SlotFree(x))
    PROVE  SlotFree(x)
<1>1. /\ info \in [SessionIds -> SessionInfo \cup {Nil}]
      /\ position \in [SessionIds -> 0 .. MaxPos]
      /\ positions \in [Seats \X Positions -> SessionIds \cup {Nil}]
      /\ sessions \subseteq SessionIds /\ Nil \notin SessionIds
  BY LogindAssumption DEF IInv, TypeOK, SessionTypeOK, SeatTypeOK, sessions
<1>2. /\ x \in sessions' /\ info'[x].seat # Nil /\ position'[x] # 0
      /\ positions'[<<info'[x].seat, position'[x]>>] = Nil
  BY DEF Slotless, SlotFree
<1>3. CASE Creates
  <2>1. PICK s \in SessionIds, u \in Uids, c \in Classes, t \in Types,
             e \in Seats \cup {Nil}, v \in 0 .. MaxVT : CreateSession(s, u, c, t, e, v)
    BY <1>3 DEF Creates
  <2>2. /\ s \notin sessions /\ sessions' = sessions \cup {s}
        /\ \A y \in SessionIds \ {s} : info'[y] = info[y]
        /\ info'[s].seat = e
    BY <2>1, Created
  <2>3. seat_assign_position(e, s, v)
    BY <2>1 DEF CreateSession, session_register
  <2>4. CASE e = Nil /\ UNCHANGED <<position, positions>>
    BY <1>2, <2>2, <2>4 DEF SlotFree
  <2>5. ASSUME NEW p \in Positions, e # Nil,
               position' = [position EXCEPT ![s] = p],
               positions' = [positions EXCEPT ![<<e, p>>] = s]
        PROVE  SlotFree(x)
    <3>1. CASE x = s
      BY <1>1, <1>2, <2>2, <2>5, <3>1
    <3>2. CASE x # s
      <4>1. x \in sessions /\ info'[x] = info[x] /\ position'[x] = position[x]
        BY <1>1, <1>2, <2>2, <2>5, <3>2
      <4>2. <<info[x].seat, position[x]>> \in Seats \X Positions
        BY <1>1, <1>2, <4>1, LogindAssumption DEF sessions, SessionInfo, Positions
      <4>3. positions[<<info[x].seat, position[x]>>] = Nil
        BY <1>1, <1>2, <2>5, <4>1, <4>2
      <4> QED BY <1>2, <4>1, <4>3 DEF SlotFree
    <3> QED BY <3>1, <3>2
  <2> QED BY <2>3, <2>4, <2>5 DEF seat_assign_position
<1>4. ASSUME ~ Creates, NEW s \in sessions, seat_evict_position(s), position'[s] = 0,
             x \in sessions, info'[x] = info[x]
      PROVE  SlotFree(x)
  <2> SUFFICES ASSUME ~ SlotFree(x) PROVE FALSE
    OBVIOUS
  <2>1. x # s /\ ~ session_closing(x)
    BY <1>2, <1>4
  <2>2. position'[x] = position[x]
    BY <1>1, <1>4, <2>1 DEF seat_evict_position
  <2>3. Claims(x)
    BY <1>2, <1>4, <2>2 DEF Claims
  <2>4. positions'[<<info[x].seat, position[x]>>] # Nil
    BY <1>4, <2>1, <2>3, SlotHandedOn
  <2> QED BY <1>2, <1>4, <2>2, <2>4
<1>5. ASSUME ~ Creates, NEW s \in sessions, Stops(s) PROVE SlotFree(x)
  <2>1. seat_evict_position(s) /\ info' = info
    BY <1>5 DEF Stops, session_stop_running
  <2>2. position'[s] = 0 /\ x \in sessions
    BY <1>1, <1>2, <2>1 DEF seat_evict_position, sessions
  <2> QED BY <1>4, <1>5, <2>1, <2>2
<1>6. ASSUME ~ Creates, NEW s \in sessions, session_free(s) PROVE SlotFree(x)
  <2>1. sessions' = sessions \ {s} /\ info' = [info EXCEPT ![s] = Nil]
    BY <1>6, SessionFreed
  <2>2. seat_evict_position(s) /\ position'[s] = 0
    BY <1>1, <1>6 DEF session_free, seat_evict_position
  <2>3. x \in sessions /\ info'[x] = info[x]
    BY <1>1, <1>2, <2>1
  <2> QED BY <1>4, <1>6, <2>2, <2>3
<1>7. ASSUME UNCHANGED <<position, positions>>, x \in sessions, info'[x].seat = info[x].seat
      PROVE  SlotFree(x)
  BY <1>2, <1>7 DEF SlotFree
<1>8. ASSUME NEW s \in SessionIds, Retypes(s) PROVE SlotFree(x)
  <2>1. UNCHANGED <<position, positions>> /\ sessions' = sessions
        /\ \A y \in sessions : info'[y].seat = info[y].seat
    BY <1>8, Retyped DEF seatVars
  <2> QED BY <1>2, <1>7, <2>1
<1>9. ASSUME UNCHANGED <<info, position, positions>> PROVE SlotFree(x)
  BY <1>2, <1>7, <1>9 DEF sessions
<1> QED BY <1>3, <1>5, <1>6, <1>8, <1>9, StepKinds, UserSteps DEF Leaves

\* What a step can do to what makes a session close.
Quiet == UNCHANGED <<populated, cgEvent, stopping>> /\ timer \subseteq timer'

\* Steps that do not create, stop or free a session and that are not about its cgroup
\* never take a session's stop flag or its release timer back.
LEMMA QuietKinds ==
    ASSUME IInv, [Next]_vars
    PROVE  \/ Creates
           \/ \E s \in sessions : Stops(s)
           \/ \E s \in sessions : session_free(s)
           \/ \E s \in SessionIds : CgroupEvent(s) \/ CgroupChanges(s)
           \/ Quiet
<1> USE DEF Quiet, sessVars, procVars
<1>1. ASSUME NEW s, session_stop(s),
             UNCHANGED <<procVars, seats, master, active, pending, vtVars, users,
                         uStarted, uStopping, byPin, stamped, uTimer, linger, runtimeDir>>
      PROVE  Stops(s) \/ Quiet
  BY <1>1, StopKinds DEF Leaves
<1> HIDE DEF Quiet
<1>2. CASE SessionHandler
  <2>1. ASSUME NEW s \in SessionIds, ReleaseSession(s) \/ Activate(s)
        PROVE  Quiet
    BY <2>1 DEF Quiet, ReleaseSession, session_release, Activate, SeatHandler
  <2>2. ASSUME NEW s \in SessionIds,
               \/ ReleaseTimeout(s) \/ LeaderExit(s) \/ FifoEof(s)
               \/ TerminateSession(s) \/ StopOnIdle(s)
        PROVE  s \in sessions /\ (Stops(s) \/ Quiet)
    <3>1. StopHandler(s)
      BY <2>2 DEF ReleaseTimeout, LeaderExit, FifoEof, TerminateSession, StopOnIdle
    <3> QED BY <1>1, <3>1 DEF StopHandler
  <2>3. ASSUME NEW s \in SessionIds, Retypes(s) PROVE Quiet
    BY <2>3, Retyped DEF Quiet
  <2> QED BY <1>2, <2>1, <2>2, <2>3 DEF SessionHandler, Creates, Retypes
<1>3. CASE SeatOrUserHandler
  <2>1. ASSUME SeatHandler PROVE Quiet
    BY <2>1 DEF Quiet, SeatHandler
  <2>2. ASSUME NEW e \in Seats,
               \/ TerminateSeat(e) \/ SeatDeviceAdded(e) \/ SeatDeviceRemoved(e)
        PROVE  Quiet
    BY <2>2 DEF Quiet, TerminateSeat, SeatDeviceAdded, SeatDeviceRemoved
  <2>3. ASSUME NEW u \in Uids,
               \/ TerminateUser(u) \/ UserStopTimeout(u)
               \/ EnableLinger(u) \/ DisableLinger(u)
        PROVE  Quiet
    BY <2>3 DEF Quiet, TerminateUser, UserStopTimeout, EnableLinger, DisableLinger
  <2> QED BY <1>3, <2>1, <2>2, <2>3 DEF SeatOrUserHandler, ConsoleEvent, CompleteSwitch,
             SwitchTo, SwitchToNext, SwitchToPrevious
<1>4. CASE Collect
  <2>1. CASE StopNext
    <3>1. PICK s \in todo : session_stop(s)
      BY <2>1 DEF StopNext
    <3>2. s \in sessions
      BY DEF IInv, PointersValid, SourcesPoint
    <3> QED BY <1>1, <2>1, <3>1, <3>2 DEF StopNext
  <2>2. CASE FreeNext
    <3>1. PICK s \in todo : session_free(s)
      BY <2>2 DEF FreeNext, seat_free_session, session_finalize_and_free
    <3>2. s \in sessions
      BY DEF IInv, PointersValid, SourcesPoint
    <3> QED BY <3>1, <3>2
  <2>3. ASSUME NEW s \in SessionIds, GcSession(s)
        PROVE  Quiet \/ \E x \in sessions : Stops(x)
    <3>1. CASE session_stop(s)
      <4>1. s \in sessions
        BY <2>3 DEF GcSession, IInv, PointersValid, QueuesPoint
      <4> QED BY <1>1, <2>3, <3>1, <4>1 DEF GcSession
    <3>2. CASE UNCHANGED <<sessVars, positions, display>>
      BY <2>3, <3>2 DEF Quiet, GcSession
    <3> QED BY <2>3, <3>1, <3>2 DEF GcSession
  <2>4. CASE GcSessionFinish
    <3>1. cur \in sessions
      BY <2>4 DEF GcSessionFinish, IInv, WalksValid
    <3>2. session_free(cur) \/ UNCHANGED <<sessVars, procVars>>
      BY <2>4 DEF GcSessionFinish, session_finalize_and_free
    <3> QED BY <3>1, <3>2 DEF Quiet
  <2>5. CASE \/ UserStopped \/ SeatStopped \/ SeatFreed \/ UserFreed
             \/ GcUserFinish \/ GcDone
    BY <2>5 DEF Quiet, UserStopped, SeatStopped, SeatFreed, UserFreed, GcUserFinish, GcDone
  <2>6. ASSUME NEW e \in Seats, GcSeat(e) PROVE Quiet
    BY <2>6 DEF Quiet, GcSeat
  <2>7. ASSUME NEW u \in Uids, GcUser(u) PROVE Quiet
    BY <2>7 DEF Quiet, GcUser
  <2> QED BY <1>4, <2>1, <2>2, <2>3, <2>4, <2>5, <2>6, <2>7 DEF Collect
<1>5. CASE Environment
  <2>1. ASSUME NEW s \in SessionIds, LeaderDies(s) \/ FifoWriterGone(s)
        PROVE  Quiet
    BY <2>1 DEF Quiet, LeaderDies, FifoWriterGone, daemonVars
  <2>2. ASSUME NEW v \in VTs, VtSwitch(v) PROVE Quiet
    BY <2>2 DEF Quiet, VtSwitch, daemonVars
  <2>3. ASSUME NEW u \in Uids, StopDelayElapses(u) PROVE Quiet
    BY <2>3 DEF Quiet, StopDelayElapses
  <2> QED BY <1>5, <2>1, <2>2, <2>3 DEF Environment
<1>6. CASE UNCHANGED vars
  BY <1>6 DEF Quiet, vars
<1> QED BY <1>2, <1>3, <1>4, <1>5, <1>6 DEF Next

\* A session that was closing and closes no longer had its release timer running when it
\* was found that its cgroup is populated again.
LEMMA ClosingNoMore ==
    ASSUME IInv, [Next]_vars, ~ Creates, NEW x \in sessions', session_closing(x),
           ~ session_closing(x)'
    PROVE  x \in timer \cap cgEvent \cap populated
           /\ UNCHANGED <<info, position, positions>>
<1> USE DEF session_closing
<1>1. ASSUME NEW s \in sessions, Stops(s) PROVE FALSE
  BY <1>1 DEF Stops, session_stop_running
<1>2. ASSUME NEW s \in sessions, session_free(s) PROVE FALSE
  <2>1. sessions' = sessions \ {s}
    BY <1>2, SessionFreed
  <2> QED BY <1>2, <2>1 DEF session_free
<1>3. ASSUME NEW s \in SessionIds, CgroupEvent(s)
      PROVE  x \in timer \cap cgEvent \cap populated
             /\ UNCHANGED <<info, position, positions>>
  <2>1. UNCHANGED <<info, position, positions, stopping>>
    BY <1>3 DEF CgroupEvent, seatVars
  <2>2. s \in cgEvent /\ s \in populated /\ timer' = timer \ {s}
    BY <1>3, <2>1 DEF CgroupEvent, session_release
  <2> QED BY <2>1, <2>2
<1>4. ASSUME NEW s \in SessionIds, CgroupChanges(s) PROVE FALSE
  BY <1>4 DEF CgroupChanges, daemonVars, sessVars
<1>5. CASE Quiet
  BY <1>5 DEF Quiet
<1> QED BY <1>1, <1>2, <1>3, <1>4, <1>5, QuietKinds

\* seat_evict_position() hands the slot on: no step takes the slot of its position from a
\* session that is to stay.  A session is without one only if it was passed over while
\* its release timer ran, and its cgroup turned out to be populated again.
THEOREM SlotsKept == Spec => SlotKept
<1> DEFINE P == \A s \in SessionIds :
                  Slotless(s)' =>
                      \/ Slotless(s)
                      \/ SlotFree(s) /\ s \in timer \cap cgEvent \cap populated
<1>1. ASSUME IInv, ListInv, [Next]_vars PROVE [P]_vars
  <2> SUFFICES ASSUME NEW x \in SessionIds, Slotless(x)'
               PROVE  \/ Slotless(x)
                      \/ SlotFree(x) /\ x \in timer \cap cgEvent \cap populated
    OBVIOUS
  <2>1. x \in sessions' /\ ~ session_closing(x)'
    BY DEF Slotless, SlotFree
  <2>2. CASE Creates
    <3>1. SlotFree(x)
      BY <1>1, <2>2, SlotStaysTaken
    <3>2. UNCHANGED <<stopping, timer>>
      BY <2>2 DEF Creates, CreateSession
    <3>3. ~ session_closing(x)
      BY <2>1, <3>2 DEF session_closing
    <3> QED BY <3>1, <3>3 DEF Slotless
  <2>3. CASE ~ Creates /\ session_closing(x)
    <3>1. /\ x \in timer \cap cgEvent \cap populated
          /\ UNCHANGED <<info, position, positions>>
      BY <1>1, <2>1, <2>3, ClosingNoMore
    <3>2. SlotFree(x)
      BY <3>1 DEF Slotless, SlotFree, sessions
    <3> QED BY <3>1, <3>2
  <2>4. CASE ~ Creates /\ ~ session_closing(x)
    <3>1. SlotFree(x)
      BY <1>1, <2>4, SlotStaysTaken
    <3> QED BY <2>4, <3>1 DEF Slotless
  <2> QED BY <2>2, <2>3, <2>4
<1> HIDE DEF P
<1>2. Spec => [][P]_vars
  BY <1>1, PointersInvariant, ListInvariant, PTL DEF Spec
<1> QED BY <1>2 DEF P, SlotKept

-----------------------------------------------------------------------------
(***************************************************************************)
(* Users that nothing holds                                                *)
(***************************************************************************)
\* The configurations in which the collector hears of every user that nothing holds.
\* Outside them it does not: seat_free() frees sessions without queueing their user,
\* which only the stop delay makes up for, and a new session that does not pin its user
\* switches the timer of the stop delay off.
CollectorHears ==
    \/ UserStopDelay = "infinite"
    \/ UserStopDelay = "finite" /\ \A c \in Classes : SESSION_CLASS_PIN_USER(c)
    \/ UserStopDelay = "zero" /\ Seats = {Seat0}

\* What keeps a user, or will have it collected: besides what NoForgottenUser names, its
\* place in the garbage queue, and the collector being about to free it.
InCollection(u) == u \in userGc \/ (cur = u /\ pc \in {"user_gc_stop", "user_gc", "user_free"})

Held(u) ==
    \/ user_pinned_by_sessions(u) \/ u \in linger
    \/ UserStopDelay = "infinite" \/ uTimer[u] \in {"armed", "elapsed"}
    \/ InCollection(u)

\* The invariant.  A user in its stop delay has a timer, and no session pins it, and
\* without a delay there is no timer; seat0 is never collected.
UsersHeld == \A u \in users : Held(u)
DelayTimed ==
    IF UserStopDelay = "finite"
    THEN \A u \in stamped : uTimer[u] # "off" /\ ~ user_pinned_by_sessions(u)
    ELSE \A u \in Uids : uTimer[u] = "off"
HeldInv ==
    /\ UsersHeld /\ DelayTimed
    /\ pc = "event" => userGc = {}
    /\ byPin \subseteq users
    /\ pc \in {"seat_gc_stop", "seat_free"} => cur # Seat0

\* Where the daemon is allowed to go without losing track of a user.
KeepsTrack ==
    /\ \A u \in users : InCollection(u) => InCollection(u)'
    /\ pc' = "event" => userGc' = {}
    /\ pc' \in {"seat_gc_stop", "seat_free"} => cur' # Seat0

\* A step that leaves sessions, users and their delays alone.
LEMMA HeldSame ==
    ASSUME HeldInv, KeepsTrack,
           UNCHANGED <<info, users, byPin, linger, stamped, uTimer>>
    PROVE  HeldInv'
<1>1. \A u : user_pinned_by_sessions(u)' = user_pinned_by_sessions(u)
  BY DEF user_pinned_by_sessions, user_pinned_by, sessions
<1>2. UsersHeld'
  BY <1>1 DEF HeldInv, UsersHeld, Held, KeepsTrack
<1>3. DelayTimed'
  BY <1>1 DEF HeldInv, DelayTimed
<1> QED BY <1>2, <1>3 DEF HeldInv, KeepsTrack

\* Handlers begin between two collections, when no user is queued.
LEMMA HandlerTracks ==
    ASSUME HeldInv, pc = "event", pc' \in {"gc", "user_stop", "seat_stop"}
    PROVE  KeepsTrack
BY DEF HeldInv, KeepsTrack, InCollection

\* Handlers that are not about users.
LEMMA SessionHandlerHeld ==
    ASSUME HeldInv, NEW s \in SessionIds,
           \/ ReleaseSession(s) \/ ReleaseTimeout(s) \/ LeaderExit(s)
           \/ FifoEof(s) \/ TerminateSession(s) \/ StopOnIdle(s)
           \/ CgroupEvent(s) \/ Activate(s)
    PROVE  HeldInv'
<1> USE DEF sessVars, userVars
<1>1. ASSUME StopHandler(s) PROVE HeldInv'
  BY <1>1, HeldSame, HandlerTracks DEF StopHandler, session_stop
<1>2. ASSUME ReleaseSession(s) \/ CgroupEvent(s) \/ Activate(s) PROVE HeldInv'
  BY <1>2, HeldSame, HandlerTracks DEF ReleaseSession, CgroupEvent, Activate, SeatHandler
<1> QED BY <1>1, <1>2 DEF ReleaseTimeout, LeaderExit, FifoEof, TerminateSession, StopOnIdle

\* A session that changes its type or its class pins its user as before.
LEMMA RetypesHeld ==
    ASSUME IInv, HeldInv, NEW s \in SessionIds, Retypes(s)
    PROVE  HeldInv'
<1>1. /\ pc = "event" /\ pc' = "gc" /\ sessions' = sessions
      /\ UNCHANGED <<users, byPin, linger, stamped, uTimer>>
      /\ \A x \in sessions : StaysItself(x)
  BY Retyped DEF userVars, StaysItself
<1>2. \A u : user_pinned_by_sessions(u)' = user_pinned_by_sessions(u)
  BY <1>1 DEF user_pinned_by_sessions, user_pinned_by, StaysItself
<1>3. KeepsTrack
  BY <1>1, HandlerTracks
<1>4. UsersHeld'
  BY <1>1, <1>2, <1>3 DEF HeldInv, UsersHeld, Held, KeepsTrack
<1>5. DelayTimed'
  BY <1>1, <1>2 DEF HeldInv, DelayTimed
<1> QED BY <1>1, <1>3, <1>4, <1>5 DEF HeldInv, KeepsTrack

\* A new session pins its user, or finds it held already.
LEMMA CreateHeld ==
    ASSUME IInv, HeldInv, CollectorHears, Creates
    PROVE  HeldInv'
<1>1. PICK s \in SessionIds, u \in Uids, c \in Classes, t \in Types,
           e \in Seats \cup {Nil}, v \in 0 .. MaxVT : CreateSession(s, u, c, t, e, v)
  BY DEF Creates
<1>2. /\ s \notin sessions /\ sessions' = sessions \cup {s}
      /\ \A x \in SessionIds \ {s} : info'[x] = info[x]
      /\ info'[s].user = u /\ info'[s].class = c
  BY <1>1, Created
<1>3. /\ users' = users \cup {u} /\ linger' = linger
      /\ stamped' = stamped \ {u} /\ uTimer' = [uTimer EXCEPT ![u] = "off"]
      /\ byPin' = IF SESSION_CLASS_PIN_USER(c) THEN byPin \cup {u} ELSE byPin
      /\ pc = "event" /\ pc' = "gc"
  BY <1>1 DEF CreateSession, session_register, user_update_last_session_timer
<1>4. /\ uTimer \in [Uids -> {"off", "armed", "elapsed", "fired"}]
      /\ sessions \subseteq SessionIds /\ users \subseteq Uids /\ stamped \subseteq Uids
  BY DEF IInv, TypeOK, UserTypeOK, sessions
<1>5. ASSUME NEW w \in users, w # u
      PROVE  user_pinned_by_sessions(w)' = user_pinned_by_sessions(w)
  BY <1>2, <1>3, <1>4, <1>5 DEF user_pinned_by_sessions, user_pinned_by
<1>6. ASSUME NEW w \in users, w # u PROVE Held(w)'
  <2>1. w \in linger \/ user_pinned_by_sessions(w) \/ UserStopDelay = "infinite"
        \/ uTimer[w] \in {"armed", "elapsed"}
    BY <1>3 DEF HeldInv, UsersHeld, Held, InCollection
  <2>2. uTimer'[w] = uTimer[w]
    BY <1>3, <1>4, <1>6
  <2> QED BY <1>3, <1>5, <1>6, <2>1, <2>2 DEF Held
<1>7. Held(u)'
  <2>1. CASE SESSION_CLASS_PIN_USER(c) \/ u \notin byPin
    BY <1>2, <1>3, <2>1 DEF Held, user_pinned_by_sessions, user_pinned_by
  <2>2. CASE ~ SESSION_CLASS_PIN_USER(c) /\ u \in byPin
    <3>1. u \in users /\ byPin' = byPin /\ UserStopDelay # "finite"
      BY <1>3, <2>2 DEF HeldInv, CollectorHears
    <3>2. CASE UserStopDelay = "infinite" \/ u \in linger
      BY <1>3, <3>2 DEF Held
    <3>3. CASE user_pinned_by_sessions(u)
      BY <1>2, <1>4, <3>1, <3>3 DEF Held, user_pinned_by_sessions, user_pinned_by
    <3>4. CASE uTimer[u] \in {"armed", "elapsed"}
      BY <3>1, <3>4 DEF HeldInv, DelayTimed
    <3> QED BY <1>3, <3>1, <3>2, <3>3, <3>4 DEF HeldInv, UsersHeld, Held, InCollection
  <2> QED BY <2>1, <2>2
<1>8. UsersHeld'
  BY <1>3, <1>6, <1>7 DEF UsersHeld
<1>9. DelayTimed'
  <2> SUFFICES ASSUME UserStopDelay = "finite", NEW w \in stamped'
               PROVE  uTimer'[w] # "off" /\ ~ user_pinned_by_sessions(w)'
    BY <1>3, <1>4 DEF HeldInv, DelayTimed
  <2>1. w \in stamped /\ w # u /\ w \in Uids
    BY <1>3, <1>4
  <2>2. uTimer[w] # "off" /\ ~ user_pinned_by_sessions(w)
    BY <2>1 DEF HeldInv, DelayTimed
  <2>3. w \in users
    BY <2>1, <2>2 DEF IInv, PointersValid, UsersPoint
  <2> QED BY <1>3, <1>4, <1>5, <2>1, <2>2, <2>3
<1> QED BY <1>3, <1>8, <1>9 DEF HeldInv

\* The other handlers: the timer of the stop delay runs out only into the queue, a user
\* that does not linger any more is queued, and the others are not about users.
LEMMA OtherHandlerHeld ==
    ASSUME IInv, HeldInv, SeatOrUserHandler
    PROVE  HeldInv'
<1> USE DEF sessVars, userVars
<1>1. ASSUME SeatHandler PROVE HeldInv'
  BY <1>1, HeldSame, HandlerTracks DEF SeatHandler
<1>2. ASSUME NEW e \in Seats,
             TerminateSeat(e) \/ SeatDeviceAdded(e) \/ SeatDeviceRemoved(e)
      PROVE  HeldInv'
  BY <1>2, HeldSame, HandlerTracks DEF TerminateSeat, SeatDeviceAdded, SeatDeviceRemoved
<1>3. ASSUME NEW u \in Uids, TerminateUser(u) PROVE HeldInv'
  BY <1>3, HeldSame, HandlerTracks DEF TerminateUser
<1>4. uTimer \in [Uids -> {"off", "armed", "elapsed", "fired"}] /\ users \subseteq Uids
      /\ stamped \subseteq Uids
  BY DEF IInv, TypeOK, UserTypeOK
<1>5. ASSUME UNCHANGED <<info, byPin>>
      PROVE  \A u : user_pinned_by_sessions(u)' = user_pinned_by_sessions(u)
  BY <1>5 DEF user_pinned_by_sessions, user_pinned_by, sessions
<1>6. ASSUME NEW u \in Uids, UserStopTimeout(u) PROVE HeldInv'
  <2>1. /\ UNCHANGED <<info, users, byPin, linger, stamped>>
        /\ uTimer[u] = "elapsed" /\ uTimer' = [uTimer EXCEPT ![u] = "fired"]
        /\ userGc' = userGc \cup {u} /\ pc = "event" /\ pc' = "gc"
    BY <1>6 DEF UserStopTimeout
  <2>2. UsersHeld'
    BY <1>4, <1>5, <2>1 DEF HeldInv, UsersHeld, Held, InCollection
  <2>3. DelayTimed'
    BY <1>4, <1>5, <2>1 DEF HeldInv, DelayTimed
  <2> QED BY <2>1, <2>2, <2>3 DEF HeldInv
<1>7. ASSUME NEW u \in Uids, EnableLinger(u) PROVE HeldInv'
  <2>1. /\ UNCHANGED <<info, byPin, stamped, uTimer>> /\ users' = users \cup {u}
        /\ linger' = linger \cup {u} /\ pc = "event" /\ pc' = "gc"
    BY <1>7 DEF EnableLinger
  <2>2. UsersHeld'
    BY <1>5, <2>1 DEF HeldInv, UsersHeld, Held, InCollection
  <2>3. DelayTimed'
    BY <1>5, <2>1 DEF HeldInv, DelayTimed
  <2> QED BY <2>1, <2>2, <2>3 DEF HeldInv
<1>8. ASSUME NEW u \in Uids, DisableLinger(u) PROVE HeldInv'
  <2>1. /\ UNCHANGED <<info, users, stamped, uTimer>> /\ linger' = linger \ {u}
        /\ byPin' = IF u \in users THEN byPin \cup {u} ELSE byPin
        /\ userGc' = IF u \in users THEN userGc \cup {u} ELSE userGc
        /\ pc = "event" /\ pc' = "gc"
    BY <1>8 DEF DisableLinger
  <2>2. ASSUME NEW w, w # u PROVE user_pinned_by_sessions(w)' = user_pinned_by_sessions(w)
    BY <2>1, <2>2 DEF user_pinned_by_sessions, user_pinned_by, sessions
  <2>3. user_pinned_by_sessions(u)' => user_pinned_by_sessions(u)
    BY <2>1 DEF user_pinned_by_sessions, user_pinned_by, sessions
  <2>4. UsersHeld'
    BY <2>1, <2>2 DEF HeldInv, UsersHeld, Held, InCollection
  <2>5. DelayTimed'
    BY <2>1, <2>2, <2>3 DEF HeldInv, DelayTimed
  <2> QED BY <2>1, <2>4, <2>5 DEF HeldInv
<1> QED BY <1>1, <1>2, <1>3, <1>6, <1>7, <1>8 DEF SeatOrUserHandler, ConsoleEvent,
           CompleteSwitch, SwitchTo, SwitchToNext, SwitchToPrevious

\* What session_free() does to the stop delay: it begins when nothing pins the user any
\* more, with a timer if there is one to set.
LEMMA FreeDelays ==
    ASSUME IInv, HeldInv, NEW s \in sessions, session_free(s),
           NEW u \in Uids, u = info[s].user
    PROVE  /\ UNCHANGED <<users, linger, byPin>>
           /\ DelayTimed'
           /\ \A w \in Uids : w # u =>
                /\ user_pinned_by_sessions(w)' = user_pinned_by_sessions(w)
                /\ uTimer'[w] = uTimer[w]
           /\ UserStopDelay = "finite" /\ u \notin stamped =>
                user_pinned_by_sessions(u)' \/ uTimer'[u] = "armed"
<1>1. /\ info \in [SessionIds -> SessionInfo \cup {Nil}] /\ s \in SessionIds
      /\ uTimer \in [Uids -> {"off", "armed", "elapsed", "fired"}] /\ stamped \subseteq Uids
  BY DEF IInv, TypeOK, SessionTypeOK, UserTypeOK, sessions
<1>2. /\ info' = [info EXCEPT ![s] = Nil] /\ sessions' = sessions \ {s}
      /\ UNCHANGED <<users, linger, byPin>>
  BY SessionFreed DEF session_free
<1>3. user_update_last_session_timer(u, user_pinned_by(u, sessions \ {s}))
  BY DEF session_free
<1>4. \A x \in sessions \ {s} : info'[x] = info[x]
  BY <1>1, <1>2 DEF sessions
<1>5. \A w : user_pinned_by_sessions(w)' = user_pinned_by(w, sessions \ {s})
  BY <1>2, <1>4 DEF user_pinned_by_sessions, user_pinned_by
<1>6. \A w : w # u => user_pinned_by(w, sessions \ {s}) = user_pinned_by_sessions(w)
  BY DEF user_pinned_by_sessions, user_pinned_by
<1>7. user_pinned_by(u, sessions \ {s}) => user_pinned_by_sessions(u)
  BY DEF user_pinned_by_sessions, user_pinned_by
<1> DEFINE p == user_pinned_by(u, sessions \ {s})
<1>8. \/ p /\ stamped' = stamped \ {u} /\ uTimer' = [uTimer EXCEPT ![u] = "off"]
      \/ ~ p /\ u \in stamped /\ UNCHANGED <<stamped, uTimer>>
      \/ /\ ~ p /\ u \notin stamped /\ stamped' = stamped \cup {u}
         /\ uTimer' = [uTimer EXCEPT ![u] =
                         IF UserStopDelay = "finite" THEN "armed" ELSE "off"]
  BY <1>3 DEF user_update_last_session_timer
<1> HIDE DEF p
<1>9. \A w \in Uids : w # u => uTimer'[w] = uTimer[w] /\ (w \in stamped' <=> w \in stamped)
  BY <1>1, <1>8
<1>10. DelayTimed'
  <2>1. user_pinned_by_sessions(u)' = p
    BY <1>5 DEF p
  <2>2. stamped' \subseteq Uids
    BY <1>1, <1>8
  <2>3. CASE UserStopDelay = "finite"
    <3>1. \A w \in Uids : w # u /\ w \in stamped' =>
             uTimer'[w] # "off" /\ ~ user_pinned_by_sessions(w)'
      BY <1>5, <1>6, <1>9, <2>3 DEF HeldInv, DelayTimed
    <3>2. u \in stamped' => uTimer'[u] # "off" /\ ~ p
      BY <1>1, <1>8, <2>3 DEF HeldInv, DelayTimed
    <3> QED BY <2>1, <2>2, <2>3, <3>1, <3>2 DEF DelayTimed
  <2>4. CASE UserStopDelay # "finite"
    BY <1>1, <1>8, <2>4 DEF HeldInv, DelayTimed
  <2> QED BY <2>3, <2>4
<1>11. UserStopDelay = "finite" /\ u \notin stamped => p \/ uTimer'[u] = "armed"
  BY <1>1, <1>8
<1> QED BY <1>2, <1>5, <1>6, <1>9, <1>10, <1>11 DEF p

\* A session that the collector frees leaves its user queued, or in its stop delay.
LEMMA FreeHeld ==
    ASSUME IInv, HeldInv, CollectorHears, FreeNext \/ GcSessionFinish
    PROVE  HeldInv'
<1>1. users \subseteq Uids /\ sessions \subseteq SessionIds
      /\ \A s \in sessions : info[s].user \in Uids /\ info[s].class \in Classes
  BY DEF IInv, TypeOK, SessionTypeOK, UserTypeOK, sessions, SessionInfo
<1>2. ASSUME NEW s \in sessions, session_free(s), KeepsTrack,
             \/ userGc' = userGc \cup {info[s].user}
             \/ UserStopDelay = "infinite"
             \/ UserStopDelay = "finite" /\ \A c \in Classes : SESSION_CLASS_PIN_USER(c)
      PROVE  HeldInv'
  <2>1. PICK u \in Uids : u = info[s].user
    BY <1>1
  <2>2. /\ UNCHANGED <<users, linger, byPin>> /\ DelayTimed'
        /\ \A w \in Uids : w # u =>
             /\ user_pinned_by_sessions(w)' = user_pinned_by_sessions(w)
             /\ uTimer'[w] = uTimer[w]
        /\ UserStopDelay = "finite" /\ u \notin stamped =>
             user_pinned_by_sessions(u)' \/ uTimer'[u] = "armed"
    BY <1>2, <2>1, FreeDelays
  <2>3. ASSUME NEW w \in users, w # u PROVE Held(w)'
    BY <1>1, <1>2, <2>2, <2>3 DEF HeldInv, UsersHeld, Held, KeepsTrack
  <2>4. Held(u)'
    <3>1. CASE u \in userGc' \/ UserStopDelay = "infinite"
      BY <3>1 DEF Held, InCollection
    <3>2. CASE UserStopDelay = "finite" /\ \A c \in Classes : SESSION_CLASS_PIN_USER(c)
      <4>1. user_pinned_by_sessions(u)
        BY <1>1, <2>1, <3>2 DEF user_pinned_by_sessions, user_pinned_by
      <4>2. u \notin stamped
        BY <3>2, <4>1 DEF HeldInv, DelayTimed
      <4> QED BY <2>2, <3>2, <4>2 DEF Held
    <3> QED BY <1>2, <2>1, <3>1, <3>2
  <2>5. UsersHeld'
    BY <2>2, <2>3, <2>4 DEF UsersHeld
  <2> QED BY <1>2, <2>2, <2>5 DEF HeldInv, KeepsTrack
<1>3. CASE FreeNext
  <2>1. PICK s \in todo : IF pc = "seat_free" THEN seat_free_session(s)
                          ELSE session_finalize_and_free(s)
    BY <1>3 DEF FreeNext
  <2>2. s \in sessions /\ session_free(s)
    BY <2>1 DEF IInv, PointersValid, SourcesPoint, seat_free_session,
       session_finalize_and_free
  <2>3. UNCHANGED <<pc, cur>> /\ pc \in {"seat_free", "user_free"}
    BY <1>3 DEF FreeNext
  <2>4. userGc' = userGc \/ (userGc' = userGc \cup {info[s].user} /\ pc # "seat_free")
    BY <2>1 DEF seat_free_session, session_finalize_and_free
  <2>5. KeepsTrack
    BY <2>3, <2>4 DEF HeldInv, KeepsTrack, InCollection
  <2>6. pc = "seat_free" => UserStopDelay # "zero" \/ Seats # {Seat0}
    BY <2>3 DEF HeldInv, IInv, WalksValid, TypeOK, SeatTypeOK
  <2>7. pc # "seat_free" => userGc' = userGc \cup {info[s].user}
    BY <2>1 DEF session_finalize_and_free
  <2> QED BY <1>2, <2>2, <2>5, <2>6, <2>7 DEF CollectorHears
<1>4. CASE GcSessionFinish
  <2>1. pc = "session_gc" /\ pc' = "gc" /\ cur \in sessions
    BY <1>4 DEF GcSessionFinish, IInv, WalksValid
  <2>2. CASE session_finalize_and_free(cur)
    <3>1. PICK s \in sessions : s = cur
      BY <2>1
    <3>2. session_free(s) /\ userGc' = userGc \cup {info[s].user}
      BY <2>2, <3>1 DEF session_finalize_and_free
    <3>3. KeepsTrack
      BY <2>1, <3>2 DEF KeepsTrack, InCollection
    <3> QED BY <1>2, <3>2, <3>3
  <2>3. CASE UNCHANGED <<sessVars, userVars, gcVars>>
    <3>1. KeepsTrack
      BY <2>1, <2>3 DEF KeepsTrack, InCollection, gcVars
    <3> QED BY <2>3, <3>1, HeldSame DEF sessVars, userVars
  <2> QED BY <1>4, <2>2, <2>3 DEF GcSessionFinish
<1> QED BY <1>3, <1>4

\* What user_may_gc() does not let go is held.
LEMMA RefusedHeld ==
    ASSUME HeldInv, NEW u, ~ user_may_gc(u), u \in Uids,
           uTimer \in [Uids -> {"off", "armed", "elapsed", "fired"}]
    PROVE  \/ user_pinned_by_sessions(u) \/ u \in linger
           \/ UserStopDelay = "infinite" \/ uTimer[u] \in {"armed", "elapsed"}
<1>1. CASE u \in stamped /\ UserStopDelay = "finite"
  <2>1. uTimer[u] # "off"
    BY <1>1 DEF HeldInv, DelayTimed
  <2>2. CASE uTimer[u] = "fired"
    BY <2>2 DEF user_may_gc
  <2> QED BY <2>1, <2>2
<1>2. CASE u \notin stamped \/ UserStopDelay # "finite"
  BY <1>2 DEF user_may_gc
<1> QED BY <1>1, <1>2

\* The walks and the collector pass users on: from the queue to the collector, which
\* frees them or has user_may_gc() say what they are held by.
LEMMA CollectHeld ==
    ASSUME IInv, HeldInv, CollectorHears, Collect
    PROVE  HeldInv'
<1>1. /\ uTimer \in [Uids -> {"off", "armed", "elapsed", "fired"}]
      /\ users \subseteq Uids /\ stamped \subseteq Uids
  BY DEF IInv, TypeOK, UserTypeOK
<1> USE DEF sessVars, userVars
<1>2. CASE StopNext
  <2>1. /\ UNCHANGED <<info, users, byPin, linger, stamped, uTimer>>
        /\ UNCHANGED <<pc, cur, userGc>>
    BY <1>2 DEF StopNext, session_stop, gcVars
  <2> QED BY <2>1, HeldSame DEF HeldInv, KeepsTrack, InCollection
<1>3. CASE UserStopped
  <2>1. /\ UNCHANGED <<info, users, byPin, linger, stamped, uTimer>>
        /\ userGc' = userGc \cup {cur} /\ pc' \in {"gc", "user_gc"}
    BY <1>3 DEF UserStopped
  <2>2. KeepsTrack
    BY <2>1 DEF KeepsTrack, InCollection
  <2> QED BY <2>1, <2>2, HeldSame
<1>4. CASE SeatStopped \/ SeatFreed
  <2>1. /\ UNCHANGED <<info, users, byPin, linger, stamped, uTimer, userGc>>
        /\ pc \in {"seat_stop", "seat_gc_stop", "seat_free"}
        /\ pc' = "gc" \/ (pc = "seat_gc_stop" /\ pc' = "seat_free" /\ cur' = cur)
    BY <1>4 DEF SeatStopped, SeatFreed
  <2> QED BY <2>1, HeldSame DEF HeldInv, KeepsTrack, InCollection
<1>5. CASE UserFreed
  <2>1. /\ UNCHANGED <<info, linger>> /\ users' = users \ {cur} /\ byPin' = byPin \ {cur}
        /\ stamped' = stamped \ {cur} /\ uTimer' = [uTimer EXCEPT ![cur] = "off"]
        /\ userGc' = userGc \ {cur} /\ pc = "user_free" /\ pc' = "gc"
    BY <1>5 DEF UserFreed
  <2>2. \A w : w # cur => user_pinned_by_sessions(w)' = user_pinned_by_sessions(w)
    BY <2>1 DEF user_pinned_by_sessions, user_pinned_by, sessions
  <2>3. \A w \in Uids : w # cur => uTimer'[w] = uTimer[w]
    BY <1>1, <2>1
  <2>4. UsersHeld'
    BY <1>1, <2>1, <2>2, <2>3 DEF HeldInv, UsersHeld, Held, InCollection
  <2>5. DelayTimed'
    BY <1>1, <2>1, <2>2, <2>3 DEF HeldInv, DelayTimed
  <2> QED BY <2>1, <2>4, <2>5 DEF HeldInv
<1>6. ASSUME NEW e \in Seats, GcSeat(e) PROVE HeldInv'
  <2>1. /\ UNCHANGED <<info, users, byPin, linger, stamped, uTimer, userGc>>
        /\ pc = "gc"
        /\ UNCHANGED pc \/ (pc' = "seat_gc_stop" /\ cur' = e /\ seat_may_gc(e))
    BY <1>6 DEF GcSeat, walkVars
  <2> QED BY <2>1, HeldSame DEF KeepsTrack, InCollection, seat_may_gc
<1>7. ASSUME NEW s \in SessionIds, GcSession(s) PROVE HeldInv'
  <2>1. /\ UNCHANGED <<info, users, byPin, linger, stamped, uTimer, userGc>>
        /\ pc = "gc" /\ pc' = "session_gc"
    BY <1>7 DEF GcSession, session_stop
  <2> QED BY <2>1, HeldSame DEF KeepsTrack, InCollection
<1>8. ASSUME NEW u \in Uids, GcUser(u) PROVE HeldInv'
  <2>1. /\ UNCHANGED <<info, users, byPin, linger, stamped, uTimer>>
        /\ userGc' = userGc \ {u} /\ cur' = u
        /\ pc = "gc" /\ pc' \in {"user_gc_stop", "user_gc"}
    BY <1>8 DEF GcUser
  <2> QED BY <2>1, HeldSame DEF KeepsTrack, InCollection
<1>9. CASE GcUserFinish
  <2>1. UNCHANGED <<info, users, byPin, linger, stamped, uTimer, userGc>> /\ pc = "user_gc"
    BY <1>9 DEF GcUserFinish, gcVars
  <2>2. CASE user_may_gc(cur)
    <3>1. pc' = "user_free" /\ cur' = cur
      BY <1>9, <2>2 DEF GcUserFinish
    <3> QED BY <2>1, <3>1, HeldSame DEF KeepsTrack, InCollection
  <2>3. CASE ~ user_may_gc(cur)
    <3>1. pc' = "gc"
      BY <1>9, <2>3 DEF GcUserFinish
    <3>2. cur \in users
      BY <2>1 DEF IInv, WalksValid
    <3>3. \/ user_pinned_by_sessions(cur) \/ cur \in linger
          \/ UserStopDelay = "infinite" \/ uTimer[cur] \in {"armed", "elapsed"}
      BY <1>1, <2>3, <3>2, RefusedHeld
    <3>4. \A w : user_pinned_by_sessions(w)' = user_pinned_by_sessions(w)
      BY <2>1 DEF user_pinned_by_sessions, user_pinned_by, sessions
    <3>5. UsersHeld'
      BY <2>1, <3>1, <3>3, <3>4 DEF HeldInv, UsersHeld, Held, InCollection
    <3>6. DelayTimed'
      BY <2>1, <3>4 DEF HeldInv, DelayTimed
    <3> QED BY <2>1, <3>1, <3>5, <3>6 DEF HeldInv
  <2> QED BY <2>2, <2>3
<1>10. CASE GcDone
  <2>1. /\ UNCHANGED <<info, users, byPin, linger, stamped, uTimer, userGc>>
        /\ pc = "gc" /\ pc' = "event" /\ userGc = {}
    BY <1>10 DEF GcDone, gcVars
  <2> QED BY <2>1, HeldSame DEF KeepsTrack, InCollection
<1> QED BY <1>2, <1>3, <1>4, <1>5, <1>6, <1>7, <1>8, <1>9, <1>10, FreeHeld DEF Collect

\* Outside the daemon, only the stop delay is about users, and its timer stays pending
\* when it runs out.
LEMMA EnvironmentHeld ==
    ASSUME IInv, HeldInv, Environment \/ UNCHANGED vars
    PROVE  HeldInv'
<1>1. ASSUME UNCHANGED <<info, users, byPin, linger, stamped, uTimer, userGc, pc, cur>>
      PROVE  HeldInv'
  BY <1>1, HeldSame DEF HeldInv, KeepsTrack, InCollection
<1>2. CASE UNCHANGED <<daemonVars>> \/ UNCHANGED vars
  BY <1>1, <1>2 DEF vars, daemonVars, sessVars, userVars, gcVars, walkVars
<1>3. ASSUME NEW s \in SessionIds, LeaderDies(s) \/ FifoWriterGone(s) \/ CgroupChanges(s)
      PROVE  HeldInv'
  BY <1>1, <1>2, <1>3 DEF LeaderDies, FifoWriterGone, CgroupChanges, userVars, gcVars,
     walkVars
<1>4. ASSUME NEW u \in Uids, StopDelayElapses(u) PROVE HeldInv'
  <2>1. /\ UNCHANGED <<info, users, byPin, linger, stamped, userGc, pc, cur>>
        /\ uTimer[u] = "armed" /\ uTimer' = [uTimer EXCEPT ![u] = "elapsed"]
    BY <1>4 DEF StopDelayElapses, sessVars, gcVars, walkVars
  <2>2. \A w : user_pinned_by_sessions(w)' = user_pinned_by_sessions(w)
    BY <2>1 DEF user_pinned_by_sessions, user_pinned_by, sessions
  <2>3. /\ uTimer \in [Uids -> {"off", "armed", "elapsed", "fired"}]
        /\ users \subseteq Uids /\ stamped \subseteq Uids
    BY DEF IInv, TypeOK, UserTypeOK
  <2>4. UsersHeld'
    BY <2>1, <2>2, <2>3 DEF HeldInv, UsersHeld, Held, InCollection
  <2>5. DelayTimed'
    BY <2>1, <2>2, <2>3 DEF HeldInv, DelayTimed
  <2> QED BY <2>1, <2>4, <2>5 DEF HeldInv
<1>5. ASSUME NEW v \in VTs, VtSwitch(v) PROVE HeldInv'
  BY <1>2, <1>5 DEF VtSwitch
<1> QED BY <1>2, <1>3, <1>4, <1>5 DEF Environment

\* manager_gc() and the stop timer: between events no user is forgotten.  A user that
\* neither a session nor lingering keeps has the timer that will have it collected.
THEOREM NobodyForgotten == CollectorHears /\ Spec => []NoForgottenUser
<1> SUFFICES ASSUME CollectorHears PROVE Spec => []NoForgottenUser
  OBVIOUS
<1>1. Init => HeldInv
  BY DEF Init, HeldInv, UsersHeld, DelayTimed
<1>2. IInv /\ HeldInv /\ [Next]_vars => HeldInv'
  <2> SUFFICES ASSUME IInv, HeldInv, [Next]_vars PROVE HeldInv'
    OBVIOUS
  <2>1. CASE SessionHandler
    BY <2>1, SessionHandlerHeld, CreateHeld, RetypesHeld DEF SessionHandler, Creates, Retypes
  <2> QED BY <2>1, OtherHandlerHeld, CollectHeld, EnvironmentHeld DEF Next
<1>3. HeldInv => NoForgottenUser
  BY DEF HeldInv, UsersHeld, Held, InCollection, NoForgottenUser
<1> QED BY <1>1, <1>2, <1>3, PointersInvariant, PTL DEF Spec

-----------------------------------------------------------------------------
(***************************************************************************)
(* The collector comes to an end                                           *)
(*                                                                         *)
(* Liveness is left to TLC; what it rests on is proved: every step of a    *)
(* walk or of the collector brings the daemon nearer to its event loop, in *)
(* an order that has no infinite descent, and no walk is ever at a loss.   *)
(***************************************************************************)
\* What is left to do, the most significant part first: objects that can still be freed
\* or stopped; objects queued for collection, without the seat that is being freed; how
\* far the daemon is from the event loop; the sessions left in the walk.
ObjectsLeft == Cardinality(seats) + Cardinality(sessions)
                 + Cardinality(uStarted \ uStopping)
QueuedSeats == IF pc = "seat_free" THEN seatGc \ {cur} ELSE seatGc
QueuedLeft  == Cardinality(QueuedSeats) + Cardinality(sessGc) + Cardinality(userGc)
PhasesLeft  == IF pc = "event" THEN 0 ELSE
               IF pc = "gc" THEN 1 ELSE
               IF pc \in {"user_gc", "seat_gc_stop"} THEN 3 ELSE 2

GcLeft == <<ObjectsLeft, <<QueuedLeft, <<PhasesLeft, Cardinality(todo)>>>>>>

\* The lexicographic order of such tuples.
NatOrder == {p \in Nat \X Nat : p[1] < p[2]}
GcOrder ==
    LexPairOrdering(NatOrder,
        LexPairOrdering(NatOrder, LexPairOrdering(NatOrder, NatOrder, Nat, Nat),
                        Nat, Nat \X Nat),
        Nat, Nat \X (Nat \X Nat))
GcMeasures == Nat \X (Nat \X (Nat \X Nat))

\* One tuple is less than another if it is in the first part in which they differ.
Below(a, b, c, d, i, j, k, l) ==
    \/ a < i
    \/ a = i /\ b < j
    \/ a = i /\ b = j /\ c < k
    \/ a = i /\ b = j /\ c = k /\ d < l

\* That is the order.
LEMMA GcLess ==
    ASSUME NEW a \in Nat, NEW b \in Nat, NEW c \in Nat, NEW d \in Nat,
           NEW i \in Nat, NEW j \in Nat, NEW k \in Nat, NEW l \in Nat,
           Below(a, b, c, d, i, j, k, l)
    PROVE  <<<<a, <<b, <<c, d>>>>>>, <<i, <<j, <<k, l>>>>>>>> \in GcOrder
<1> USE DEF LexPairOrdering, NatOrder
<1> DEFINE R1 == LexPairOrdering(NatOrder, NatOrder, Nat, Nat)
           R2 == LexPairOrdering(NatOrder, R1, Nat, Nat \X Nat)
<1>1. (c < k \/ (c = k /\ d < l)) => <<<<c, d>>, <<k, l>>>> \in R1
  OBVIOUS
<1> HIDE DEF R1
<1>2. (b < j \/ (b = j /\ <<<<c, d>>, <<k, l>>>> \in R1))
        => <<<<b, <<c, d>>>>, <<j, <<k, l>>>>>> \in R2
  OBVIOUS
<1> HIDE DEF R2
<1>3. GcOrder = LexPairOrdering(NatOrder, R2, Nat, Nat \X (Nat \X Nat))
  BY DEF GcOrder, R1, R2
<1>4. (a < i \/ (a = i /\ <<<<b, <<c, d>>>>, <<j, <<k, l>>>>>> \in R2))
        => <<<<a, <<b, <<c, d>>>>>>, <<i, <<j, <<k, l>>>>>>>> \in GcOrder
  BY <1>3
<1> QED BY <1>1, <1>2, <1>4 DEF Below

\* The order has no infinite descent: a walk or a collection that goes down in it at
\* every step comes to an end.
LEMMA CollectionWellFounded == IsWellFoundedOn(GcOrder, GcMeasures)
<1>1. IsWellFoundedOn(NatOrder, Nat)
  <2>1. \A T \in SUBSET Nat : T # {} => \E x \in T : \A y \in T : ~ (<<y, x>> \in NatOrder)
    <3> SUFFICES ASSUME NEW T \in SUBSET Nat, T # {}
                 PROVE  \E x \in T : \A y \in T : ~ (<<y, x>> \in NatOrder)
      OBVIOUS
    <3>1. PICK x \in T : \A y \in T : x <= y
      BY LeastNatural
    <3>2. \A y \in T : ~ (<<y, x>> \in NatOrder)
      BY <3>1 DEF NatOrder
    <3> QED BY <3>2
  <2> QED BY <2>1, MinWF
<1>2. IsWellFoundedOn(LexPairOrdering(NatOrder, NatOrder, Nat, Nat), Nat \X Nat)
  BY <1>1, WFLexPairOrdering
<1>3. IsWellFoundedOn(
        LexPairOrdering(NatOrder, LexPairOrdering(NatOrder, NatOrder, Nat, Nat),
                        Nat, Nat \X Nat),
        Nat \X (Nat \X Nat))
  BY <1>1, <1>2, WFLexPairOrdering
<1>4. IsWellFoundedOn(GcOrder, Nat \X (Nat \X (Nat \X Nat)))
  BY <1>1, <1>3, WFLexPairOrdering DEF GcOrder
<1> QED BY <1>4 DEF GcMeasures

\* The invariant: there are finitely many seats and users, only users are started, and
\* user_stop() walks over the sessions of a user that is not stopping yet.
CountInv ==
    /\ IsFiniteSet(seats) /\ IsFiniteSet(users) /\ uStarted \subseteq users
    /\ pc \in {"user_stop", "user_gc_stop"} => cur \in uStarted \ uStopping

\* What a step of the daemon does to them.
LEMMA NextCount ==
    ASSUME CountInv, [Next]_vars
    PROVE  CountInv'
<1> USE DEF CountInv
<1>1. ASSUME NEW u, user_start_ok(u) \/ user_start_failed(u), users' = users \cup {u}
      PROVE  uStarted' \subseteq users' /\ IsFiniteSet(users')
  <2>1. IsFiniteSet(users \cup {u})
    BY FS_AddElement
  <2>2. uStarted' \subseteq uStarted \cup {u}
    BY <1>1 DEF user_start_ok, user_start_failed
  <2> QED BY <1>1, <2>1, <2>2
<1>2. ASSUME UNCHANGED <<seats, users, uStarted, uStopping, pc, cur>> PROVE CountInv'
  BY <1>2
<1>3. ASSUME UNCHANGED <<seats, users, uStarted>>, pc' \notin {"user_stop", "user_gc_stop"}
      PROVE  CountInv'
  BY <1>3
<1>4. CASE SessionHandler
  <2>1. ASSUME NEW s \in SessionIds, NEW u \in Uids, NEW c \in Classes, NEW t \in Types,
               NEW e \in Seats \cup {Nil}, NEW v \in 0 .. MaxVT,
               CreateSession(s, u, c, t, e, v)
        PROVE  CountInv'
    <3>1. /\ user_start_ok(u) \/ user_start_failed(u)
          /\ users' = users \cup {u} /\ pc' = "gc" /\ seats' = seats
      BY <2>1 DEF CreateSession, session_register
    <3> QED BY <1>1, <3>1
  <2>2. ASSUME NEW s \in SessionIds, StopHandler(s) PROVE CountInv'
    BY <1>3, <2>2 DEF StopHandler
  <2>3. ASSUME NEW s \in SessionIds, ReleaseSession(s) \/ CgroupEvent(s) \/ Activate(s)
        PROVE  CountInv'
    BY <1>3, <2>3 DEF ReleaseSession, CgroupEvent, Activate, SeatHandler, seatVars, userVars
  <2>4. ASSUME NEW s \in SessionIds, NEW new, SessionChanges(s, new) PROVE CountInv'
    BY <1>3, <2>4 DEF SessionChanges, seatVars, userVars
  <2> HIDE DEF CountInv
  <2> QED BY <1>4, <2>1, <2>2, <2>3, <2>4 DEF SessionHandler, ReleaseTimeout, LeaderExit,
             FifoEof, TerminateSession, StopOnIdle, SetType, SetClass
<1>5. CASE SeatOrUserHandler
  <2> USE DEF seatVars, userVars
  <2>1. ASSUME SeatHandler PROVE CountInv'
    BY <1>3, <2>1 DEF SeatHandler
  <2>2. ASSUME NEW e \in Seats, TerminateSeat(e) \/ SeatDeviceRemoved(e) PROVE CountInv'
    BY <1>3, <2>2 DEF TerminateSeat, SeatDeviceRemoved
  <2>3. ASSUME NEW e \in Seats, SeatDeviceAdded(e) PROVE CountInv'
    <3>1. /\ seats' = seats \cup {e} /\ UNCHANGED <<users, uStarted>> /\ pc' = "gc"
      BY <2>3 DEF SeatDeviceAdded
    <3>2. IsFiniteSet(seats \cup {e})
      BY FS_AddElement
    <3> QED BY <3>1, <3>2
  <2>4. ASSUME NEW u \in Uids, TerminateUser(u) PROVE CountInv'
    <3>1. /\ UNCHANGED <<seats, users, uStarted, uStopping>>
          /\ pc' = "gc" \/ (cur' = u /\ u \in uStarted \ uStopping)
      BY <2>4 DEF TerminateUser
    <3> QED BY <3>1
  <2>5. ASSUME NEW u \in Uids, UserStopTimeout(u) \/ DisableLinger(u) PROVE CountInv'
    BY <1>3, <2>5 DEF UserStopTimeout, DisableLinger
  <2>6. ASSUME NEW u \in Uids, EnableLinger(u) PROVE CountInv'
    <3>1. /\ user_start_ok(u) \/ user_start_failed(u)
          /\ users' = users \cup {u} /\ pc' = "gc" /\ seats' = seats
      BY <2>6 DEF EnableLinger
    <3> QED BY <1>1, <3>1
  <2> HIDE DEF CountInv
  <2> QED BY <1>5, <2>1, <2>2, <2>3, <2>4, <2>5, <2>6 DEF SeatOrUserHandler, ConsoleEvent,
             CompleteSwitch, SwitchTo, SwitchToNext, SwitchToPrevious
<1>6. CASE Collect
  <2> USE DEF seatVars, userVars
  <2>1. ASSUME NEW s, session_free(s) PROVE UNCHANGED <<seats, users, uStarted, uStopping>>
    BY <2>1 DEF session_free
  <2>2. CASE StopNext
    BY <1>2, <2>2 DEF StopNext
  <2>3. CASE UserStopped \/ SeatStopped
    BY <1>3, <2>3 DEF UserStopped, SeatStopped
  <2>4. CASE FreeNext
    BY <1>2, <2>1, <2>4 DEF FreeNext, seat_free_session, session_finalize_and_free
  <2>5. CASE SeatFreed
    <3>1. seats' = seats \ {cur} /\ UNCHANGED <<users, uStarted>> /\ pc' = "gc"
      BY <2>5 DEF SeatFreed
    <3>2. IsFiniteSet(seats \ {cur})
      BY FS_RemoveElement
    <3> QED BY <3>1, <3>2
  <2>6. CASE UserFreed
    <3>1. /\ users' = users \ {cur} /\ uStarted' = uStarted \ {cur} /\ seats' = seats
          /\ pc' = "gc"
      BY <2>6 DEF UserFreed
    <3>2. IsFiniteSet(users \ {cur})
      BY FS_RemoveElement
    <3> QED BY <3>1, <3>2
  <2>7. ASSUME NEW e \in Seats, GcSeat(e) PROVE CountInv'
    BY <1>3, <2>7 DEF GcSeat, walkVars
  <2>8. ASSUME NEW s \in SessionIds, GcSession(s) PROVE CountInv'
    BY <1>3, <2>8 DEF GcSession
  <2>9. ASSUME NEW u \in Uids, GcUser(u) PROVE CountInv'
    <3>1. /\ UNCHANGED <<seats, users, uStarted, uStopping>> /\ cur' = u
          /\ pc' = "user_gc" \/ u \in uStarted \ uStopping
      BY <2>9 DEF GcUser
    <3> QED BY <3>1
  <2>10. CASE GcSessionFinish
    BY <1>3, <2>1, <2>10 DEF GcSessionFinish, session_finalize_and_free
  <2>11. CASE GcUserFinish \/ GcDone
    BY <1>3, <2>11 DEF GcUserFinish, GcDone
  <2> HIDE DEF CountInv
  <2> QED BY <1>6, <2>2, <2>3, <2>4, <2>5, <2>6, <2>7, <2>8, <2>9, <2>10, <2>11 DEF Collect
<1>7. CASE Environment \/ UNCHANGED vars
  <2>1. UNCHANGED <<seats, users, uStarted, uStopping, pc, cur>>
    BY <1>7 DEF Environment, LeaderDies, FifoWriterGone, CgroupChanges, VtSwitch,
       StopDelayElapses, vars, daemonVars, seatVars, userVars, walkVars
  <2> QED BY <1>2, <2>1
<1> QED BY <1>4, <1>5, <1>6, <1>7 DEF Next

\* The invariant always holds.
LEMMA CountInvariant == Spec => []CountInv
<1>1. Init => CountInv
  <2> SUFFICES ASSUME Init PROVE CountInv
    OBVIOUS
  <2>1. seats = {Seat0} /\ users = {} /\ uStarted = {} /\ pc = "event"
    BY DEF Init
  <2>2. IsFiniteSet({Seat0}) /\ IsFiniteSet({})
    BY FS_Singleton, FS_EmptySet
  <2> QED BY <2>1, <2>2 DEF CountInv
<1> QED BY <1>1, NextCount, PTL DEF Spec

\* What can be counted.
LEMMA Countable ==
    ASSUME IInv, ListInv, CountInv
    PROVE  /\ IsFiniteSet(seats) /\ IsFiniteSet(sessions)
           /\ IsFiniteSet(uStarted \ uStopping)
           /\ IsFiniteSet(seatGc) /\ IsFiniteSet(sessGc) /\ IsFiniteSet(userGc)
           /\ IsFiniteSet(todo)
<1>1. IsFiniteSet(sessions)
  BY LinkedCount DEF ListInv
<1>2. IsFiniteSet(seats) /\ IsFiniteSet(users)
  BY DEF CountInv
<1>3. /\ uStarted \ uStopping \in SUBSET users /\ seatGc \in SUBSET seats
      /\ sessGc \in SUBSET sessions /\ userGc \in SUBSET users /\ todo \in SUBSET sessions
  BY DEF CountInv, IInv, PointersValid, QueuesPoint, SourcesPoint
<1> QED BY <1>1, <1>2, <1>3, FS_Subset

\* A finite set that loses members.
LEMMA Shrinks ==
    ASSUME NEW S, IsFiniteSet(S), NEW T, T \subseteq S
    PROVE  /\ Cardinality(S) \in Nat /\ Cardinality(T) \in Nat
           /\ Cardinality(T) <= Cardinality(S)
           /\ T # S => Cardinality(T) < Cardinality(S)
<1>1. T \in SUBSET S
  OBVIOUS
<1>2. /\ IsFiniteSet(T) /\ Cardinality(T) <= Cardinality(S)
      /\ Cardinality(S) = Cardinality(T) => S = T
  BY <1>1, FS_Subset
<1>3. Cardinality(S) \in Nat /\ Cardinality(T) \in Nat
  BY <1>2, FS_CardinalityType
<1> QED BY <1>2, <1>3

\* The objects left when none is added: fewer, if one is gone.
LEMMA FewerObjects ==
    ASSUME IInv, ListInv, CountInv, seats' \subseteq seats, sessions' \subseteq sessions,
           uStarted' \ uStopping' \subseteq uStarted \ uStopping
    PROVE  /\ ObjectsLeft \in Nat /\ ObjectsLeft' \in Nat /\ ObjectsLeft' <= ObjectsLeft
           /\ \/ seats' # seats \/ sessions' # sessions
              \/ uStarted' \ uStopping' # uStarted \ uStopping
              => ObjectsLeft' < ObjectsLeft
<1> DEFINE P == uStarted \ uStopping
           Q == uStarted' \ uStopping'
<1>1. IsFiniteSet(seats) /\ IsFiniteSet(sessions) /\ IsFiniteSet(P)
  BY Countable
<1>2. /\ Cardinality(seats) \in Nat /\ Cardinality(seats') \in Nat
      /\ Cardinality(seats') <= Cardinality(seats)
      /\ seats' # seats => Cardinality(seats') < Cardinality(seats)
  BY <1>1, Shrinks
<1>3. /\ Cardinality(sessions) \in Nat /\ Cardinality(sessions') \in Nat
      /\ Cardinality(sessions') <= Cardinality(sessions)
      /\ sessions' # sessions => Cardinality(sessions') < Cardinality(sessions)
  BY <1>1, Shrinks
<1>4. /\ Cardinality(P) \in Nat /\ Cardinality(Q) \in Nat
      /\ Cardinality(Q) <= Cardinality(P) /\ (Q # P => Cardinality(Q) < Cardinality(P))
  BY <1>1, Shrinks
<1>5. /\ ObjectsLeft = Cardinality(seats) + Cardinality(sessions) + Cardinality(P)
      /\ ObjectsLeft' = Cardinality(seats') + Cardinality(sessions') + Cardinality(Q)
  BY DEF ObjectsLeft
<1> HIDE DEF P, Q
<1>6. /\ ObjectsLeft \in Nat /\ ObjectsLeft' \in Nat /\ ObjectsLeft' <= ObjectsLeft
      /\ seats' # seats \/ sessions' # sessions \/ Q # P => ObjectsLeft' < ObjectsLeft
  BY <1>2, <1>3, <1>4, <1>5
<1> QED BY <1>6 DEF P, Q

\* What is left is a tuple of numbers.
LeftCounts ==
    /\ ObjectsLeft \in Nat /\ QueuedLeft \in Nat /\ PhasesLeft \in Nat
    /\ Cardinality(todo) \in Nat

\* It is whenever the invariants hold.
LEMMA Measured == IInv /\ ListInv /\ CountInv => LeftCounts
<1> SUFFICES ASSUME IInv, ListInv, CountInv PROVE LeftCounts
  OBVIOUS
<1>1. QueuedSeats \subseteq seatGc
  BY DEF QueuedSeats
<1>2. /\ Cardinality(seats) \in Nat /\ Cardinality(sessions) \in Nat
      /\ Cardinality(uStarted \ uStopping) \in Nat /\ Cardinality(QueuedSeats) \in Nat
      /\ Cardinality(sessGc) \in Nat /\ Cardinality(userGc) \in Nat
      /\ Cardinality(todo) \in Nat
  BY <1>1, Countable, Shrinks, FS_CardinalityType
<1> QED BY <1>2 DEF LeftCounts, ObjectsLeft, QueuedLeft, PhasesLeft

\* The same after a step.
LEMMA MeasuredAfter == IInv' /\ ListInv' /\ CountInv' => LeftCounts'
BY Measured, PTL

\* The queues when nothing is added to them: fewer are queued, if one is gone.
LEMMA FewerQueued ==
    ASSUME IInv, ListInv, CountInv, QueuedSeats' \subseteq QueuedSeats,
           sessGc' \subseteq sessGc, userGc' \subseteq userGc
    PROVE  /\ QueuedLeft' <= QueuedLeft
           /\ QueuedSeats' # QueuedSeats \/ sessGc' # sessGc \/ userGc' # userGc
              => QueuedLeft' < QueuedLeft
<1>1. QueuedSeats \subseteq seatGc
  BY DEF QueuedSeats
<1>2. IsFiniteSet(QueuedSeats) /\ IsFiniteSet(sessGc) /\ IsFiniteSet(userGc)
  BY <1>1, Countable, FS_Subset
<1>3. /\ Cardinality(QueuedSeats) \in Nat /\ Cardinality(QueuedSeats') \in Nat
      /\ Cardinality(QueuedSeats') <= Cardinality(QueuedSeats)
      /\ QueuedSeats' # QueuedSeats => Cardinality(QueuedSeats') < Cardinality(QueuedSeats)
  BY <1>2, Shrinks
<1>4. /\ Cardinality(sessGc) \in Nat /\ Cardinality(sessGc') \in Nat
      /\ Cardinality(sessGc') <= Cardinality(sessGc)
      /\ sessGc' # sessGc => Cardinality(sessGc') < Cardinality(sessGc)
  BY <1>2, Shrinks
<1>5. /\ Cardinality(userGc) \in Nat /\ Cardinality(userGc') \in Nat
      /\ Cardinality(userGc') <= Cardinality(userGc)
      /\ userGc' # userGc => Cardinality(userGc') < Cardinality(userGc)
  BY <1>2, Shrinks
<1> QED BY <1>3, <1>4, <1>5 DEF QueuedLeft

\* What a step of a walk or of the collector takes off what is left.
Progresses ==
    \/ ObjectsLeft' < ObjectsLeft
    \/ ObjectsLeft' <= ObjectsLeft /\ QueuedLeft' < QueuedLeft
    \/ ObjectsLeft' <= ObjectsLeft /\ QueuedLeft' <= QueuedLeft /\ PhasesLeft' < PhasesLeft
    \/ /\ ObjectsLeft' <= ObjectsLeft /\ QueuedLeft' <= QueuedLeft
       /\ PhasesLeft' = PhasesLeft /\ Cardinality(todo') < Cardinality(todo)

\* Every such step takes something off: it frees or stops an object, or takes one from a
\* queue, or comes nearer to the event loop, or has a session less to walk over.
LEMMA CollectProgresses ==
    ASSUME IInv, ListInv, CountInv, Collect
    PROVE  Progresses
<1> USE DEF sessVars, seatVars, userVars, gcVars, walkVars
<1>1. ASSUME NEW s \in sessions, session_free(s) PROVE Progresses
  <2>1. sessions' = sessions \ {s} /\ UNCHANGED <<seats, uStarted, uStopping>>
    BY <1>1, SessionFreed DEF session_free
  <2> QED BY <1>1, <2>1, FewerObjects DEF Progresses
<1>2. ASSUME UNCHANGED <<seats, info, uStarted, uStopping>>,
             QueuedSeats' \subseteq QueuedSeats, sessGc' \subseteq sessGc,
             userGc' \subseteq userGc
      PROVE  /\ ObjectsLeft' <= ObjectsLeft /\ QueuedLeft' <= QueuedLeft
             /\ QueuedSeats' # QueuedSeats \/ sessGc' # sessGc \/ userGc' # userGc
                => QueuedLeft' < QueuedLeft
  <2>1. sessions' = sessions
    BY <1>2 DEF sessions
  <2>2. ObjectsLeft' <= ObjectsLeft
    BY <1>2, <2>1, FewerObjects
  <2> QED BY <1>2, <2>2, FewerQueued
<1>3. CASE StopNext
  <2>1. PICK s \in todo : todo' = todo \ {s}
    BY <1>3 DEF StopNext
  <2>2. UNCHANGED <<seats, info, uStarted, uStopping, seatGc, sessGc, userGc, pc, cur>>
    BY <1>3 DEF StopNext, session_stop
  <2>3. Cardinality(todo') < Cardinality(todo)
    BY <2>1, Countable, Shrinks
  <2>4. PhasesLeft' = PhasesLeft /\ QueuedSeats' = QueuedSeats
    BY <2>2 DEF PhasesLeft, QueuedSeats
  <2>5. ObjectsLeft' <= ObjectsLeft /\ QueuedLeft' <= QueuedLeft
    BY <1>2, <2>2, <2>4
  <2> QED BY <2>3, <2>4, <2>5 DEF Progresses
<1>4. CASE UserStopped
  <2>1. /\ UNCHANGED <<seats, info, uStarted>> /\ uStopping' = uStopping \cup {cur}
        /\ pc \in {"user_stop", "user_gc_stop"}
    BY <1>4 DEF UserStopped
  <2>2. cur \in uStarted \ uStopping /\ sessions' = sessions
    BY <2>1 DEF CountInv, sessions
  <2>3. ObjectsLeft' < ObjectsLeft
    BY <2>1, <2>2, FewerObjects
  <2> QED BY <2>3 DEF Progresses
<1>5. CASE SeatStopped
  <2>1. /\ UNCHANGED <<seats, info, uStarted, uStopping, sessGc, userGc>>
        /\ \/ pc = "seat_stop" /\ pc' = "gc" /\ UNCHANGED seatGc
           \/ /\ pc = "seat_gc_stop" /\ pc' = "seat_free" /\ cur' = cur
              /\ seatGc' = seatGc \cup {cur}
    BY <1>5 DEF SeatStopped
  <2>2. QueuedSeats' \subseteq QueuedSeats /\ PhasesLeft' < PhasesLeft
    BY <2>1 DEF QueuedSeats, PhasesLeft
  <2>3. ObjectsLeft' <= ObjectsLeft /\ QueuedLeft' <= QueuedLeft
    BY <1>2, <2>1, <2>2
  <2> QED BY <2>2, <2>3 DEF Progresses
<1>6. CASE FreeNext
  <2>1. PICK s \in todo : session_free(s)
    BY <1>6 DEF FreeNext, seat_free_session, session_finalize_and_free
  <2>2. s \in sessions
    BY DEF IInv, PointersValid, SourcesPoint
  <2> QED BY <1>1, <2>1, <2>2
<1>7. CASE SeatFreed
  <2>1. /\ UNCHANGED <<info, uStarted, uStopping>> /\ seats' = seats \ {cur}
        /\ cur \in seats
    BY <1>7 DEF SeatFreed, IInv, WalksValid
  <2>2. sessions' = sessions
    BY <2>1 DEF sessions
  <2>3. ObjectsLeft' < ObjectsLeft
    BY <2>1, <2>2, FewerObjects
  <2> QED BY <2>3 DEF Progresses
<1>8. CASE UserFreed
  <2>1. /\ UNCHANGED <<info, seats, seatGc, sessGc>> /\ uStarted' = uStarted \ {cur}
        /\ uStopping' = uStopping \ {cur} /\ userGc' = userGc \ {cur}
        /\ pc = "user_free" /\ pc' = "gc"
    BY <1>8 DEF UserFreed
  <2>2. sessions' = sessions /\ QueuedSeats' = QueuedSeats /\ PhasesLeft' < PhasesLeft
    BY <2>1 DEF sessions, QueuedSeats, PhasesLeft
  <2>3. uStarted' \ uStopping' \subseteq uStarted \ uStopping
    BY <2>1
  <2>4. ObjectsLeft' <= ObjectsLeft
    BY <2>1, <2>2, <2>3, FewerObjects
  <2>5. QueuedLeft' <= QueuedLeft
    BY <2>1, <2>2, FewerQueued
  <2> QED BY <2>2, <2>4, <2>5 DEF Progresses
<1>9. ASSUME NEW e \in Seats, GcSeat(e) PROVE Progresses
  <2>1. /\ UNCHANGED <<info, seats, uStarted, uStopping, sessGc, userGc>>
        /\ e \in seatGc /\ seatGc' = seatGc \ {e} /\ pc = "gc" /\ pc' # "seat_free"
    BY <1>9 DEF GcSeat
  <2>2. QueuedSeats' \subseteq QueuedSeats /\ QueuedSeats' # QueuedSeats
    BY <2>1 DEF QueuedSeats
  <2>3. ObjectsLeft' <= ObjectsLeft /\ QueuedLeft' < QueuedLeft
    BY <1>2, <2>1, <2>2
  <2> QED BY <2>3 DEF Progresses
<1>10. ASSUME NEW s \in SessionIds, GcSession(s) PROVE Progresses
  <2>1. /\ UNCHANGED <<info, seats, uStarted, uStopping, seatGc, userGc>>
        /\ s \in sessGc /\ sessGc' = sessGc \ {s} /\ pc = "gc" /\ pc' = "session_gc"
    BY <1>10 DEF GcSession, session_stop
  <2>2. QueuedSeats' = QueuedSeats
    BY <2>1 DEF QueuedSeats
  <2>3. ObjectsLeft' <= ObjectsLeft /\ QueuedLeft' < QueuedLeft
    BY <1>2, <2>1, <2>2
  <2> QED BY <2>3 DEF Progresses
<1>11. ASSUME NEW u \in Uids, GcUser(u) PROVE Progresses
  <2>1. /\ UNCHANGED <<info, seats, uStarted, uStopping, seatGc, sessGc>>
        /\ u \in userGc /\ userGc' = userGc \ {u} /\ pc = "gc" /\ pc' # "seat_free"
    BY <1>11 DEF GcUser
  <2>2. QueuedSeats' = QueuedSeats
    BY <2>1 DEF QueuedSeats
  <2>3. ObjectsLeft' <= ObjectsLeft /\ QueuedLeft' < QueuedLeft
    BY <1>2, <2>1, <2>2
  <2> QED BY <2>3 DEF Progresses
<1>12. ASSUME UNCHANGED <<info, seats, uStarted, uStopping, seatGc, sessGc, userGc>>,
              PhasesLeft' < PhasesLeft, QueuedSeats' = QueuedSeats
       PROVE  Progresses
  <2>1. ObjectsLeft' <= ObjectsLeft /\ QueuedLeft' <= QueuedLeft
    BY <1>2, <1>12
  <2> QED BY <1>12, <2>1 DEF Progresses
<1>13. CASE GcSessionFinish
  <2>1. pc = "session_gc" /\ pc' = "gc" /\ cur \in sessions
    BY <1>13 DEF GcSessionFinish, IInv, WalksValid
  <2>2. CASE session_free(cur)
    BY <1>1, <2>1, <2>2
  <2>3. CASE UNCHANGED <<sessVars, seatVars, userVars, gcVars>>
    <3>1. PhasesLeft' < PhasesLeft /\ QueuedSeats' = QueuedSeats
      BY <2>1, <2>3 DEF PhasesLeft, QueuedSeats
    <3> QED BY <1>12, <2>3, <3>1
  <2> QED BY <1>13, <2>2, <2>3 DEF GcSessionFinish, session_finalize_and_free
<1>14. CASE GcUserFinish \/ GcDone
  <2>1. /\ UNCHANGED <<info, seats, uStarted, uStopping, seatGc, sessGc, userGc>>
        /\ \/ pc = "user_gc" /\ pc' \in {"user_free", "gc"}
           \/ pc = "gc" /\ pc' = "event"
    BY <1>14 DEF GcUserFinish, GcDone
  <2>2. PhasesLeft' < PhasesLeft /\ QueuedSeats' = QueuedSeats
    BY <2>1 DEF PhasesLeft, QueuedSeats
  <2> QED BY <1>12, <2>1, <2>2
<1> QED BY <1>3, <1>4, <1>5, <1>6, <1>7, <1>8, <1>9, <1>10, <1>11, <1>13, <1>14 DEF Collect

\* While a walk or the collector is at work no handler runs, and nothing outside the
\* daemon gives it more to do.
LEMMA OnlyCollect ==
    ASSUME [Next]_vars, pc # "event", ~ Collect
    PROVE  UNCHANGED GcLeft
<1>1. ~ SessionHandler
  BY DEF SessionHandler, CreateSession, ReleaseSession, ReleaseTimeout, LeaderExit, FifoEof,
     TerminateSession, StopOnIdle, CgroupEvent, Activate, SetType, SetClass, SeatHandler,
     StopHandler, SessionChanges
<1>2. ~ SeatOrUserHandler
  BY DEF SeatOrUserHandler, ConsoleEvent, TerminateSeat, CompleteSwitch, SwitchTo,
     SwitchToNext, SwitchToPrevious, SeatDeviceAdded, SeatDeviceRemoved, TerminateUser,
     UserStopTimeout, EnableLinger, DisableLinger, SeatHandler
<1>3. UNCHANGED <<info, seats, uStarted, uStopping, seatGc, sessGc, userGc, pc, cur, todo>>
  BY <1>1, <1>2 DEF Next, Environment, LeaderDies, FifoWriterGone, CgroupChanges, VtSwitch,
     StopDelayElapses, vars, daemonVars, sessVars, seatVars, userVars, gcVars, walkVars
<1>4. sessions' = sessions /\ QueuedSeats' = QueuedSeats /\ PhasesLeft' = PhasesLeft
  BY <1>3 DEF sessions, QueuedSeats, PhasesLeft
<1> QED BY <1>3, <1>4 DEF GcLeft, ObjectsLeft, QueuedLeft

\* manager_gc() and the walks of user_stop(), seat_stop_sessions(), seat_free() and
\* user_finalize(): each of their steps takes the daemon down in the order of what is
\* left, and whatever else happens meanwhile leaves it where it is.
THEOREM CollectorAdvances ==
    Spec => [][pc # "event" => IF Collect THEN <<GcLeft', GcLeft>> \in GcOrder
                               ELSE UNCHANGED GcLeft]_vars
<1> DEFINE P == pc # "event" => IF Collect THEN <<GcLeft', GcLeft>> \in GcOrder
                                ELSE UNCHANGED GcLeft
<1>1. ASSUME IInv, ListInv, CountInv, IInv', ListInv', CountInv', [Next]_vars
      PROVE  [P]_vars
  <2>1. CASE Collect
    <3>1. Progresses
      BY <1>1, <2>1, CollectProgresses
    <3>2. /\ ObjectsLeft \in Nat /\ QueuedLeft \in Nat /\ PhasesLeft \in Nat
          /\ Cardinality(todo) \in Nat
      BY <1>1, Measured DEF LeftCounts
    <3>3. /\ ObjectsLeft' \in Nat /\ QueuedLeft' \in Nat /\ PhasesLeft' \in Nat
          /\ Cardinality(todo') \in Nat
      BY <1>1, MeasuredAfter DEF LeftCounts
    <3>4. \/ ObjectsLeft' < ObjectsLeft
          \/ ObjectsLeft' = ObjectsLeft /\ QueuedLeft' < QueuedLeft
          \/ ObjectsLeft' = ObjectsLeft /\ QueuedLeft' = QueuedLeft /\ PhasesLeft' < PhasesLeft
          \/ /\ ObjectsLeft' = ObjectsLeft /\ QueuedLeft' = QueuedLeft
             /\ PhasesLeft' = PhasesLeft /\ Cardinality(todo') < Cardinality(todo)
      BY <3>1, <3>2, <3>3 DEF Progresses
    <3>5. PICK a \in Nat, b \in Nat, c \in Nat, d \in Nat :
             a = ObjectsLeft' /\ b = QueuedLeft' /\ c = PhasesLeft' /\ d = Cardinality(todo')
      BY <3>3
    <3>6. PICK i \in Nat, j \in Nat, k \in Nat, l \in Nat :
             i = ObjectsLeft /\ j = QueuedLeft /\ k = PhasesLeft /\ l = Cardinality(todo)
      BY <3>2
    <3>7. Below(a, b, c, d, i, j, k, l)
      BY <3>4, <3>5, <3>6 DEF Below
    <3>8. <<<<a, <<b, <<c, d>>>>>>, <<i, <<j, <<k, l>>>>>>>> \in GcOrder
      BY <3>7, GcLess
    <3>9. <<GcLeft', GcLeft>> \in GcOrder
      BY <3>5, <3>6, <3>8 DEF GcLeft
    <3> QED BY <2>1, <3>9
  <2>2. CASE ~ Collect
    BY <1>1, <2>2, OnlyCollect
  <2> QED BY <2>1, <2>2
<1> HIDE DEF P
<1>2. Spec => [][P]_vars
  BY <1>1, PointersInvariant, ListInvariant, CountInvariant, PTL DEF Spec
<1> QED BY <1>2 DEF P

\* LIST_FOREACH over what is left of a walk finds a session until nothing is left: no walk
\* gets stuck half-way.
THEOREM WalksGoOn == Spec => [](todo # {} => FirstIn(order, todo) \in todo)
<1>1. IInv /\ ListInv => (todo # {} => FirstIn(order, todo) \in todo)
  <2> SUFFICES ASSUME IInv, ListInv, todo # {} PROVE FirstIn(order, todo) \in todo
    OBVIOUS
  <2>1. todo \subseteq Linked(order) /\ order \in Seq(SessionIds)
    BY DEF IInv, PointersValid, SourcesPoint, ListInv
  <2> QED BY <2>1, FirstInFound
<1> QED BY <1>1, PointersInvariant, ListInvariant, PTL

=============================================================================
