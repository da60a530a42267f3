------------------------------- MODULE Logind -------------------------------
(***************************************************************************)
(* Sessions, seats and users of the login daemon, and the garbage          *)
(* collector that removes them: logind-session.c, logind-seat.c,           *)
(* logind-user.c, manager_gc() of logind.c, CreateSession() and the other  *)
(* session calls of logind-dbus.c, and the cgroup notifications of         *)
(* core/cgroup.c.                                                          *)
(*                                                                         *)
(* The daemon is one thread: manager_run() collects garbage, then runs one *)
(* event handler, then collects again.  pc says where the thread is.  A    *)
(* handler that walks a list of sessions walks it in several steps here,   *)
(* one session each; no other handler can run in between, but the world    *)
(* outside the daemon (a leader that dies, a FIFO whose writer goes away,  *)
(* a VT switch) can.                                                       *)
(***************************************************************************)
EXTENDS Lists, FiniteSets

CONSTANTS
    SessionIds,    \* names a session can have
    Uids,          \* users that can log in
    Seats,         \* names a seat can have
    Seat0,         \* the seat with the virtual terminals
    Classes,       \* session classes in use
    Types,         \* session types in use
    MaxVT,         \* virtual terminals are numbered 1 .. MaxVT
    MaxPos,        \* seat positions are numbered 1 .. MaxPos
    SessionsMax,   \* SessionsMax= of logind.conf
    UserStopDelay, \* user_stop_delay: "zero", "finite" or "infinite"
    StopIdle,      \* StopIdleSessionSec= is set
    Lingerers,     \* users that lingering may be enabled for
    Repopulates,   \* cgroup.events may change while a cgroup is populated
    StartMayFail   \* user_start() and session_start_cgroup() may fail

VTs       == 1 .. MaxVT
Positions == 1 .. MaxPos

\* What CreateSession() records about a session; SetType() and SetClass() change it.
SessionInfo ==
    [user : Uids, class : Classes, type : Types, seat : Seats \cup {Nil},
     vtnr : 0 .. MaxVT]

ASSUME LogindAssumption ==
    /\ Seat0 \in Seats
    /\ Nil \notin SessionIds /\ Nil \notin Uids /\ Nil \notin Seats
    /\ Nil \notin SessionInfo
    /\ Classes \subseteq {"user", "user-early", "user-incomplete", "greeter",
                          "lock-screen", "background-light",
                          "background", "manager", "manager-early"}
    /\ Types \subseteq {"unspecified", "tty", "x11", "wayland", "mir", "web"}
    /\ MaxVT \in Nat \ {0} /\ MaxPos \in Nat /\ MaxVT <= MaxPos
    /\ SessionsMax \in Nat
    /\ UserStopDelay \in {"zero", "finite", "infinite"}
    /\ Lingerers \subseteq Uids
    /\ StopIdle \in BOOLEAN /\ Repopulates \in BOOLEAN
    /\ StartMayFail \in BOOLEAN

VARIABLES
    \* Session: one entry per id; Nil where no such session exists
    info,       \* user, class, type, seat and VT of a session
    order,      \* the sessions, newest first: the order of both session lists
    position,   \* s->position, 0 when it claims none
    started, stopping,       \* s->started, s->stopping
    timer,      \* sessions whose release timer runs (s->timer_event_source)
    watch,      \* sessions whose leader is watched (s->leader_pidfd_event_source)
    fifo,       \* "none", "open", or "eof" once the writer is gone
    alive,      \* sessions whose leader process lives
    populated,  \* sessions whose cgroup has processes
    \* Seat
    seats, master,           \* the seats, and those with a master device
    active, pending,         \* s->active and s->pending_switch
    positions,  \* s->positions, for every seat and position
    fgVT, console,           \* the VT in the foreground; an unread change of it
    \* User
    users, uStarted, uStopping,
    byPin,      \* users with gc_mode USER_GC_BY_PIN
    stamped,    \* users with a last_session_timestamp
    uTimer,     \* the stop timer: "off", "armed", "elapsed" or "fired"
    linger, runtimeDir,      \* users with a linger file, with a runtime directory
    display,    \* u->display
    \* Manager
    seatGc, sessGc, userGc,  \* the three garbage queues
    cgEvent,    \* sessions with an unread cgroup.events notification
    pc,         \* what the thread is doing
    cur, todo   \* the object a running walk is about, the sessions left in it

sessVars  == <<info, order, position, started, stopping, timer, watch, fifo>>
procVars  == <<alive, populated, cgEvent>>
seatVars  == <<seats, master, active, pending, positions>>
vtVars    == <<fgVT, console>>
userVars  == <<users, uStarted, uStopping, byPin, stamped, uTimer, linger,
               runtimeDir, display>>
gcVars    == <<seatGc, sessGc, userGc>>
walkVars  == <<pc, cur, todo>>
vars == <<sessVars, procVars, seatVars, vtVars, userVars, gcVars, walkVars>>

-----------------------------------------------------------------------------
(***************************************************************************)
(* What the handlers read                                                  *)
(***************************************************************************)
sessions == {s \in SessionIds : info[s] # Nil}

SessionsOfUser(u) == {s \in sessions : info[s].user = u}
SessionsOfSeat(e) == {s \in sessions : info[s].seat = e}

SESSION_CLASS_PIN_USER(c)         == c \notin {"manager", "manager-early"}
SESSION_CLASS_CAN_DISPLAY(c)      == c \in {"user", "user-early", "greeter"}
SESSION_CLASS_CAN_STOP_ON_IDLE(c) == c \in {"user", "user-early"}
SESSION_CLASS_CAN_CHANGE_TYPE(c)  == c \in {"user", "user-early", "greeter", "lock-screen"}

seat_has_vts(e) == e = Seat0

session_closing(s) == s \in stopping \/ s \in timer

\* session_may_gc(), called with drop_not_started set: neither the leader nor
\* the FIFO holds the session any more.
session_may_gc(s) == s \notin alive /\ fifo[s] # "open"

seat_may_gc(e) == e # Seat0 /\ e \notin master

user_pinned_by(u, S) ==
    \E s \in S : /\ info[s].user = u
                 /\ u \in byPin => SESSION_CLASS_PIN_USER(info[s].class)

user_pinned_by_sessions(u) == user_pinned_by(u, sessions)

\* user_may_gc(), called with drop_not_started set.
user_may_gc(u) ==
    \/ u \notin uStarted
    \/ /\ ~ user_pinned_by_sessions(u)
       /\ u \in stamped =>
            /\ UserStopDelay # "infinite"
            /\ UserStopDelay = "finite" => uTimer[u] \in {"elapsed", "fired"}
       /\ u \notin linger

-----------------------------------------------------------------------------
(***************************************************************************)
(* The user's primary session                                              *)
(***************************************************************************)
type_rank(t) == CASE t \in {"x11", "wayland", "mir"} -> 0
                  [] t = "tty" -> 1
                  [] t = "web" -> 2
                  [] OTHER -> 3

class_rank(c) == CASE c = "user" -> 0
                   [] c = "user-early" -> 1
                   [] OTHER -> 2

\* elect_display_compare(a, b) < 0 for two sessions that are not stopping.
elect_display_prefers(inf, a, b) ==
    \/ class_rank(inf[a].class) < class_rank(inf[b].class)
    \/ /\ class_rank(inf[a].class) = class_rank(inf[b].class)
       /\ type_rank(inf[a].type) < type_rank(inf[b].type)

\* elect_display_filter() over the sessions of u.
DisplayCandidates(inf, u, running) ==
    {s \in running : /\ inf[s] # Nil
                     /\ inf[s].user = u
                     /\ SESSION_CLASS_CAN_DISPLAY(inf[s].class)}

\* Mutant: a display that is stopping keeps its place.
user_elect_display_sticky(inf, ord, u, running) ==
    IF display[u] # Nil THEN display[u]
    ELSE FirstIn(ord, DisplayCandidates(inf, u, running))

\* user_elect_display(): the display stays unless some candidate beats it; a
\* missing or stopping display loses against every candidate.
user_elect_display(inf, ord, u, running) ==
    LET C    == DisplayCandidates(inf, u, running)
        d    == display[u]
        best == {s \in C : \A t \in C : ~ elect_display_prefers(inf, t, s)}
    IN  IF C = {} \/ (d \in C /\ \A s \in C : ~ elect_display_prefers(inf, s, d))
        THEN d ELSE FirstIn(ord, best)

-----------------------------------------------------------------------------
(***************************************************************************)
(* Seat positions and the active session                                   *)
(***************************************************************************)
\* Mutant: the slot is freed and not handed on.
Heirs_none(s) == {}

\* Who seat_evict_position() may hand the slot of s to.
Heirs(s) == {t \in SessionsOfSeat(info[s].seat) \ {s} :
                /\ position[t] = position[s]
                /\ ~ session_closing(t)}

HoldsPosition(s) == /\ info[s].seat # Nil
                    /\ position[s] # 0
                    /\ positions[<<info[s].seat, position[s]>>] = s

\* Mutant: the slot is left to the session.
seat_evict_position_stale(s) ==
    position' = [position EXCEPT ![s] = 0] /\ UNCHANGED positions

seat_evict_position(s) ==
    /\ position' = [position EXCEPT ![s] = 0]
    /\ positions' =
         IF HoldsPosition(s)
         THEN [positions EXCEPT ![<<info[s].seat, position[s]>>] =
                                    FirstIn(order, Heirs(s))]
         ELSE positions

\* seat_assign_position() and seat_claim_position() for the new session s; with
\* VTs the position is the VT number whoever holds it.
seat_assign_position(e, s, v) ==
    \/ /\ e = Nil
       /\ UNCHANGED <<position, positions>>
    \/ \E p \in Positions :
         /\ e # Nil
         /\ IF seat_has_vts(e) THEN p = v
            ELSE /\ positions[<<e, p>>] = Nil
                 /\ \A q \in 1 .. p - 1 : positions[<<e, q>>] # Nil
         /\ position' = [position EXCEPT ![s] = p]
         /\ positions' = [positions EXCEPT ![<<e, p>>] = s]

\* Mutant: any session of the seat, whatever its VT.
VtSession_any(inf, ord, v) ==
    FirstIn(ord, {s \in SessionIds : inf[s] # Nil /\ inf[s].seat = Seat0})

\* seat_active_vt_changed(): a running session on the VT, else any, else none.
VtSession(inf, ord, v) ==
    LET here    == {s \in SessionIds : /\ inf[s] # Nil
                                       /\ inf[s].seat = Seat0
                                       /\ inf[s].vtnr = v}
        running == here \ stopping
    IN  IF running # {} THEN FirstIn(ord, running) ELSE FirstIn(ord, here)

-----------------------------------------------------------------------------
(***************************************************************************)
(* Stopping and freeing one session                                        *)
(***************************************************************************)
\* session_stop() past its early returns.  Killing the cgroup is left to
\* LeaderDies and CgroupChanges, which can happen at any time.
session_stop_running(s) ==
    /\ timer' = timer \ {s}
    /\ watch' = watch \ {s}
    /\ seat_evict_position(s)
    /\ fifo' = [fifo EXCEPT ![s] = "none"]
    /\ stopping' = stopping \cup {s}
    /\ display' = [display EXCEPT ![info[s].user] =
                     user_elect_display(info, order, info[s].user,
                                        started \ stopping')]

session_stop(s) ==
    IF s \in started \ stopping
    THEN /\ session_stop_running(s)
         /\ UNCHANGED <<info, order, started>>
    ELSE UNCHANGED <<sessVars, positions, display>>

\* Mutant: the timer outlives a new login.
user_update_last_session_timer_kept(u, pinned) ==
    IF pinned \/ u \in stamped
    THEN stamped' = (IF pinned THEN stamped \ {u} ELSE stamped) /\ UNCHANGED uTimer
    ELSE /\ stamped' = stamped \cup {u}
         /\ uTimer' = [uTimer EXCEPT ![u] =
                         IF UserStopDelay = "finite" THEN "armed" ELSE "off"]

\* user_update_last_session_timer(), given whether sessions pin the user.
user_update_last_session_timer(u, pinned) ==
    IF pinned
    THEN /\ stamped' = stamped \ {u}
         /\ uTimer' = [uTimer EXCEPT ![u] = "off"]
    ELSE IF u \in stamped
    THEN UNCHANGED <<stamped, uTimer>>
    ELSE /\ stamped' = stamped \cup {u}
         /\ uTimer' = [uTimer EXCEPT ![u] =
                         IF UserStopDelay = "finite" THEN "armed" ELSE "off"]

\* The pointers f without those to s.
unset(f, s) == [x \in DOMAIN f |-> IF f[x] = s THEN Nil ELSE f[x]]

\* session_free(): every pointer to the session goes with it.
session_free(s) ==
    /\ info' = [info EXCEPT ![s] = Nil]
    /\ order' = LIST_REMOVE(order, s)
    /\ seat_evict_position(s)
    /\ started' = started \ {s}
    /\ stopping' = stopping \ {s}
    /\ timer' = timer \ {s}
    /\ watch' = watch \ {s}
    /\ fifo' = [fifo EXCEPT ![s] = "none"]
    /\ alive' = alive \ {s}
    /\ populated' = populated \ {s}
    /\ cgEvent' = cgEvent \ {s}
    /\ sessGc' = sessGc \ {s}
    /\ active' = unset(active, s)
    /\ pending' = unset(pending, s)
    /\ display' = unset(display, s)
    /\ user_update_last_session_timer(info[s].user,
                           user_pinned_by(info[s].user, sessions \ {s}))
    /\ UNCHANGED <<seats, master, vtVars, users, uStarted, uStopping, byPin,
                   linger, runtimeDir, seatGc>>

\* Mutant: the user is not queued for collection.
session_finalize_and_free_silent(s) == session_free(s) /\ UNCHANGED userGc

\* session_finalize() followed by session_free(): finalizing also queues the
\* user for collection.
session_finalize_and_free(s) ==
    /\ session_free(s)
    /\ userGc' = userGc \cup {info[s].user}

-----------------------------------------------------------------------------
(***************************************************************************)
(* CreateSession()                                                         *)
(***************************************************************************)
\* "Already occupied by a session", except by or for a greeter.
VtOccupied(c, v) ==
    /\ c # "greeter"
    /\ v > 0
    /\ positions[<<Seat0, v>>] # Nil
    /\ info[positions[<<Seat0, v>>]].class # "greeter"

\* From manager_add_user_by_uid() to seat_attach_session().  The new session
\* pins its user whatever its class is, as the class is filled in afterwards.
session_register(s, u, c, t, e, v) ==
    /\ info' = [info EXCEPT ![s] = [user |-> u, class |-> c, type |-> t,
                                    seat |-> e, vtnr |-> v]]
    /\ order' = LIST_PREPEND(order, s)
    /\ users' = users \cup {u}
    /\ user_update_last_session_timer(u, TRUE)
    /\ alive' = alive \cup {s}
    /\ watch' = watch \cup {s}
    /\ byPin' = IF SESSION_CLASS_PIN_USER(c) THEN byPin \cup {u} ELSE byPin
    /\ seat_assign_position(e, s, v)

\* session_start() after user_start(): the session is attached to its cgroup
\* unless cg_attach() fails, its seat's active session is read afresh, the user's
\* display elected, and the reply carries a FIFO unless creating it fails.
session_start_ok(s, u, e) ==
    /\ started' = started \cup {s}
    /\ \/ populated' = populated \cup {s}
       \/ StartMayFail /\ populated' = populated
    /\ \/ fifo' = [fifo EXCEPT ![s] = "open"]
       \/ StartMayFail /\ fifo' = fifo
    /\ IF e = Seat0
       THEN /\ active' = [active EXCEPT ![Seat0] = VtSession(info', order', fgVT)]
            /\ console' = FALSE
       ELSE /\ active' = IF e = Nil THEN active ELSE [active EXCEPT ![e] = s]
            /\ UNCHANGED console
    /\ display' = [display EXCEPT ![u] =
                     user_elect_display(info', order', u, started' \ stopping)]
    /\ UNCHANGED <<sessGc, userGc>>

\* The fail label of manager_create_session().
create_session_failed(s, u, e) ==
    /\ active' = IF e \in {Nil, Seat0} THEN active
                 ELSE [active EXCEPT ![e] = s]
    /\ sessGc' = sessGc \cup {s}
    /\ userGc' = userGc \cup {u}
    /\ UNCHANGED <<started, fifo, console, display>>

\* user_start(): the runtime directory is made unless the user is up already.
user_start_ok(u) ==
    /\ uStarted' = uStarted \cup {u}
    /\ uStopping' = uStopping \ {u}
    /\ runtimeDir' = IF u \in uStarted \ uStopping THEN runtimeDir
                     ELSE runtimeDir \cup {u}

\* Mutant: a failure resets the user although older sessions of it run.
user_start_failed_reset(u) ==
    /\ StartMayFail
    /\ u \notin uStarted \ uStopping
    /\ uStarted' = uStarted \ {u}
    /\ uStopping' = uStopping \ {u}
    /\ UNCHANGED runtimeDir

\* user_runtime_dir("start") fails; only tried for a user not up already.
user_start_failed(u) ==
    /\ StartMayFail
    /\ u \notin uStarted \ uStopping
    /\ uStopping' = uStopping \ {u}
    /\ UNCHANGED <<uStarted, runtimeDir>>

CreateSession(s, u, c, t, e, v) ==
    /\ pc = "event"
    /\ s \notin sessions
    /\ e \in seats \cup {Nil}
    /\ v \in IF e # Nil /\ seat_has_vts(e) THEN VTs ELSE {0}
    /\ ~ VtOccupied(c, v)
    /\ Cardinality(sessions) < SessionsMax
    /\ session_register(s, u, c, t, e, v)
    /\ \/ user_start_ok(u) /\ session_start_ok(s, u, e)
       \/ /\ user_start_failed(u)
          /\ create_session_failed(s, u, e)
          /\ UNCHANGED populated
       \/ /\ StartMayFail
          /\ user_start_ok(u)
          /\ create_session_failed(s, u, e)
          /\ populated' \in {populated, populated \cup {s}}
    /\ pc' = "gc"
    /\ UNCHANGED <<stopping, timer, cgEvent, seats, master, pending, fgVT,
                   linger, seatGc, cur, todo>>

-----------------------------------------------------------------------------
(***************************************************************************)
(* Handlers that stop sessions                                             *)
(***************************************************************************)
\* session_release(): the session is stopped when the release timer runs out.
session_release(s) ==
    timer' = IF s \in started \ stopping THEN timer \cup {s} ELSE timer

\* A handler that is about session s and ends by calling session_stop().
StopHandler(s) ==
    /\ pc = "event"
    /\ s \in sessions
    /\ session_stop(s)
    /\ pc' = "gc"
    /\ UNCHANGED <<procVars, seats, master, active, pending, vtVars, users,
                   uStarted, uStopping, byPin, stamped, uTimer, linger,
                   runtimeDir, seatGc, userGc, cur, todo>>

\* method_release_session(), which pam_close_session() ends in.
ReleaseSession(s) ==
    /\ pc = "event"
    /\ s \in sessions
    /\ session_release(s)
    /\ pc' = "gc"
    /\ UNCHANGED <<info, order, position, started, stopping, watch, fifo,
                   procVars, seatVars, vtVars, userVars, gcVars, cur, todo>>

ReleaseTimeout(s) ==
    /\ s \in timer
    /\ StopHandler(s)
    /\ sessGc' = sessGc \cup {s}

\* session_dispatch_leader_pidfd()
LeaderExit(s) ==
    /\ s \in watch \ alive
    /\ StopHandler(s)
    /\ UNCHANGED sessGc

\* session_dispatch_fifo(); the FIFO of a session is dropped by session_stop()
\* too, and only started sessions have one.
FifoEof(s) ==
    /\ fifo[s] = "eof"
    /\ StopHandler(s)
    /\ UNCHANGED sessGc

\* bus_session_method_terminate()
TerminateSession(s) ==
    /\ StopHandler(s)
    /\ UNCHANGED sessGc

\* session_dispatch_stop_on_idle() of a session that is idle
StopOnIdle(s) ==
    /\ StopIdle
    /\ s \in started \ stopping
    /\ SESSION_CLASS_CAN_STOP_ON_IDLE(info[s].class)
    /\ StopHandler(s)
    /\ UNCHANGED sessGc

\* user_stop() up to its walk over the user's sessions
TerminateUser(u) ==
    /\ pc = "event"
    /\ u \in users
    /\ IF u \in uStarted \ uStopping
       THEN pc' = "user_stop" /\ cur' = u /\ todo' = SessionsOfUser(u)
       ELSE pc' = "gc" /\ UNCHANGED <<cur, todo>>
    /\ UNCHANGED <<sessVars, procVars, seatVars, vtVars, userVars, gcVars>>

\* seat_stop_sessions()
TerminateSeat(e) ==
    /\ pc = "event"
    /\ e \in seats
    /\ pc' = "seat_stop" /\ cur' = e /\ todo' = SessionsOfSeat(e)
    /\ UNCHANGED <<sessVars, procVars, seatVars, vtVars, userVars, gcVars>>

\* on_cgroup_inotify_event() and session_check_cgroup_events(): cgroup.events is
\* read when the notification is handled, not when it was sent.
CgroupEvent(s) ==
    /\ pc = "event"
    /\ s \in cgEvent
    /\ cgEvent' = cgEvent \ {s}
    /\ IF s \in populated
       THEN timer' = IF s \in stopping THEN timer ELSE timer \ {s}
       ELSE session_release(s)
    /\ pc' = "gc"
    /\ UNCHANGED <<info, order, position, started, stopping, watch, fifo, alive,
                   populated, seatVars, vtVars, userVars, gcVars, cur, todo>>

-----------------------------------------------------------------------------
(***************************************************************************)
(* Handlers that change what a session is                                  *)
(***************************************************************************)
\* session_set_type() and session_set_class(): the display is not elected again.
SessionChanges(s, new) ==
    /\ pc = "event"
    /\ info' = [info EXCEPT ![s] = new]
    /\ pc' = "gc"
    /\ UNCHANGED <<order, position, started, stopping, timer, watch, fifo, procVars,
                   seatVars, vtVars, userVars, gcVars, cur, todo>>

\* method_set_type(), and session_drop_controller(), which takes it back; who is in
\* control of a session is the subject of SessionDevices.
SetType(s, t) ==
    /\ s \in sessions
    /\ SESSION_CLASS_CAN_CHANGE_TYPE(info[s].class)
    /\ SessionChanges(s, [info[s] EXCEPT !.type = t])

\* method_set_class(), which makes a session of class user-incomplete a full one
SetClass(s) ==
    /\ s \in sessions
    /\ "user" \in Classes /\ info[s].class = "user-incomplete"
    /\ SessionChanges(s, [info[s] EXCEPT !.class = "user"])

-----------------------------------------------------------------------------
(***************************************************************************)
(* Handlers that switch the active session of a seat                       *)
(***************************************************************************)
\* Every handler of this section leaves the sessions, users and queues alone.
SeatHandler ==
    /\ pc = "event"
    /\ pc' = "gc"
    /\ UNCHANGED <<sessVars, procVars, seats, master, positions, userVars, gcVars,
                   cur, todo>>

chvt(v) == fgVT' = v /\ console' = (console \/ v # fgVT)

\* seat_complete_switch()
complete_switch(e, s) ==
    /\ active' = [active EXCEPT ![e] = s]
    /\ pending' = [pending EXCEPT ![e] = Nil]

\* manager_dispatch_console() and manager_vt_switch()
ConsoleEvent ==
    /\ SeatHandler
    /\ console
    /\ active' = [active EXCEPT ![Seat0] = VtSession(info, order, fgVT)]
    /\ console' = FALSE
    /\ UNCHANGED <<pending, fgVT>>

\* session_activate().  Whether devices of the session are still to be paused
\* is left open.
session_activate(s) ==
    LET e == info[s].seat
    IN  \/ /\ e # Nil => active[e] = s \/ (seat_has_vts(e) /\ info[s].vtnr = 0)
           /\ UNCHANGED <<active, pending, vtVars>>
        \/ /\ e # Nil /\ active[e] # s /\ seat_has_vts(e) /\ info[s].vtnr # 0
           /\ chvt(info[s].vtnr)
           /\ UNCHANGED <<active, pending>>
        \/ /\ e # Nil /\ active[e] # s /\ ~ seat_has_vts(e)
           /\ \/ complete_switch(e, s)
              \/ pending' = [pending EXCEPT ![e] = s] /\ UNCHANGED active
           /\ UNCHANGED vtVars

Activate(s) == s \in sessions /\ SeatHandler /\ session_activate(s)

\* The last paused device answers: session_device_complete_pause().
CompleteSwitch(e) ==
    /\ SeatHandler
    /\ e \in seats
    /\ pending[e] # Nil
    /\ complete_switch(e, pending[e])
    /\ UNCHANGED vtVars

\* Mutant: VTs counted from 0.
seat_switch_to_off_by_one(e, n) ==
    chvt(n - 1) /\ UNCHANGED <<active, pending>>

seat_switch_to(e, n) ==
    LET s == positions[<<e, n>>]
    IN  \/ s # Nil /\ session_activate(s)
        \/ s = Nil /\ seat_has_vts(e) /\ n \in VTs /\ chvt(n)
           /\ UNCHANGED <<active, pending>>

SwitchTo(e, n) == e \in seats /\ SeatHandler /\ seat_switch_to(e, n)

\* Where seat_switch_to_next() and seat_switch_to_previous() start.
SwitchStart(e) ==
    IF active[e] # Nil /\ position[active[e]] > 0 THEN position[active[e]] ELSE 1

Occupied(e) == {p \in Positions : positions[<<e, p>>] # Nil}

\* Distance of p from the start, going up and wrapping round.
Ahead(e, p) == (p + MaxPos - SwitchStart(e)) % MaxPos

SwitchToNext(e) ==
    \E p \in Occupied(e) \ {SwitchStart(e)} :
        /\ \A q \in Occupied(e) \ {SwitchStart(e)} : Ahead(e, p) <= Ahead(e, q)
        /\ SwitchTo(e, p)

SwitchToPrevious(e) ==
    \E p \in Occupied(e) \ {SwitchStart(e)} :
        /\ \A q \in Occupied(e) \ {SwitchStart(e)} : Ahead(e, p) >= Ahead(e, q)
        /\ SwitchTo(e, p)

-----------------------------------------------------------------------------
(***************************************************************************)
(* Handlers about users and seats                                          *)
(***************************************************************************)
\* user_stop_timeout_callback()
UserStopTimeout(u) ==
    /\ pc = "event"
    /\ uTimer[u] = "elapsed"
    /\ uTimer' = [uTimer EXCEPT ![u] = "fired"]
    /\ userGc' = userGc \cup {u}
    /\ pc' = "gc"
    /\ UNCHANGED <<sessVars, procVars, seatVars, vtVars, users, uStarted,
                   uStopping, byPin, stamped, linger, runtimeDir, display,
                   seatGc, sessGc, cur, todo>>

\* method_set_user_linger() with enable set
EnableLinger(u) ==
    /\ pc = "event"
    /\ u \in Lingerers
    /\ linger' = linger \cup {u}
    /\ users' = users \cup {u}
    /\ \/ user_start_ok(u) /\ UNCHANGED userGc
       \/ user_start_failed(u) /\ userGc' = userGc \cup {u}
    /\ pc' = "gc"
    /\ UNCHANGED <<sessVars, procVars, seatVars, vtVars, byPin, stamped, uTimer,
                   display, seatGc, sessGc, cur, todo>>

DisableLinger(u) ==
    /\ pc = "event"
    /\ u \in Lingerers
    /\ linger' = linger \ {u}
    /\ byPin' = IF u \in users THEN byPin \cup {u} ELSE byPin
    /\ userGc' = IF u \in users THEN userGc \cup {u} ELSE userGc
    /\ pc' = "gc"
    /\ UNCHANGED <<sessVars, procVars, seatVars, vtVars, users, uStarted,
                   uStopping, stamped, uTimer, runtimeDir, display, seatGc,
                   sessGc, cur, todo>>

\* manager_process_seat_device(): the master device of a seat comes and goes.
SeatDeviceAdded(e) ==
    /\ pc = "event"
    /\ e \notin seats
    /\ seats' = seats \cup {e}
    /\ master' = master \cup {e}
    /\ pc' = "gc"
    /\ UNCHANGED <<sessVars, procVars, active, pending, positions, vtVars,
                   userVars, gcVars, cur, todo>>

SeatDeviceRemoved(e) ==
    /\ pc = "event"
    /\ e \in master
    /\ master' = master \ {e}
    /\ seatGc' = seatGc \cup {e}
    /\ pc' = "gc"
    /\ UNCHANGED <<sessVars, procVars, seats, active, pending, positions, vtVars,
                   userVars, sessGc, userGc, cur, todo>>

-----------------------------------------------------------------------------
(***************************************************************************)
(* Walks over the sessions of a user or of a seat                          *)
(***************************************************************************)
\* The walk of user_stop() or seat_stop_sessions() stops the next session.
StopNext ==
    /\ pc \in {"user_stop", "user_gc_stop", "seat_stop", "seat_gc_stop"}
    /\ \E s \in todo : /\ s = FirstIn(order, todo)
                       /\ session_stop(s)
                       /\ todo' = todo \ {s}
    /\ UNCHANGED <<procVars, seats, master, active, pending, vtVars, users,
                   uStarted, uStopping, byPin, stamped, uTimer, linger,
                   runtimeDir, gcVars, pc, cur>>

\* The end of user_stop().
UserStopped ==
    /\ pc \in {"user_stop", "user_gc_stop"}
    /\ todo = {}
    /\ userGc' = userGc \cup {cur}
    /\ uStopping' = uStopping \cup {cur}
    /\ IF pc = "user_stop" THEN pc' = "gc" /\ cur' = Nil
       ELSE pc' = "user_gc" /\ UNCHANGED cur
    /\ UNCHANGED <<sessVars, procVars, seatVars, vtVars, users, uStarted, byPin,
                   stamped, uTimer, linger, runtimeDir, display, seatGc, sessGc,
                   todo>>

\* The end of seat_stop_sessions(); when it is part of seat_stop(), seat_free()
\* follows.
SeatStopped ==
    /\ pc \in {"seat_stop", "seat_gc_stop"}
    /\ todo = {}
    /\ IF pc = "seat_stop"
       THEN pc' = "gc" /\ cur' = Nil /\ UNCHANGED <<seatGc, todo>>
       ELSE /\ pc' = "seat_free"
            /\ seatGc' = seatGc \cup {cur}
            /\ todo' = SessionsOfSeat(cur)
            /\ UNCHANGED cur
    /\ UNCHANGED <<sessVars, procVars, seatVars, vtVars, userVars, sessGc, userGc>>

\* The loop of seat_free() frees the seat's sessions without finalizing them.
seat_free_session(s) == session_free(s) /\ UNCHANGED userGc

\* The loops of seat_free() and of user_finalize() free the next session.
FreeNext ==
    /\ pc \in {"seat_free", "user_free"}
    /\ \E s \in todo : /\ s = FirstIn(order, todo)
                       /\ IF pc = "seat_free" THEN seat_free_session(s)
                          ELSE session_finalize_and_free(s)
                       /\ todo' = todo \ {s}
    /\ UNCHANGED <<pc, cur>>

SeatFreed ==
    /\ pc = "seat_free"
    /\ todo = {}
    /\ seats' = seats \ {cur}
    /\ master' = master \ {cur}
    /\ seatGc' = seatGc \ {cur}
    /\ pc' = "gc" /\ cur' = Nil
    /\ UNCHANGED <<sessVars, procVars, active, pending, positions, vtVars,
                   userVars, sessGc, userGc, todo>>

UserFreed ==
    /\ pc = "user_free"
    /\ todo = {}
    /\ users' = users \ {cur}
    /\ uStarted' = uStarted \ {cur}
    /\ uStopping' = uStopping \ {cur}
    /\ byPin' = byPin \ {cur}
    /\ stamped' = stamped \ {cur}
    /\ uTimer' = [uTimer EXCEPT ![cur] = "off"]
    /\ runtimeDir' = runtimeDir \ {cur}
    /\ userGc' = userGc \ {cur}
    /\ display' = [display EXCEPT ![cur] = Nil]
    /\ pc' = "gc" /\ cur' = Nil
    /\ UNCHANGED <<sessVars, procVars, seatVars, vtVars, linger, seatGc, sessGc,
                   todo>>

-----------------------------------------------------------------------------
(***************************************************************************)
(* manager_gc(): seats, then sessions, then users.  Each queue is a set    *)
(* here, so that its members may be taken in any order.                    *)
(***************************************************************************)
\* Mutant: the seat is freed without stopping its sessions.
GcSeat_unstopped(e) ==
    /\ pc = "gc"
    /\ e \in seatGc
    /\ seatGc' = seatGc \ {e}
    /\ pc' = "seat_free" /\ cur' = e /\ todo' = SessionsOfSeat(e)
    /\ UNCHANGED <<sessVars, procVars, seatVars, vtVars, userVars, sessGc, userGc>>

GcSeat(e) ==
    /\ pc = "gc"
    /\ e \in seatGc
    /\ seatGc' = seatGc \ {e}
    /\ IF seat_may_gc(e)
       THEN pc' = "seat_gc_stop" /\ cur' = e /\ todo' = SessionsOfSeat(e)
       ELSE UNCHANGED walkVars
    /\ UNCHANGED <<sessVars, procVars, seatVars, vtVars, userVars, sessGc, userGc>>

\* First a session that is not closing yet is stopped ...
GcSession(s) ==
    /\ pc = "gc"
    /\ seatGc = {}
    /\ s \in sessGc
    /\ sessGc' = sessGc \ {s}
    /\ IF session_may_gc(s) /\ ~ session_closing(s) THEN session_stop(s)
       ELSE UNCHANGED <<sessVars, positions, display>>
    /\ pc' = "session_gc" /\ cur' = s
    /\ UNCHANGED <<procVars, seats, master, active, pending, vtVars, users,
                   uStarted, uStopping, byPin, stamped, uTimer, linger,
                   runtimeDir, seatGc, userGc, todo>>

\* Mutant: a session that may not go yet is queued again at once.
GcSessionFinish_requeue ==
    /\ pc = "session_gc"
    /\ sessGc' = sessGc \cup {cur}
    /\ pc' = "gc" /\ cur' = Nil
    /\ UNCHANGED <<sessVars, procVars, seatVars, vtVars, userVars, seatGc, userGc,
                   todo>>

\* ... then it is removed if still nothing references it.
GcSessionFinish ==
    /\ pc = "session_gc"
    /\ IF session_may_gc(cur) THEN session_finalize_and_free(cur)
       ELSE UNCHANGED <<sessVars, procVars, seatVars, vtVars, userVars, gcVars>>
    /\ pc' = "gc" /\ cur' = Nil /\ UNCHANGED todo

GcUser(u) ==
    /\ pc = "gc"
    /\ seatGc = {} /\ sessGc = {}
    /\ u \in userGc
    /\ userGc' = userGc \ {u}
    /\ cur' = u
    /\ IF user_may_gc(u) /\ u \in uStarted \ uStopping
       THEN pc' = "user_gc_stop" /\ todo' = SessionsOfUser(u)
       ELSE pc' = "user_gc" /\ UNCHANGED todo
    /\ UNCHANGED <<sessVars, procVars, seatVars, vtVars, userVars, seatGc, sessGc>>

GcUserFinish ==
    /\ pc = "user_gc"
    /\ IF user_may_gc(cur)
       THEN pc' = "user_free" /\ todo' = SessionsOfUser(cur) /\ UNCHANGED cur
       ELSE pc' = "gc" /\ cur' = Nil /\ UNCHANGED todo
    /\ UNCHANGED <<sessVars, procVars, seatVars, vtVars, userVars, gcVars>>

GcDone ==
    /\ pc = "gc"
    /\ seatGc = {} /\ sessGc = {} /\ userGc = {}
    /\ pc' = "event"
    /\ UNCHANGED <<sessVars, procVars, seatVars, vtVars, userVars, gcVars, cur, todo>>

-----------------------------------------------------------------------------
(***************************************************************************)
(* The world outside the daemon                                            *)
(***************************************************************************)
daemonVars == <<sessVars, seatVars, userVars, gcVars, walkVars>>

LeaderDies(s) ==
    /\ s \in alive
    /\ alive' = alive \ {s}
    /\ UNCHANGED <<daemonVars, populated, cgEvent, vtVars>>

FifoWriterGone(s) ==
    /\ fifo[s] = "open"
    /\ fifo' = [fifo EXCEPT ![s] = "eof"]
    /\ UNCHANGED <<info, order, position, started, stopping, timer, watch,
                   seatVars, userVars, gcVars, walkVars, procVars, vtVars>>

\* The kernel signals a change of cgroup.events: the cgroup ran empty, or it was
\* changed while populated, or processes were moved into it.
CgroupChanges(s) ==
    /\ \/ s \in populated \ alive /\ populated' = populated \ {s}
       \/ Repopulates /\ s \in started /\ populated' = populated \cup {s}
    /\ cgEvent' = cgEvent \cup {s}
    /\ UNCHANGED <<daemonVars, alive, vtVars>>

VtSwitch(v) ==
    /\ v # fgVT
    /\ fgVT' = v /\ console' = TRUE
    /\ UNCHANGED <<daemonVars, procVars>>

StopDelayElapses(u) ==
    /\ uTimer[u] = "armed"
    /\ uTimer' = [uTimer EXCEPT ![u] = "elapsed"]
    /\ UNCHANGED <<sessVars, seatVars, users, uStarted, uStopping, byPin, stamped,
                   linger, runtimeDir, display, gcVars, walkVars, procVars, vtVars>>

-----------------------------------------------------------------------------
(***************************************************************************)
(* The specification                                                       *)
(***************************************************************************)
Init ==
    /\ info = [s \in SessionIds |-> Nil] /\ order = <<>>
    /\ position = [s \in SessionIds |-> 0]
    /\ started = {} /\ stopping = {} /\ timer = {} /\ watch = {}
    /\ fifo = [s \in SessionIds |-> "none"]
    /\ alive = {} /\ populated = {} /\ cgEvent = {}
    /\ seats = {Seat0} /\ master = {}
    /\ active = [e \in Seats |-> Nil] /\ pending = [e \in Seats |-> Nil]
    /\ positions = [ep \in Seats \X Positions |-> Nil]
    /\ fgVT = 1 /\ console = FALSE
    /\ users = {} /\ uStarted = {} /\ uStopping = {} /\ byPin = {} /\ stamped = {}
    /\ uTimer = [u \in Uids |-> "off"]
    /\ linger = {} /\ runtimeDir = {}
    /\ display = [u \in Uids |-> Nil]
    /\ seatGc = {} /\ sessGc = {} /\ userGc = {}
    /\ pc = "event" /\ cur = Nil /\ todo = {}

SessionHandler ==
    \/ \E s \in SessionIds, u \in Uids, c \in Classes, t \in Types,
          e \in Seats \cup {Nil}, v \in 0 .. MaxVT : CreateSession(s, u, c, t, e, v)
    \/ \E s \in SessionIds :
          \/ ReleaseSession(s) \/ ReleaseTimeout(s) \/ LeaderExit(s)
          \/ FifoEof(s) \/ TerminateSession(s) \/ StopOnIdle(s)
          \/ CgroupEvent(s) \/ Activate(s)
          \/ SetClass(s) \/ \E t \in Types : SetType(s, t)

SeatOrUserHandler ==
    \/ ConsoleEvent
    \/ \E e \in Seats :
          \/ TerminateSeat(e) \/ CompleteSwitch(e)
          \/ \E n \in Positions : SwitchTo(e, n)
          \/ SwitchToNext(e) \/ SwitchToPrevious(e)
          \/ SeatDeviceAdded(e) \/ SeatDeviceRemoved(e)
    \/ \E u \in Uids :
          \/ TerminateUser(u) \/ UserStopTimeout(u)
          \/ EnableLinger(u) \/ DisableLinger(u)

\* Steps that bring a running handler and the collector to their end.
Collect ==
    \/ StopNext \/ UserStopped \/ SeatStopped
    \/ FreeNext \/ SeatFreed \/ UserFreed
    \/ \E e \in Seats : GcSeat(e)
    \/ \E s \in SessionIds : GcSession(s)
    \/ \E u \in Uids : GcUser(u)
    \/ GcSessionFinish \/ GcUserFinish \/ GcDone

Environment ==
    \/ \E s \in SessionIds : LeaderDies(s) \/ FifoWriterGone(s) \/ CgroupChanges(s)
    \/ \E v \in VTs : VtSwitch(v)
    \/ \E u \in Uids : StopDelayElapses(u)

Next == SessionHandler \/ SeatOrUserHandler \/ Collect \/ Environment

Spec == Init /\ [][Next]_vars

\* The thread runs on.
FairSpec == Spec /\ WF_vars(Collect)

-----------------------------------------------------------------------------
(***************************************************************************)
(* Properties                                                              *)
(***************************************************************************)
PCs == {"event", "gc", "user_stop", "user_gc_stop", "seat_stop", "seat_gc_stop",
        "seat_free", "session_gc", "user_gc", "user_free"}

SessionTypeOK ==
    /\ info \in [SessionIds -> SessionInfo \cup {Nil}]
    /\ position \in [SessionIds -> 0 .. MaxPos]
    /\ started \subseteq SessionIds /\ stopping \subseteq SessionIds
    /\ timer \subseteq SessionIds /\ watch \subseteq SessionIds
    /\ fifo \in [SessionIds -> {"none", "open", "eof"}]
    /\ alive \subseteq SessionIds /\ populated \subseteq SessionIds
    /\ cgEvent \subseteq SessionIds
SeatTypeOK ==
    /\ seats \subseteq Seats /\ master \subseteq Seats
    /\ active \in [Seats -> SessionIds \cup {Nil}]
    /\ pending \in [Seats -> SessionIds \cup {Nil}]
    /\ positions \in [Seats \X Positions -> SessionIds \cup {Nil}]
    /\ fgVT \in VTs /\ console \in BOOLEAN
UserTypeOK ==
    /\ users \subseteq Uids /\ uStarted \subseteq Uids /\ uStopping \subseteq Uids
    /\ byPin \subseteq Uids /\ stamped \subseteq Uids
    /\ uTimer \in [Uids -> {"off", "armed", "elapsed", "fired"}]
    /\ linger \subseteq Uids /\ runtimeDir \subseteq Uids
    /\ display \in [Uids -> SessionIds \cup {Nil}]
WalkTypeOK ==
    /\ seatGc \subseteq Seats /\ sessGc \subseteq SessionIds /\ userGc \subseteq Uids
    /\ pc \in PCs /\ cur \in SessionIds \cup Uids \cup Seats \cup {Nil}
    /\ todo \subseteq SessionIds

\* Every variable has its type; the list of sessions is the subject of ListOrder.
TypeOK == SessionTypeOK /\ SeatTypeOK /\ UserTypeOK /\ WalkTypeOK

\* The parts of PointersValid, by who holds the pointers: sessions, seats, the
\* slots of seats, users, event sources and walks, and the garbage queues.
SessionsPoint ==
    \A s \in sessions : /\ info[s].user \in users
                        /\ info[s].seat \in seats \cup {Nil}
SeatsPoint ==
    \A e \in Seats : /\ active[e] # Nil => active[e] \in SessionsOfSeat(e)
                     /\ pending[e] # Nil => pending[e] \in SessionsOfSeat(e)
SlotsPoint ==
    \A e \in Seats, p \in Positions :
        positions[<<e, p>>] # Nil =>
            /\ positions[<<e, p>>] \in SessionsOfSeat(e)
            /\ position[positions[<<e, p>>]] = p
UsersPoint ==
    \A u \in Uids : /\ display[u] # Nil => display[u] \in SessionsOfUser(u)
                    /\ uTimer[u] # "off" => u \in users
SourcesPoint ==
    /\ started \subseteq sessions /\ stopping \subseteq sessions
    /\ timer \subseteq sessions /\ watch \subseteq sessions
    /\ cgEvent \subseteq sessions /\ todo \subseteq sessions
QueuesPoint ==
    seatGc \subseteq seats /\ sessGc \subseteq sessions /\ userGc \subseteq users

\* Every pointer is to an object that exists, and back pointers agree: nothing
\* seat_free(), session_free() or user_free() released is still referenced by a
\* session, a seat's active, pending_switch or positions, a user's display, a
\* timer or event source, a garbage queue or a walk in progress.
PointersValid ==
    /\ SessionsPoint /\ SeatsPoint /\ SlotsPoint
    /\ UsersPoint /\ SourcesPoint /\ QueuesPoint

\* A walk is about an object that exists, and what is left of it are sessions of
\* that object; when the object is about to be freed, they are all it has left.
WalksValid ==
    /\ pc \in {"event", "gc", "session_gc", "user_gc"} => todo = {}
    /\ pc = "session_gc" => cur \in sessions
    /\ pc \in {"user_stop", "user_gc_stop", "user_gc", "user_free"} => cur \in users
    /\ pc \in {"seat_stop", "seat_gc_stop", "seat_free"} => cur \in seats
    /\ pc = "seat_free" => todo = SessionsOfSeat(cur)
    /\ pc = "user_free" => todo = SessionsOfUser(cur)
    /\ master \subseteq seats

\* The list links exactly the existing sessions, each of them once.
ListOrder ==
    /\ Linked(order) = sessions
    /\ Len(order) = Cardinality(sessions)

\* The slot of the position that session s claims is free, and s is to stay.
SlotFree(s) == /\ s \in sessions /\ info[s].seat # Nil /\ position[s] # 0
               /\ positions[<<info[s].seat, position[s]>>] = Nil
Slotless(s) == SlotFree(s) /\ ~ session_closing(s)

\* No step takes the slot of its position from a session that is to stay, so that
\* SwitchTo() finds the session left on a VT and CreateSession() refuses the VT:
\* seat_evict_position() hands the slot on.  A session is without one only if it was
\* passed over while its release timer ran, and its cgroup was populated again.
SlotKept ==
    [][\A s \in SessionIds :
           Slotless(s)' => \/ Slotless(s)
                           \/ SlotFree(s) /\ s \in timer \cap cgEvent \cap populated]_vars

\* The active session of seat0 is on the VT in the foreground, unless the change
\* of the VT is still to be read: its devices are never granted to a session in
\* the background.
ActiveIsForeground ==
    active[Seat0] # Nil => console \/ info[active[Seat0]].vtnr = fgVT

\* A session that has started keeps its user started and the user's runtime
\* directory in place, whatever was collected meanwhile.
RuntimeDirHeld ==
    \A s \in started : info[s].user \in uStarted \cap runtimeDir

\* The display of u is a running session that no other is to be preferred to, if u has
\* a session that can be the display.
DisplayBest(u) ==
    LET C == DisplayCandidates(info, u, started \ stopping)
    IN  C # {} => /\ display[u] \in C
                  /\ \A s \in C : ~ elect_display_prefers(info, s, display[u])

\* A session of u starts or stops; one of them changes its type or its class.
StartsOrStops(u) ==
    \E s \in (started' \ started) \cup (stopping' \ stopping) : info'[s].user = u
Changes(u) ==
    \E s \in SessionsOfUser(u) : info'[s] # Nil /\ info'[s] # info[s]

\* When a session of a user starts or stops, whatever happened before, the best one is
\* the user's primary session afterwards; and no other step but a change of a session's
\* type or class, after which user_elect_display() is not called, makes the primary
\* session a wrong one, least of all the freeing of sessions, failed starts included.
DisplayElected ==
    [][\A u \in Uids : /\ StartsOrStops(u) => DisplayBest(u)'
                       /\ DisplayBest(u) /\ ~ Changes(u) => DisplayBest(u)']_vars

\* assert(!u->timer_event_source) in user_update_last_session_timer() holds: only
\* a user whose last session is gone has a stop timer.
StopTimerStamped == \A u \in Uids : uTimer[u] # "off" => u \in stamped

\* Between events no user is forgotten: one that is neither pinned by a session
\* nor lingering is kept for the stop delay only, with the timer that ends it.
NoForgottenUser ==
    pc = "event" =>
        \A u \in users : \/ user_pinned_by_sessions(u)
                         \/ u \in linger
                         \/ UserStopDelay = "infinite"
                         \/ uTimer[u] \in {"armed", "elapsed"}

\* The collector never frees a session below its living leader; with its seat or
\* its user a session goes all the same, but then it was stopped before, unless
\* it had never started.  A session that does not pin its user can go unstopped
\* too: manager_gc() asks user_may_gc() twice, and the stop delay may run out
\* in between.
LiveSessionKept ==
    [][\A s \in sessions \cap alive :
            info'[s] = Nil =>
                /\ pc \in {"seat_free", "user_free"}
                /\ s \in started => \/ s \in stopping
                                    \/ /\ pc = "user_free"
                                       /\ UserStopDelay = "finite"
                                       /\ ~ SESSION_CLASS_PIN_USER(info[s].class)]_vars

\* A handler that stops sessions, and the collection after it, come to an end:
\* the daemon always gets back to its event loop.
GcTerminates == pc # "event" ~> pc = "event"

\* "closing (session nominally logged out, but some processes belonging to it are
\* still around)": between events, with all notifications read, a stopped session
\* has processes left.
ClosingHasProcesses ==
    pc = "event" =>
        \A s \in stopping : s \in alive \cup populated \cup cgEvent

=============================================================================
