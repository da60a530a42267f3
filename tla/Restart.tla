------------------------------ MODULE Restart -------------------------------
(***************************************************************************)
(* What survives when the login daemon exits, crashes and starts again:    *)
(* the state files of sessions and users (logind-session.c, logind-user.c) *)
(* and of inhibitor locks (logind-inhibit.c), the FIFOs next to them, the  *)
(* runtime directories, the controllers and their VTs, and manager_free()  *)
(* and manager_startup() of logind.c.                                      *)
(*                                                                         *)
(* Memory is lost in a crash; the world is not.  A handler changes memory  *)
(* and changes the world one entry at a time, in the order of the code.    *)
(* The daemon may crash between any two of these changes, so a handler is  *)
(* one step that either runs to its end or leaves the world as it was      *)
(* before one of its changes and loses the memory.  A loop over sessions,  *)
(* users or locks is one step for each of them.  Processes die and names   *)
(* leave the bus between two handlers and while the daemon is down: a      *)
(* handler reads them once, so a change in the middle of one is a change   *)
(* before or after it.                                                     *)
(***************************************************************************)
CONSTANTS
    Sessions,    \* names a session can have; a client is told of each once
    Users,       \* users that can log in
    Lingerers,   \* those with a linger file
    Clients,     \* bus connections that can control a session
    Locks,       \* names an inhibitor lock can have
    Machines,    \* the machines the daemon may run on: see Machine
    Nil          \* the NULL pointer, a file that does not exist

\* Whether the kernel has pidfds, and what there is on the machine.
Machine == [pidfd : BOOLEAN, sessions : SUBSET Sessions, users : SUBSET Users,
            clients : SUBSET Clients, locks : SUBSET Locks]

Session == [user : Users, started : BOOLEAN, stopping : BOOLEAN,
            timer : BOOLEAN, fifo : BOOLEAN, controller : Clients \cup {Nil},
            vtfd : BOOLEAN]
User    == [started : BOOLEAN, stopping : BOOLEAN]

\* The fields of the state files that session_load() and user_load() act on.
SessionFile == [user : Users, closing : BOOLEAN, fifo : BOOLEAN,
                controller : Clients \cup {Nil}]
UserFile    == [stopping : BOOLEAN]

\* A FIFO is absent, has no writer, or is held open by the client it was given to.
Fifo == {"none", "idle", "held"}

World == [sessionFile : [Sessions -> SessionFile \cup {Nil}],
          userFile    : [Users -> UserFile \cup {Nil}],
          lockFile    : [Locks -> BOOLEAN],
          fifo        : [Sessions -> Fifo],
          lockFifo    : [Locks -> Fifo],
          runtimeDir  : [Users -> BOOLEAN],
          muted       : [Sessions -> BOOLEAN],    \* the session's VT
          told        : [Sessions -> {"nothing", "created", "removed"}],
          control     : [Sessions -> Clients \cup {Nil, "forgotten"}]]
\* control: the client that was given control, has not given it back and is still on
\* the bus, or that one was and manager_free() took it away and told nobody.

ASSUME RestartAssumption ==
    /\ Nil \notin Users /\ Nil \notin Clients /\ "forgotten" \notin Clients
    /\ Nil \notin Session /\ Nil \notin User
    /\ Nil \notin SessionFile /\ Nil \notin UserFile
    /\ Lingerers \subseteq Users
    /\ Machines \subseteq Machine

VARIABLES
    machine,     \* what the daemon runs on
    pc,          \* "down", "starting", "event", "user_stop" or "exiting"
    cur,         \* the user that user_stop() is called for
    \* Memory
    session,     \* Session objects, Nil where there is none
    user,        \* User objects
    lock,        \* Inhibitor objects: those that are started
    sessGc, userGc,      \* the garbage queues
    \* The world
    world,
    \* The processes
    alive,       \* the session leaders that live
    bus,         \* the clients on the bus
    asked,       \* sessions that somebody asked to end
    dropped      \* sessions that a start of the daemon has dropped

thread == <<pc, cur>>
memory == <<session, user, lock, sessGc, userGc>>
procs  == <<alive, bus, asked, dropped>>
vars   == <<machine, thread, memory, world, procs>>

-----------------------------------------------------------------------------
(***************************************************************************)
(* Changes to the world                                                    *)
(***************************************************************************)
\* A trace of a handler: the world as it is now and as it was before each change.
\* The functions of the code map the trace up to their call to the one up to their
\* return.
Begin == [past |-> {}, now |-> world]

Change(t, w) == [past |-> t.past \cup {t.now}, now |-> w]

session_closing(r) == r.stopping \/ r.timer

\* session_save(): a session that is not started is not written.
session_save(t, s, r) ==
    IF r.started
    THEN Change(t, [t.now EXCEPT !.sessionFile[s] =
                      [user |-> r.user, closing |-> session_closing(r),
                       fifo |-> r.fifo, controller |-> r.controller]])
    ELSE t

user_save_internal(t, u, r) ==
    Change(t, [t.now EXCEPT !.userFile[u] = [stopping |-> r.stopping]])

user_save(t, u, r) == IF r.started THEN user_save_internal(t, u, r) ELSE t

NoMemory ==
    /\ session' = [s \in Sessions |-> Nil]
    /\ user' = [u \in Users |-> Nil]
    /\ lock' = {} /\ sessGc' = {} /\ userGc' = {}

Down == pc' = "down" /\ cur' = Nil /\ NoMemory

\* The daemon crashes in a handler, before its last change.
CrashIn(t) == world' \in t.past /\ Down

\* manager_run() handles an event only when the garbage is collected.
Idle == pc = "event" /\ sessGc = {} /\ userGc = {}

sessionsOf(u) == {s \in Sessions : session[s] # Nil /\ session[s].user = u}

\* One handler of the daemon.
Run(t, ss, uu, ll, sgc, ugc) ==
    \/ /\ world' = t.now /\ UNCHANGED thread
       /\ session' = ss /\ user' = uu /\ lock' = ll
       /\ sessGc' = sgc /\ userGc' = ugc
    \/ CrashIn(t)

RunSession(s, r, t) == Run(t, [session EXCEPT ![s] = r], user, lock, sessGc, userGc)

-----------------------------------------------------------------------------
(***************************************************************************)
(* Sessions and users                                                      *)
(***************************************************************************)
Running == [started |-> TRUE, stopping |-> FALSE]

\* Mutant: the runtime directory is made and the user is not written.
user_start_unsaved(t, u, r) ==
    IF r = Nil \/ ~ r.started \/ r.stopping
    THEN Change(t, [t.now EXCEPT !.runtimeDir[u] = TRUE])
    ELSE user_save(t, u, r)

\* user_start() of a User that is new, stopping or running.
user_start(t, u, r) ==
    IF r = Nil \/ ~ r.started \/ r.stopping
    THEN LET saved == user_save_internal(t, u, Running)
             made  == Change(saved, [saved.now EXCEPT !.runtimeDir[u] = TRUE])
         IN  user_save(made, u, Running)
    ELSE user_save(t, u, r)

session_create_fifo(t, s) ==
    IF t.now.fifo[s] = "none" THEN Change(t, [t.now EXCEPT !.fifo[s] = "idle"]) ELSE t

\* The answer of CreateSession(), with the writing end of the FIFO in it.
CreateReply(t, s) ==
    LET held == Change(t, [t.now EXCEPT !.fifo[s] = "held"])
    IN  Change(held, [held.now EXCEPT !.told[s] = "created"])

\* Mutant: the client is answered before the FIFO is in the state file.
session_send_create_reply_early(t, s, r) ==
    user_save(session_save(CreateReply(session_create_fifo(t, s), s), s, r), r.user, Running)

\* session_send_create_reply(): the FIFO, the state files, then the answer.
session_send_create_reply(t, s, r) ==
    CreateReply(user_save(session_save(session_create_fifo(t, s), s, r), r.user, Running), s)

CreateSession(s, u) ==
    LET new     == [user |-> u, started |-> TRUE, stopping |-> FALSE, timer |-> FALSE,
                    fifo |-> FALSE, controller |-> Nil, vtfd |-> FALSE]
        open    == [new EXCEPT !.fifo = TRUE]
        started == user_save(session_save(user_start(Begin, u, user[u]), s, new), u, Running)
    IN  /\ Idle
        /\ s \in machine.sessions /\ u \in machine.users
        /\ session[s] = Nil /\ world.sessionFile[s] = Nil
        /\ world.told[s] = "nothing"
        /\ Run(session_send_create_reply(started, s, open),
               [session EXCEPT ![s] = open], [user EXCEPT ![u] = Running],
               lock, sessGc, userGc)
        /\ alive' = alive \cup {s} /\ asked' = asked \ {s} /\ dropped' = dropped \ {s}
        /\ UNCHANGED <<machine, bus>>

\* session_stop(): what becomes of the object, and of the world.
session_stopped(r) ==
    IF r.started /\ ~ r.stopping
    THEN [r EXCEPT !.stopping = TRUE, !.timer = FALSE, !.fifo = FALSE]
    ELSE r

session_remove_fifo(t, s, r) ==
    IF r.fifo THEN Change(t, [t.now EXCEPT !.fifo[s] = "none"]) ELSE t

session_stop(t, s, r) ==
    IF r.started /\ ~ r.stopping
    THEN user_save(session_save(session_remove_fifo(t, s, r), s, session_stopped(r)),
                   r.user, user[r.user])
    ELSE t

\* ReleaseSession(), and a cgroup that runs empty.
ReleaseSession(s) ==
    /\ Idle
    /\ session[s] # Nil /\ session[s].started /\ ~ session[s].stopping
    /\ asked' = asked \cup {s}
    /\ session' = [session EXCEPT ![s].timer = TRUE]
    /\ UNCHANGED <<machine, thread, user, lock, sessGc, userGc, world, alive, bus,
                   dropped>>

ReleaseTimeout(s) ==
    /\ Idle
    /\ session[s] # Nil /\ session[s].timer
    /\ Run(session_stop(Begin, s, session[s]),
           [session EXCEPT ![s] = session_stopped(session[s])], user, lock,
           sessGc \cup {s}, userGc)
    /\ UNCHANGED <<machine, procs>>

FifoEof(s) ==
    /\ Idle
    /\ session[s] # Nil /\ session[s].fifo /\ world.fifo[s] # "held"
    /\ LET r == [session[s] EXCEPT !.fifo = FALSE]
       IN  RunSession(s, session_stopped(r),
                      session_stop(session_remove_fifo(Begin, s, session[s]), s, r))
    /\ UNCHANGED <<machine, procs>>

\* The leader is watched through its pidfd.
LeaderExit(s) ==
    /\ Idle
    /\ machine.pidfd
    /\ session[s] # Nil /\ session[s].started /\ ~ session[s].stopping
    /\ s \notin alive
    /\ RunSession(s, session_stopped(session[s]), session_stop(Begin, s, session[s]))
    /\ UNCHANGED <<machine, procs>>

TerminateSession(s) ==
    /\ Idle
    /\ session[s] # Nil /\ session[s].started /\ ~ session[s].stopping
    /\ RunSession(s, session_stopped(session[s]), session_stop(Begin, s, session[s]))
    /\ asked' = asked \cup {s}
    /\ UNCHANGED <<machine, alive, bus, dropped>>

\* TerminateUser(): user_stop() stops the sessions, one a step, and then the user.
TerminateUser(u) ==
    /\ Idle
    /\ user[u] # Nil /\ ~ user[u].stopping
    /\ pc' = "user_stop" /\ cur' = u
    /\ asked' = asked \cup sessionsOf(u)
    /\ UNCHANGED <<machine, memory, world, alive, bus, dropped>>

RunningOf(u) == {s \in sessionsOf(u) : session[s].started /\ ~ session[s].stopping}

StopNext(s) ==
    /\ pc = "user_stop"
    /\ s \in RunningOf(cur)
    /\ RunSession(s, session_stopped(session[s]), session_stop(Begin, s, session[s]))
    /\ UNCHANGED <<machine, procs>>

UserStopped ==
    /\ pc = "user_stop"
    /\ RunningOf(cur) = {}
    /\ LET stopped == [user[cur] EXCEPT !.stopping = TRUE]
           t       == user_save(Begin, cur, stopped)
       IN  \/ /\ world' = t.now /\ pc' = "event" /\ cur' = Nil
              /\ user' = [user EXCEPT ![cur] = stopped] /\ userGc' = userGc \cup {cur}
              /\ UNCHANGED <<session, lock, sessGc>>
           \/ CrashIn(t)
    /\ UNCHANGED <<machine, procs>>

-----------------------------------------------------------------------------
(***************************************************************************)
(* The controller of a session and its VT                                  *)
(***************************************************************************)
\* session_set_controller(), prepare set: the VT is muted, then the controller
\* is written, then the client is answered.
TakeControl(s, c) ==
    /\ Idle
    /\ c \in bus
    /\ session[s] # Nil /\ session[s].controller = Nil
    /\ LET r     == [session[s] EXCEPT !.controller = c, !.vtfd = TRUE]
           saved == session_save(Change(Begin, [world EXCEPT !.muted[s] = TRUE]), s, r)
       IN  RunSession(s, r, Change(saved, [saved.now EXCEPT !.control[s] = c]))
    /\ UNCHANGED <<machine, procs>>

session_restore_vt(t, s, r) ==
    IF r.vtfd THEN Change(t, [t.now EXCEPT !.muted[s] = FALSE]) ELSE t

controller_dropped(r) == [r EXCEPT !.controller = Nil, !.vtfd = FALSE]

\* Mutant: the state file keeps the controller.
session_drop_controller_unsaved(t, s, r) ==
    IF r.controller = Nil THEN t ELSE session_restore_vt(t, s, r)

\* session_drop_controller() tells no client.
session_drop_controller(t, s, r) ==
    IF r.controller = Nil THEN t
    ELSE session_restore_vt(session_save(t, s, controller_dropped(r)), s, r)

\* ReleaseControl(), with which the client gives control back, and on_bus_track() once
\* the controller has left the bus.
DropController(s) ==
    /\ Idle
    /\ session[s] # Nil /\ session[s].controller # Nil
    /\ LET back == Change(Begin, [world EXCEPT !.control[s] = Nil])
       IN  RunSession(s, controller_dropped(session[s]),
                      session_drop_controller(back, s, session[s]))
    /\ UNCHANGED <<machine, procs>>

-----------------------------------------------------------------------------
(***************************************************************************)
(* Inhibitor locks                                                         *)
(***************************************************************************)
inhibitor_create_fifo(t, l) ==
    IF t.now.lockFifo[l] = "none" THEN Change(t, [t.now EXCEPT !.lockFifo[l] = "idle"])
    ELSE t

inhibitor_save(t, l) == Change(t, [t.now EXCEPT !.lockFile[l] = TRUE])

inhibitor_stop(t, l) ==
    LET removed == Change(t, [t.now EXCEPT !.lockFifo[l] = "none"])
    IN  Change(removed, [removed.now EXCEPT !.lockFile[l] = FALSE])

\* The FIFO, the state file, and the answer with the writing end of the FIFO.
Inhibit(l) ==
    LET saved == inhibitor_save(inhibitor_create_fifo(Begin, l), l)
    IN  /\ Idle
        /\ l \in machine.locks \ lock
        /\ Run(Change(saved, [saved.now EXCEPT !.lockFifo[l] = "held"]),
               session, user, lock \cup {l}, sessGc, userGc)
        /\ UNCHANGED <<machine, procs>>

\* inhibitor_dispatch_fifo()
LockEof(l) ==
    /\ Idle
    /\ l \in lock /\ world.lockFifo[l] # "held"
    /\ Run(inhibitor_stop(Begin, l), session, user, lock \ {l}, sessGc, userGc)
    /\ UNCHANGED <<machine, procs>>

-----------------------------------------------------------------------------
(***************************************************************************)
(* manager_gc(), drop_not_started set                                      *)
(***************************************************************************)
\* The leader is gone and nobody holds the FIFO.
Unheld(s) == s \notin alive /\ ~ (session[s].fifo /\ world.fifo[s] = "held")

session_may_gc(s) == Unheld(s)

session_send_removed(t, s, r) ==
    IF r.started THEN Change(t, [t.now EXCEPT !.told[s] = "removed"]) ELSE t

session_unlink(t, s) ==
    LET lost == Change(t, [t.now EXCEPT !.control[s] = Nil])
    IN  Change(lost, [lost.now EXCEPT !.sessionFile[s] = Nil])

\* session_free() of a session that is not started any more: dropping its controller
\* writes nothing.
FreeFinalized(t, s, r) == IF r.controller # Nil THEN session_restore_vt(t, s, r) ELSE t

\* Mutant: SessionRemoved is sent before the state file is removed.
session_finalize_and_free_early(t, s, r, u) ==
    FreeFinalized(user_save(session_unlink(session_send_removed(t, s, r), s), r.user, u), s, r)

\* session_finalize() and session_free()
session_finalize_and_free(t, s, r, u) ==
    FreeFinalized(user_save(session_send_removed(session_unlink(t, s), s, r), r.user, u), s, r)

GcSession(s) ==
    /\ pc = "event"
    /\ s \in sessGc
    /\ LET r       == session[s]
           stopped == IF session_closing(r) THEN Begin ELSE session_stop(Begin, s, r)
       IN  IF session_may_gc(s)
           THEN Run(session_finalize_and_free(stopped, s, r, user[r.user]),
                    [session EXCEPT ![s] = Nil], user, lock,
                    sessGc \ {s}, userGc \cup {r.user})
           ELSE Run(Begin, session, user, lock, sessGc \ {s}, userGc)
    /\ UNCHANGED <<machine, procs>>

user_finalize_and_free(t, u) ==
    LET unlinked == Change(t, [t.now EXCEPT !.userFile[u] = Nil])
    IN  Change(unlinked, [unlinked.now EXCEPT !.runtimeDir[u] = FALSE])

GcUser(u) ==
    /\ pc = "event"
    /\ sessGc = {} /\ u \in userGc
    /\ IF sessionsOf(u) = {} /\ u \notin Lingerers
       THEN Run(user_finalize_and_free(
                    user_save(Begin, u, [user[u] EXCEPT !.stopping = TRUE]), u),
                session, [user EXCEPT ![u] = Nil], lock, sessGc, userGc \ {u})
       ELSE Run(Begin, session, user, lock, sessGc, userGc \ {u})
    /\ UNCHANGED <<machine, procs>>

-----------------------------------------------------------------------------
(***************************************************************************)
(* Exit and start of the daemon                                            *)
(***************************************************************************)
\* The daemon is killed between two handlers or two steps of a loop, or has exited.
Crash ==
    /\ pc # "down"
    /\ Down
    /\ UNCHANGED <<machine, world, procs>>

\* manager_free(), after SIGINT or SIGTERM: session_free() of every session, then
\* user_free() of every user.  inhibitor_free() leaves the world alone.
Exit ==
    /\ Idle
    /\ pc' = "exiting"
    /\ UNCHANGED <<machine, cur, memory, world, procs>>

\* The controller is dropped and still believes that it has control.
Forget(t, s) ==
    IF t.now.control[s] \in Clients
    THEN Change(t, [t.now EXCEPT !.control[s] = "forgotten"]) ELSE t

ExitSession(s) ==
    /\ pc = "exiting"
    /\ session[s] # Nil
    /\ RunSession(s, Nil, session_drop_controller(Forget(Begin, s), s, session[s]))
    /\ UNCHANGED <<machine, procs>>

ExitUser(u) ==
    /\ pc = "exiting"
    /\ \A s \in Sessions : session[s] = Nil
    /\ user[u] # Nil
    /\ Run(Change(Begin, [world EXCEPT !.runtimeDir[u] = FALSE]),
           session, [user EXCEPT ![u] = Nil], lock, sessGc, userGc)
    /\ UNCHANGED <<machine, procs>>

\* manager_enumerate_users(), user_load()
UsersWithFile == {u \in Users : world.userFile[u] # Nil}
LoadedUsers   == (Lingerers \cap machine.users) \cup UsersWithFile
user_load(u)  == [started |-> FALSE,
                  stopping |-> u \in UsersWithFile /\ world.userFile[u].stopping]

\* Mutant: controllers are not restored.
load_controller_none(c) == Nil

\* session_load() takes the controller back if its name still has an owner.
load_controller(c) == IF c \in bus THEN c ELSE Nil

\* manager_enumerate_sessions(), session_load()
session_load(s) ==
    LET f == world.sessionFile[s]
    IN  [user |-> f.user, started |-> FALSE, stopping |-> f.closing,
         timer |-> FALSE, fifo |-> f.fifo,
         controller |-> load_controller(f.controller), vtfd |-> FALSE]

\* manager_startup() reads the state files.  The steps below are the rest of it, each
\* one loop after the one before.
Startup ==
    /\ pc = "down"
    /\ pc' = "starting"
    /\ session' = [s \in Sessions |-> IF world.sessionFile[s] # Nil
                                      THEN session_load(s) ELSE Nil]
    /\ user' = [u \in Users |-> IF u \in LoadedUsers THEN user_load(u) ELSE Nil]
    /\ UNCHANGED <<machine, cur, lock, sessGc, userGc, world, procs>>

\* Sessions and locks whose FIFO is missing.
SessionsToOpen == {s \in Sessions : /\ session[s] # Nil /\ session[s].fifo
                                    /\ world.fifo[s] = "none"}
LocksToOpen == {l \in Locks : world.lockFile[l] /\ world.lockFifo[l] = "none"}

LoadFifo(s) ==
    /\ pc = "starting"
    /\ s \in SessionsToOpen
    /\ RunSession(s, session[s], session_create_fifo(Begin, s))
    /\ UNCHANGED <<machine, procs>>

LoadLock(l) ==
    /\ pc = "starting"
    /\ SessionsToOpen = {} /\ l \in LocksToOpen
    /\ Run(inhibitor_create_fifo(Begin, l), session, user, lock, sessGc, userGc)
    /\ UNCHANGED <<machine, procs>>

\* Mutant: a session that is not started is dropped.
may_gc_at_start_all(s) == TRUE

\* session_may_gc(), drop_not_started not set, of a session that was just loaded.
\* With pidfds LEADER_FD_SAVED=1 is in the file, though there is no fd store: the
\* leader is not set.
may_gc_at_start(s) ==
    \/ user[session[s].user] = Nil
    \/ machine.pidfd
    \/ Unheld(s) /\ session[s].stopping

SessionsToDrop == {s \in Sessions : /\ session[s] # Nil /\ ~ session[s].started
                                    /\ may_gc_at_start(s)}

\* manager_gc(), drop_not_started not set.  session_finalize() returns at once if there
\* is no user.
DropSession(s) ==
    /\ pc = "starting"
    /\ SessionsToOpen = {} /\ LocksToOpen = {} /\ s \in SessionsToDrop
    /\ LET r == session[s]
       IN  RunSession(s, Nil, IF user[r.user] = Nil THEN Begin
                              ELSE session_finalize_and_free(Begin, s, r, user[r.user]))
    /\ dropped' = dropped \cup {s}
    /\ UNCHANGED <<machine, alive, bus, asked>>

Loaded == SessionsToOpen = {} /\ LocksToOpen = {} /\ SessionsToDrop = {}

\* user_may_gc(), drop_not_started not set.
UsersToDrop == {u \in Users \ Lingerers :
                  user[u] # Nil /\ sessionsOf(u) = {} /\ user[u].stopping}

DropUser(u) ==
    /\ pc = "starting"
    /\ Loaded /\ u \in UsersToDrop
    /\ Run(user_finalize_and_free(Begin, u), session, [user EXCEPT ![u] = Nil],
           lock, sessGc, userGc)
    /\ UNCHANGED <<machine, procs>>

\* Mutant: the runtime directory of a known user is taken to be there.
start_user_known(t, u) ==
    IF u \in UsersWithFile THEN user_save_internal(t, u, Running)
    ELSE user_start(t, u, user[u])

start_user(t, u) == user_start(t, u, user[u])

UsersToStart == {u \in Users : user[u] # Nil /\ ~ user[u].started}

StartUser(u) ==
    /\ pc = "starting"
    /\ Loaded /\ UsersToDrop = {} /\ u \in UsersToStart
    /\ Run(start_user(Begin, u), session, [user EXCEPT ![u] = Running],
           lock, sessGc, userGc)
    /\ UNCHANGED <<machine, procs>>

\* A session that was closing is not started again.
SessionsToStart == {s \in Sessions : /\ session[s] # Nil /\ ~ session[s].started
                                     /\ ~ session[s].stopping}

StartSession(s) ==
    /\ pc = "starting"
    /\ Loaded /\ UsersToDrop = {} /\ UsersToStart = {} /\ s \in SessionsToStart
    /\ LET r == [session[s] EXCEPT !.started = TRUE]
           t == user_start(Begin, r.user, user[r.user])
       IN  RunSession(s, r, user_save(session_save(t, s, r), r.user, user[r.user]))
    /\ UNCHANGED <<machine, procs>>

Started == Loaded /\ UsersToDrop = {} /\ UsersToStart = {} /\ SessionsToStart = {}

LocksToStart == {l \in Locks : world.lockFile[l] /\ l \notin lock}

\* inhibitor_start(), and the end of a lock that nobody holds.
StartLock(l) ==
    LET saved == inhibitor_save(Begin, l)
    IN  /\ pc = "starting"
        /\ Started /\ l \in LocksToStart
        /\ IF world.lockFifo[l] = "held"
           THEN Run(saved, session, user, lock \cup {l}, sessGc, userGc)
           ELSE Run(inhibitor_stop(saved, l), session, user, lock, sessGc, userGc)
        /\ UNCHANGED <<machine, procs>>

StartupDone ==
    /\ pc = "starting"
    /\ Started /\ LocksToStart = {}
    /\ pc' = "event"
    /\ UNCHANGED <<machine, cur, memory, world, procs>>

-----------------------------------------------------------------------------
(***************************************************************************)
(* The processes                                                           *)
(***************************************************************************)
LeaderDies(s) ==
    /\ pc = "down" \/ Idle
    /\ s \in alive
    /\ alive' = alive \ {s}
    /\ UNCHANGED <<machine, thread, memory, world, bus, asked, dropped>>

\* The last process that has the writing end of a session's FIFO exits.
FifoWriterGone(s) ==
    /\ pc = "down" \/ Idle
    /\ world.fifo[s] = "held"
    /\ world' = [world EXCEPT !.fifo[s] = "idle"]
    /\ UNCHANGED <<machine, thread, memory, procs>>

LockDropped(l) ==
    /\ pc = "down" \/ Idle
    /\ world.lockFifo[l] = "held"
    /\ world' = [world EXCEPT !.lockFifo[l] = "idle"]
    /\ UNCHANGED <<machine, thread, memory, procs>>

\* A client leaves the bus, and what it controlled is nobody's.
Disconnect(c) ==
    /\ pc = "down" \/ Idle
    /\ c \in bus
    /\ bus' = bus \ {c}
    /\ world' = [world EXCEPT !.control =
                   [s \in Sessions |-> IF world.control[s] = c THEN Nil
                                       ELSE world.control[s]]]
    /\ UNCHANGED <<machine, thread, memory, alive, asked, dropped>>

-----------------------------------------------------------------------------
(***************************************************************************)
(* The specification                                                       *)
(***************************************************************************)
Init ==
    /\ machine \in Machines
    /\ pc = "down" /\ cur = Nil
    /\ session = [s \in Sessions |-> Nil]
    /\ user = [u \in Users |-> Nil]
    /\ lock = {} /\ sessGc = {} /\ userGc = {}
    /\ world = [sessionFile |-> [s \in Sessions |-> Nil],
                userFile    |-> [u \in Users |-> Nil],
                lockFile    |-> [l \in Locks |-> FALSE],
                fifo        |-> [s \in Sessions |-> "none"],
                lockFifo    |-> [l \in Locks |-> "none"],
                runtimeDir  |-> [u \in Users |-> FALSE],
                muted       |-> [s \in Sessions |-> FALSE],
                told        |-> [s \in Sessions |-> "nothing"],
                control     |-> [s \in Sessions |-> Nil]]
    /\ alive = {} /\ bus = machine.clients /\ asked = {} /\ dropped = {}

Next ==
    \/ \E s \in Sessions : \/ \E u \in Users : CreateSession(s, u)
                           \/ \E c \in Clients : TakeControl(s, c)
                           \/ DropController(s)
                           \/ ReleaseSession(s) \/ ReleaseTimeout(s)
                           \/ FifoEof(s) \/ LeaderExit(s) \/ TerminateSession(s)
                           \/ StopNext(s) \/ GcSession(s)
                           \/ ExitSession(s)
                           \/ LoadFifo(s) \/ DropSession(s) \/ StartSession(s)
                           \/ LeaderDies(s) \/ FifoWriterGone(s)
    \/ \E u \in Users : \/ TerminateUser(u) \/ GcUser(u) \/ ExitUser(u)
                        \/ DropUser(u) \/ StartUser(u)
    \/ \E l \in Locks : \/ Inhibit(l) \/ LockEof(l) \/ LockDropped(l)
                        \/ LoadLock(l) \/ StartLock(l)
    \/ \E c \in Clients : Disconnect(c)
    \/ UserStopped
    \/ Crash \/ Exit
    \/ Startup \/ StartupDone

Spec == Init /\ [][Next]_vars

-----------------------------------------------------------------------------
(***************************************************************************)
(* Properties                                                              *)
(***************************************************************************)
\* The variables have their types.
TypeOK ==
    /\ machine \in Machine
    /\ pc \in {"down", "starting", "event", "user_stop", "exiting"}
    /\ cur \in Users \cup {Nil}
    /\ session \in [Sessions -> Session \cup {Nil}]
    /\ user \in [Users -> User \cup {Nil}]
    /\ lock \subseteq Locks /\ sessGc \subseteq Sessions /\ userGc \subseteq Users
    /\ world \in World
    /\ alive \subseteq Sessions /\ bus \subseteq Clients /\ asked \subseteq Sessions
    /\ dropped \subseteq Sessions

\* Whenever the daemon dies, no session file is left without the file of its
\* user: session_load() would refuse it and, at each start, session_finalize()
\* would return before it unlinks it.
UserFileFirst ==
    \A s \in Sessions : world.sessionFile[s] # Nil =>
        world.userFile[world.sessionFile[s].user] # Nil

\* Sessions with a living leader that the daemon must not lose: all but, on a kernel
\* with pidfds, those that manager_startup() has dropped.
Owed == {s \in alive : ~ (machine.pidfd /\ s \in dropped)}

\* A session whose creation was answered and whose leader lives is on disk, with
\* its FIFO unless it was stopped, at every moment the daemon may die; with pidfds,
\* until a start of the daemon drops it.
SavedBeforeReply ==
    \A s \in Owed : world.told[s] = "created" =>
        /\ world.sessionFile[s] # Nil
        /\ world.sessionFile[s].fifo \/ world.sessionFile[s].closing

\* A session whose removal was announced does not come back, neither in memory
\* nor on disk.
RemovedStaysRemoved ==
    \A s \in Sessions : world.told[s] = "removed" =>
        session[s] = Nil /\ world.sessionFile[s] = Nil

Undisturbed(s) ==
    /\ world.told[s] = "created" /\ s \in alive \ asked
    /\ world.fifo[s] = "held"

\* Without pidfds, a session that nobody ended, whose leader lives and whose
\* client holds its FIFO is known and runs whenever the daemon is idle, however
\* often it was restarted.
SessionSurvives ==
    (Idle /\ ~ machine.pidfd) => \A s \in Sessions : Undisturbed(s) =>
        session[s] # Nil /\ session[s].started /\ ~ session[s].stopping

\* When the daemon is idle the files say what it knows: a crash now loses nothing.
SavedWhenIdle ==
    Idle =>
      /\ \A s \in Sessions : world.sessionFile[s] # Nil => session[s] # Nil
      /\ \A s \in Sessions : (session[s] # Nil /\ session[s].started) =>
            LET r == session[s]
                f == world.sessionFile[s]
            IN  /\ f # Nil
                /\ f.user = r.user /\ f.fifo = r.fifo /\ f.controller = r.controller
                /\ r.stopping => f.closing
                /\ f.closing => session_closing(r)
      /\ \A u \in Users : (world.userFile[u] # Nil) = (user[u] # Nil)
      /\ \A l \in Locks : world.lockFile[l] = (l \in lock)

\* What clients were given is theirs whenever the daemon is idle, after a crash
\* too.  One that was given control of a session, has not given it back and is
\* still on the bus is its controller as long as the session is known, unless the
\* daemon has exited meanwhile: manager_free() drops controllers.  A lock whose
\* holder still has it is in force, after an exit too.
ClaimsKept ==
    Idle =>
      /\ \A s \in Sessions :
            (world.control[s] \in Clients /\ session[s] # Nil /\ session[s].started) =>
                session[s].controller = world.control[s]
      /\ \A l \in Locks : world.lockFifo[l] = "held" => l \in lock

\* The user of every session that runs has a runtime directory when the daemon is
\* idle.
RuntimeDirKept ==
    Idle => \A s \in Sessions : (session[s] # Nil /\ session[s].started) =>
        world.runtimeDir[session[s].user]

\* man/elogind.xml: on SIGINT "elogind exits, leaving all sessions and seats in
\* place".
SessionsLeftInPlace ==
    Idle => \A s \in Sessions : Undisturbed(s) => session[s] # Nil
=============================================================================
