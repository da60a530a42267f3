----------------------------- MODULE MCProgress -----------------------------
(***************************************************************************)
(* What must eventually happen, in one model: a behaviour is a behaviour   *)
(* of one part of the daemon (Brightness, Logind, PowerActions,            *)
(* SessionDevices or EventLoop, on an instance small enough for a liveness *)
(* check) while the others stay in their initial state.  The names of one  *)
(* part that another uses as well have a letter in front.                  *)
(***************************************************************************)
EXTENDS Brightness

CONSTANTS s1, s2, u1, seat0, i1, p1, c1, e1, e2, e3

VARIABLES
    part,
    \* Logind
    info, order, position, started, stopping, timer, watch, fifo, alive,
    populated, seats, master, active, pending, positions, fgVT, console, users,
    uStarted, uStopping, byPin, stamped, uTimer, linger, runtimeDir, display,
    seatGc, sessGc, userGc, cgEvent, pc, cur, todo,
    \* PowerActions
    inhibitors, delayed, job, forkAct, forkPid, pTimer, told, schedAct,
    schedTimer, nologinTimer, dryRun, nologin, unlinkNologin, lidClosed,
    lidIgnore, pChild, calls, sigchld, down, pPc,
    \* SessionDevices
    machine, list, dStopping, vt, dActive, dPending, controller, track, vtfd,
    sd, known, dFgVT, dConsole, mode, want, sigrt, fds, foreign, present, udev,
    bus, gone, dTold,
    \* EventLoop
    setup, sources, enabled, ratelimited, window, ePending, before, fresh,
    prepared, ePc, dispatching, exitRequested, threshold, minPriority, sleep,
    needChild, ready, passed, early

TheSessions == INSTANCE Logind
    WITH SessionIds <- {s1, s2}, Uids <- {u1}, Seats <- {seat0}, Seat0 <- seat0,
         Classes <- {"user"}, Types <- {"tty"}, MaxVT <- 1, MaxPos <- 1,
         SessionsMax <- 2, UserStopDelay <- "zero", StopIdle <- FALSE,
         Lingerers <- {}, Repopulates <- FALSE, StartMayFail <- FALSE

ThePower == INSTANCE PowerActions
    WITH Actions <- {"suspend", "hybrid-sleep"}, InhibitorIds <- {i1},
         Whats <- {"shutdown", "sleep"}, Modes <- {"delay"}, InhibitorsMax <- 2,
         DelayMax <- TRUE, HoldOff <- FALSE, LidSwitch <- "ignore",
         LidIgnoreInhibited <- FALSE, IdleAction <- "ignore",
         PowerOffInterrupts <- FALSE, SuspendInterrupts <- FALSE,
         SkipInhibitors <- FALSE, Schedules <- FALSE, OtherChildren <- FALSE,
         ForkMayFail <- FALSE, CallFailures <- {"late", "unsent"}, CallsMax <- 1,
         Pids <- {p1},
         timer <- pTimer, child <- pChild, pc <- pPc

TheDevices == INSTANCE SessionDevices
    WITH Sessions <- {s1, s2}, Clients <- {c1}, Root <- {c1}, DRM <- {},
         Evdev <- {}, MaxVT <- 2, MaxSignals <- 1,
         Machines <- {[vts |-> TRUE, devices |-> {}, hotplug |-> {},
                       shared |-> {}]},
         stopping <- dStopping, active <- dActive, pending <- dPending,
         fgVT <- dFgVT, console <- dConsole, told <- dTold

\* Three sources, as the daemon sets them up.
SetUp(type, priority, prepares, limited, churn) ==
    [type |-> [s \in {e1, e2, e3} |-> CASE s = e1 -> type[1] [] s = e2 -> type[2]
                                        [] s = e3 -> type[3]],
     priority |-> [s \in {e1, e2, e3} |-> CASE s = e1 -> priority[1]
                                            [] s = e2 -> priority[2]
                                            [] s = e3 -> priority[3]],
     prepares |-> prepares, limited |-> limited, churn |-> churn]

\* Descriptors, one with a rate limit, and a time.
Descriptors == SetUp(<<"io", "io", "time">>, <<0, 0, 0>>, {}, {e2}, {e3})
\* The FIFO of a session, a writer of the brightness, and SIGCHLD.
Children    == SetUp(<<"io", "child", "sigchld">>, <<0, 1, 1>>, {}, {}, {e2})
\* SIGTERM, a button that is checked after every event, and the bus.
Exits       == SetUp(<<"signal", "post", "exit">>, <<0, 1, 0>>, {}, {}, {e2})
\* A bus with a prepare callback, a deferred source, and a writer with a pidfd.
Prepares    == SetUp(<<"io", "defer", "pidfd">>, <<0, 0, 1>>, {e1}, {}, {e2})

TheEvents == INSTANCE EventLoop
    WITH Sources <- {e1, e2, e3},
         Setups <- {Descriptors, Children, Exits, Prepares},
         pending <- ePending, pc <- ePc

sessionVars ==
    <<info, order, position, started, stopping, timer, watch, fifo, alive,
      populated, seats, master, active, pending, positions, fgVT, console, users,
      uStarted, uStopping, byPin, stamped, uTimer, linger, runtimeDir, display,
      seatGc, sessGc, userGc, cgEvent, pc, cur, todo>>
powerVars ==
    <<inhibitors, delayed, job, forkAct, forkPid, pTimer, told, schedAct,
      schedTimer, nologinTimer, dryRun, nologin, unlinkNologin, lidClosed,
      lidIgnore, pChild, calls, sigchld, down, pPc>>
deviceVars ==
    <<machine, list, dStopping, vt, dActive, dPending, controller, track, vtfd,
      sd, known, dFgVT, dConsole, mode, want, sigrt, fds, foreign, present, udev,
      bus, gone, dTold>>
eventVars ==
    <<setup, sources, enabled, ratelimited, window, ePending, before, fresh,
      prepared, ePc, dispatching, exitRequested, threshold, minPriority, sleep,
      needChild, ready, passed, early>>
ProgressVars == <<part, vars, sessionVars, powerVars, deviceVars, eventVars>>

ProgressInit ==
    /\ part \in {"brightness", "sessions", "power", "devices", "events"}
    /\ Init /\ TheSessions!Init /\ ThePower!Init /\ TheDevices!Init
    /\ TheEvents!Init
    /\ part = "events" \/ setup = Descriptors

ProgressNext ==
    /\ UNCHANGED part
    /\ \/ /\ part = "brightness"
          /\ Next
          /\ UNCHANGED <<sessionVars, powerVars, deviceVars, eventVars>>
       \/ /\ part = "sessions"
          /\ TheSessions!Next
          /\ UNCHANGED <<vars, powerVars, deviceVars, eventVars>>
       \/ /\ part = "power"
          /\ ThePower!Next
          /\ UNCHANGED <<vars, sessionVars, deviceVars, eventVars>>
       \/ /\ part = "devices"
          /\ TheDevices!Next
          /\ UNCHANGED <<vars, sessionVars, powerVars, eventVars>>
       \/ /\ part = "events"
          /\ TheEvents!Next
          /\ UNCHANGED <<vars, sessionVars, powerVars, deviceVars>>

\* The fairness of each part, while it is the one that moves.
BrightnessFairness ==
    WF_vars(ChildWrites) /\ WF_vars(on_brightness_writer_exit)

SessionsFairness == WF_sessionVars(part = "sessions" /\ TheSessions!Collect)

PowerFairness ==
    /\ WF_powerVars(part = "power"
                      /\ (ThePower!Dispatch \/ ThePower!DispatchNothing))
    /\ SF_powerVars(part = "power" /\ ThePower!InhibitTimeout)
    /\ SF_powerVars(part = "power" /\ ThePower!SendPrepareForSleep)
    /\ SF_powerVars(part = "power" /\ ThePower!SigChld)
    /\ WF_powerVars(part = "power" /\ ThePower!ChildStep(p1))

DevicesFairness == WF_deviceVars(part = "devices" /\ TheDevices!VtSwitch)

EventsFairness == WF_eventVars(part = "events" /\ TheEvents!Iterate)

ProgressSpec ==
    /\ ProgressInit /\ [][ProgressNext]_ProgressVars
    /\ BrightnessFairness /\ SessionsFairness /\ PowerFairness /\ DevicesFairness
    /\ EventsFairness

\* A handler that stops sessions, and the collection after it, come to an end:
\* the daemon always gets back to its event loop.
GcTerminates == TheSessions!GcTerminates

\* A sleep comes to its end, however long delay inhibitors are held.
SleepEnds == ThePower!SleepEnds

\* A VT that is asked to make way is answered: nobody is locked into the
\* foreground VT.
SwitchAnswered == TheDevices!SwitchAnswered

\* Of sources with the same priority that wait together, none is dispatched again
\* before each of the others has been; deferred ones are excepted.
FairWithinPriority == TheEvents!FairWithinPriority

\* What a child's exit is the consequence of is dispatched before the exit, if it
\* is more important.
CauseBeforeExit == TheEvents!CauseBeforeExit

\* A source that waits is dispatched: the loop neither starves a source nor falls
\* asleep over it.
Served == TheEvents!Served
=============================================================================
