---------------------------- MODULE PowerActions ----------------------------
(***************************************************************************)
(* Shutdown and sleep: inhibitors (logind-inhibit.c), the calls that ask   *)
(* for an action and put it off (logind-dbus.c), keys, lid and idle action *)
(* (logind-action.c, logind-button.c, logind.c), the scheduled shutdown,   *)
(* the forked child that carries the action out (sleep.c, and the helper   *)
(* programs of logind-dbus.c) and the SIGCHLD handler (elogind.c).         *)
(*                                                                         *)
(* The daemon is one thread: manager_run() calls manager_dispatch_delayed()*)
(* and then runs one event handler.  The child is a process of its own; it *)
(* asks the daemon by a bus call to tell everybody of a sleep.             *)
(***************************************************************************)
EXTENDS Naturals, FiniteSets, Sequences

CONSTANTS
    Actions,            \* the actions that are asked for
    InhibitorIds,       \* names an inhibitor can have
    Whats,              \* what inhibitors may be about
    Modes,              \* modes of inhibitors in use
    InhibitorsMax,      \* InhibitorsMax= of logind.conf
    DelayMax,           \* InhibitDelayMaxSec= is not zero
    HoldOff,            \* HoldoffTimeoutSec= is not zero
    LidSwitch,          \* HandleLidSwitch=
    LidIgnoreInhibited, \* LidSwitchIgnoreInhibited=
    IdleAction,         \* IdleAction=
    PowerOffInterrupts, \* AllowPowerOffInterrupts= of sleep.conf
    SuspendInterrupts,  \* AllowSuspendInterrupts= of sleep.conf
    SkipInhibitors,     \* callers may override a block inhibitor
    Schedules,          \* shutdowns may be scheduled
    OtherChildren,      \* the daemon has other children, that exit
    ForkMayFail,        \* forking the child may fail
    CallFailures,       \* how the bus calls of the child may fail, an error it ignores
    CallsMax,           \* bound: calls that wait when one more times out
    Pids,               \* names a child process can have
    Nil                 \* the NULL pointer

ShutdownActions == {"poweroff", "reboot", "halt", "kexec"}
SleepActions    == {"suspend", "hibernate", "hybrid-sleep",
                    "suspend-then-hibernate"}

ASSUME PowerAssumption ==
    /\ Actions \subseteq ShutdownActions \cup SleepActions
    /\ Nil \notin ShutdownActions \cup SleepActions
    /\ Nil \notin Pids /\ Nil \notin InhibitorIds
    /\ Whats \subseteq {"shutdown", "sleep", "handle-lid-switch"}
    /\ Modes \subseteq {"block", "block-weak", "delay"}
    /\ InhibitorsMax \in Nat
    /\ LidSwitch \in Actions \cup {"ignore"}
    /\ IdleAction \in Actions \cup {"ignore"}
    /\ {DelayMax, HoldOff, LidIgnoreInhibited, PowerOffInterrupts,
        SuspendInterrupts, SkipInhibitors, Schedules, OtherChildren,
        ForkMayFail} \subseteq BOOLEAN
    /\ CallFailures \subseteq {"unsent", "late"}
    /\ CallsMax \in Nat
    /\ Nil \notin [what : SUBSET Whats, mode : Modes, held : BOOLEAN]
    /\ Nil \notin [act : Actions \cup {"suspend"},
                    at : {"begin", "announce", "sleep", "resume", "post", "exited"}]

VARIABLES
    inhibitors,    \* what, mode, and whether somebody still holds the FIFO
    delayed,       \* m->delayed_action
    job,           \* m->action_job
    forkAct,       \* m->sleep_fork_action
    forkPid,       \* m->sleep_fork_pid
    timer,         \* m->inhibit_timeout_source is armed
    told,          \* argument of the last PrepareFor... signal, by kind
    schedAct,      \* m->scheduled_shutdown_action
    schedTimer, nologinTimer,  \* the two timers of a scheduled shutdown
    dryRun,        \* m->shutdown_dry_run
    nologin,       \* /run/nologin exists
    unlinkNologin, \* m->unlink_nologin
    lidClosed, lidIgnore,      \* b->lid_closed; the lid is ignored for a while
    child,         \* the children: their action, and where they are in it
    calls,         \* SendPrepareForSleep() calls to be handled: the child, the
                   \* argument, and whether the child still waits for the answer
    sigchld,       \* an unread SIGCHLD
    down,          \* the system was told to go down
    pc             \* "dispatch" or "event"

actVars   == <<delayed, job, forkAct, forkPid, timer>>
schedVars == <<schedAct, schedTimer, nologinTimer, dryRun, nologin, unlinkNologin>>
lidVars   == <<lidClosed, lidIgnore>>
procVars  == <<child, calls, sigchld, down>>
vars == <<inhibitors, actVars, told, schedVars, lidVars, procVars, pc>>

-----------------------------------------------------------------------------
(***************************************************************************)
(* Inhibitors                                                              *)
(***************************************************************************)
\* inhibit_what of an action
inhibit_what(a) == IF a \in ShutdownActions THEN "shutdown" ELSE "sleep"

manager_is_inhibited(w, modes) ==
    \E i \in InhibitorIds : /\ inhibitors[i] # Nil
                            /\ w \in inhibitors[i].what
                            /\ inhibitors[i].mode \in modes

\* An event handler; manager_dispatch_delayed() runs next.
Handler == pc = "event" /\ pc' = "dispatch"

\* Mutant: taken although the operation is on its way already.
method_inhibit_late(i, w, m) ==
    /\ Handler
    /\ inhibitors[i] = Nil
    /\ Cardinality({j \in InhibitorIds : inhibitors[j] # Nil}) < InhibitorsMax
    /\ inhibitors' = [inhibitors EXCEPT ![i] = [what |-> w, mode |-> m, held |-> TRUE]]
    /\ UNCHANGED <<actVars, told, schedVars, lidVars, procVars>>

\* method_inhibit(), run again from its start when polkit has answered
method_inhibit(i, w, m) ==
    /\ Handler
    /\ w # {} /\ (m = "delay" => w \subseteq {"shutdown", "sleep"})
    /\ delayed # Nil => inhibit_what(delayed) \notin w
    /\ Cardinality({j \in InhibitorIds : inhibitors[j] # Nil}) < InhibitorsMax
    /\ inhibitors[i] = Nil
    /\ inhibitors' = [inhibitors EXCEPT ![i] = [what |-> w, mode |-> m, held |-> TRUE]]
    /\ UNCHANGED <<actVars, told, schedVars, lidVars, procVars>>

\* inhibitor_dispatch_fifo(): inhibitor_stop() and inhibitor_free()
inhibitor_dispatch_fifo(i) ==
    /\ Handler
    /\ inhibitors[i] # Nil /\ ~ inhibitors[i].held
    /\ inhibitors' = [inhibitors EXCEPT ![i] = Nil]
    /\ UNCHANGED <<actVars, told, schedVars, lidVars, procVars>>

\* The holder closes its end of the FIFO, or dies.
HolderGone(i) ==
    /\ inhibitors[i] # Nil /\ inhibitors[i].held
    /\ inhibitors' = [inhibitors EXCEPT ![i] = [what |-> inhibitors[i].what,
                                                mode |-> inhibitors[i].mode,
                                                held |-> FALSE]]
    /\ UNCHANGED <<actVars, told, schedVars, lidVars, procVars, pc>>

-----------------------------------------------------------------------------
(***************************************************************************)
(* Starting an action, now or later                                        *)
(***************************************************************************)
\* Mutant: the action is not remembered.
execute_ok_forgets(a) ==
    /\ \E c \in Pids : /\ child[c] = Nil
                       /\ child' = [child EXCEPT ![c] = [act |-> a, at |-> "begin"]]
                       /\ forkPid' = c
    /\ forkAct' = a /\ job' = a /\ delayed' = Nil
    /\ lidIgnore' = (lidIgnore \/ HoldOff)

\* execute_shutdown_or_sleep() when the child is forked.  It returns early when
\* sleep_fork_action is set; ActionStateAgrees shows that it never is.
execute_ok(a) ==
    /\ forkAct = Nil
    /\ \E c \in Pids : /\ child[c] = Nil
                       /\ child' = [child EXCEPT ![c] = [act |-> a, at |-> "begin"]]
                       /\ forkPid' = c
    /\ forkAct' = a /\ job' = a /\ delayed' = a
    /\ lidIgnore' = (lidIgnore \/ HoldOff)

\* ... and when it is not, for one because no more processes are to be had; the
\* caller is left with no action.
execute_failed(a) ==
    /\ ForkMayFail \/ \A c \in Pids : child[c] # Nil
    /\ forkAct = Nil
    /\ told' = [told EXCEPT ![inhibit_what(a)] = FALSE]
    /\ delayed' = Nil
    /\ UNCHANGED <<job, forkAct, forkPid, child, lidIgnore>>

\* Whether PrepareFor...(true) is sent at once: not if hooks may interrupt.
announced(a) ==
    IF inhibit_what(a) = "shutdown" THEN ~ PowerOffInterrupts
    ELSE ~ SuspendInterrupts

\* bus_manager_shutdown_or_sleep_now_or_later() and delay_shutdown_or_sleep()
now_or_later(a) ==
    \/ /\ DelayMax /\ manager_is_inhibited(inhibit_what(a), {"delay"})
       /\ told' = [told EXCEPT ![inhibit_what(a)] = @ \/ announced(a)]
       /\ timer' = TRUE
       /\ delayed' = a
       /\ UNCHANGED <<job, forkAct, forkPid, child, lidIgnore>>
    \/ /\ ~ (DelayMax /\ manager_is_inhibited(inhibit_what(a), {"delay"}))
       /\ UNCHANGED timer
       /\ \/ /\ told' = [told EXCEPT ![inhibit_what(a)] = @ \/ announced(a)]
             /\ execute_ok(a)
          \/ execute_failed(a)

\* manager_dispatch_delayed() once its early returns are past
dispatch_delayed ==
    /\ UNCHANGED <<inhibitors, schedVars, lidClosed, calls, sigchld, down>>
    /\ \/ execute_ok(delayed) /\ UNCHANGED told
       \/ execute_failed(delayed)

\* Mutant: delay inhibitors are not looked at.
Dispatch_uninhibited ==
    /\ pc = "dispatch"
    /\ delayed # Nil /\ job = Nil
    /\ dispatch_delayed
    /\ UNCHANGED <<timer, pc>>

Dispatch ==
    /\ pc = "dispatch"
    /\ delayed # Nil /\ job = Nil
    /\ ~ manager_is_inhibited(inhibit_what(delayed), {"delay"})
    /\ dispatch_delayed
    /\ UNCHANGED <<timer, pc>>

DispatchNothing ==
    /\ pc = "dispatch"
    /\ \/ delayed = Nil \/ job # Nil
       \/ manager_is_inhibited(inhibit_what(delayed), {"delay"})
    /\ pc' = "event"
    /\ UNCHANGED <<inhibitors, actVars, told, schedVars, lidVars, procVars>>

\* manager_inhibit_timeout_handler()
InhibitTimeout ==
    /\ Handler
    /\ timer /\ timer' = FALSE
    /\ IF delayed # Nil /\ job = Nil THEN dispatch_delayed
       ELSE UNCHANGED <<inhibitors, delayed, job, forkAct, forkPid, told, schedVars,
                        lidVars, procVars>>

-----------------------------------------------------------------------------
(***************************************************************************)
(* Who asks for an action                                                  *)
(***************************************************************************)
\* reset_scheduled_shutdown(), with unlink_nologin as given
reset_scheduled_shutdown(unlink) ==
    /\ schedTimer' = FALSE /\ nologinTimer' = FALSE
    /\ schedAct' = Nil /\ dryRun' = FALSE
    /\ nologin' = (nologin /\ ~ unlink)
    /\ unlinkNologin' = FALSE

\* verify_shutdown_creds(): a block inhibitor is overridden by callers that may;
\* a weak one, and other sessions, leave it to polkit, which may consent.
verify_shutdown_creds(a, skip) ==
    manager_is_inhibited(inhibit_what(a), {"block"}) => skip

\* Mutant: an action on its way already is not looked at.
Request_busy(a, skip) ==
    /\ Handler
    /\ verify_shutdown_creds(a, skip)
    /\ schedTimer' = FALSE /\ nologinTimer' = FALSE
    /\ schedAct' = a /\ dryRun' = FALSE
    /\ unlinkNologin' = FALSE
    /\ now_or_later(a)
    /\ UNCHANGED <<inhibitors, nologin, lidClosed, calls, sigchld, down>>

\* Mutant: the timers of a scheduled shutdown run on.
Request_timers(a, skip) ==
    /\ Handler
    /\ verify_shutdown_creds(a, skip)
    /\ delayed = Nil
    /\ schedAct' = a /\ dryRun' = FALSE
    /\ unlinkNologin' = FALSE
    /\ now_or_later(a)
    /\ UNCHANGED <<inhibitors, schedTimer, nologinTimer, nologin, lidClosed, calls,
                   sigchld, down>>

\* method_do_shutdown_or_sleep(): a scheduled shutdown is dropped, but its
\* /run/nologin is kept.
Request(a, skip) ==
    /\ Handler
    /\ skip => SkipInhibitors
    /\ verify_shutdown_creds(a, skip)
    /\ delayed = Nil
    /\ schedTimer' = FALSE /\ nologinTimer' = FALSE
    /\ schedAct' = a /\ dryRun' = FALSE
    /\ unlinkNologin' = FALSE
    /\ now_or_later(a)
    /\ UNCHANGED <<inhibitors, nologin, lidClosed, calls, sigchld, down>>

\* Mutant: "ignore" is carried out like any other action.
handle_action_execute_ignore(a, ignoreInhibited) ==
    /\ delayed = Nil
    /\ \/ ignoreInhibited
       \/ ~ manager_is_inhibited(inhibit_what(a), {"block", "block-weak"})
    /\ now_or_later(a)

\* handle_action_execute() for a key, the lid or the idle action; an action that
\* is refused changes nothing.
handle_action_execute(a, ignoreInhibited) ==
    /\ a # "ignore"
    /\ delayed = Nil
    /\ \/ ignoreInhibited
       \/ ~ manager_is_inhibited(inhibit_what(a), {"block", "block-weak"})
    /\ now_or_later(a)

handle_action_refused(a, ignoreInhibited) ==
    /\ \/ a = "ignore"
       \/ delayed # Nil
       \/ /\ ~ ignoreInhibited
          /\ manager_is_inhibited(inhibit_what(a), {"block", "block-weak"})
    /\ UNCHANGED <<actVars, told, child, lidIgnore>>

\* manager_handle_action() for the lid switch.  Whether the session of an
\* inhibitor is active, and so counts, is left open.
lid_action ==
    \/ lidIgnore /\ UNCHANGED <<actVars, told, child, lidIgnore>>
    \/ /\ manager_is_inhibited("handle-lid-switch", {"block", "block-weak"})
       /\ UNCHANGED <<actVars, told, child, lidIgnore>>
    \/ /\ ~ lidIgnore
       /\ \/ handle_action_execute(LidSwitch, LidIgnoreInhibited)
          \/ handle_action_refused(LidSwitch, LidIgnoreInhibited)

\* button_dispatch() for SW_LID, and button_recheck() while the lid is closed
LidCloses ==
    /\ Handler
    /\ ~ lidClosed /\ lidClosed' = TRUE
    /\ lid_action
    /\ UNCHANGED <<inhibitors, schedVars, calls, sigchld, down>>

LidRecheck ==
    /\ Handler
    /\ lidClosed
    /\ lid_action
    /\ UNCHANGED <<inhibitors, schedVars, lidClosed, calls, sigchld, down>>

LidOpens ==
    /\ Handler
    /\ lidClosed /\ lidClosed' = FALSE
    /\ UNCHANGED <<inhibitors, actVars, told, schedVars, lidIgnore, procVars>>

\* lid_switch_ignore_handler()
LidHoldOffEnds ==
    /\ Handler
    /\ lidIgnore /\ lidIgnore' = FALSE
    /\ UNCHANGED <<inhibitors, actVars, told, schedVars, lidClosed, procVars>>

\* manager_dispatch_idle_action() when the system has been idle for long enough
Idle ==
    /\ Handler
    /\ handle_action_execute(IdleAction, FALSE)
    /\ UNCHANGED <<inhibitors, schedVars, lidClosed, calls, sigchld, down>>

-----------------------------------------------------------------------------
(***************************************************************************)
(* The scheduled shutdown                                                  *)
(***************************************************************************)
\* method_schedule_shutdown()
ScheduleShutdown(a, dry) ==
    /\ Handler
    /\ Schedules
    /\ a \in ShutdownActions
    /\ verify_shutdown_creds(a, FALSE)
    /\ schedAct' = a /\ dryRun' = dry
    /\ schedTimer' = TRUE /\ nologinTimer' = TRUE
    /\ UNCHANGED <<inhibitors, actVars, told, nologin, unlinkNologin, lidVars, procVars>>

\* nologin_timeout_handler()
NologinTimeout ==
    /\ Handler
    /\ nologinTimer /\ nologinTimer' = FALSE
    /\ nologin' = TRUE /\ unlinkNologin' = TRUE
    /\ UNCHANGED <<inhibitors, actVars, told, schedAct, schedTimer, dryRun, lidVars,
                   procVars>>

\* manager_scheduled_shutdown_handler()
ScheduledShutdown ==
    /\ Handler
    /\ schedTimer
    /\ UNCHANGED <<inhibitors, lidClosed, calls, sigchld, down>>
    /\ \/ /\ delayed # Nil \/ dryRun
          /\ reset_scheduled_shutdown(unlinkNologin)
          /\ UNCHANGED <<actVars, told, lidIgnore, child>>
       \/ /\ delayed = Nil /\ ~ dryRun
          /\ now_or_later(schedAct)
          /\ IF delayed' = Nil THEN reset_scheduled_shutdown(unlinkNologin)
             ELSE /\ schedTimer' = FALSE
                  /\ UNCHANGED <<schedAct, nologinTimer, dryRun, nologin, unlinkNologin>>

\* Mutant: an action that runs is forgotten, too.
cancel_delayed_action_any == timer' = FALSE /\ delayed' = Nil

cancel_delayed_action ==
    /\ timer' = FALSE
    /\ delayed' = IF job = Nil THEN Nil ELSE delayed

\* method_cancel_scheduled_shutdown() when there is something to cancel
CancelScheduledShutdown ==
    /\ Handler
    /\ schedAct # Nil
    /\ cancel_delayed_action
    /\ reset_scheduled_shutdown(unlinkNologin)
    /\ UNCHANGED <<inhibitors, job, forkAct, forkPid, told, lidVars, procVars>>

-----------------------------------------------------------------------------
(***************************************************************************)
(* The child, and what the daemon hears of it                              *)
(***************************************************************************)
ChildAt(c, at) == child[c] # Nil /\ child[c].at = at

ChildGoes(c, at) ==
    child' = [child EXCEPT ![c] = [act |-> child[c].act, at |-> at]]

\* Where the child goes on after prepare_for_sleep(active), whatever it returned.
Prepared(active) == IF active THEN "sleep" ELSE "post"

\* method_send_prepare_for_sleep(); a caller that still waits goes on when it is
\* answered.
SendPrepareForSleep ==
    /\ Handler
    /\ calls # <<>>
    /\ told' = [told EXCEPT !["sleep"] = Head(calls).active]
    /\ calls' = Tail(calls)
    /\ IF Head(calls).open THEN ChildGoes(Head(calls).pid, Prepared(Head(calls).active))
       ELSE UNCHANGED child
    /\ UNCHANGED <<inhibitors, actVars, schedVars, lidVars, sigchld, down>>

\* Mutant: the end of the child of a sleep leaves the action in place.
sigchld_forgets ==
    /\ Handler
    /\ sigchld /\ sigchld' = FALSE
    /\ forkPid' = IF forkPid # Nil /\ child[forkPid].at = "exited" THEN Nil ELSE forkPid
    /\ UNCHANGED <<inhibitors, delayed, job, forkAct, timer, told, schedVars, lidVars,
                   child, calls, down>>

\* elogind_sigchld_handler().  When waitpid() finds the child running it leaves
\* status uninitialised, so that the pid may be forgotten or not.  Whatever child
\* exited, a sleep is taken to be over.
SigChld ==
    /\ Handler
    /\ sigchld /\ sigchld' = FALSE
    /\ IF forkPid # Nil /\ child[forkPid].at = "exited"
       THEN forkPid' = Nil /\ child' = [child EXCEPT ![forkPid] = Nil]
       ELSE forkPid' \in {Nil, forkPid} /\ UNCHANGED child
    /\ IF forkPid # Nil /\ forkAct \in SleepActions
       THEN /\ told' = [told EXCEPT !["sleep"] = FALSE]
            /\ job' = Nil /\ delayed' = Nil /\ forkAct' = Nil
       ELSE UNCHANGED <<told, job, delayed, forkAct>>
    /\ UNCHANGED <<inhibitors, timer, schedVars, lidVars, calls, down>>

\* What the daemon does not see of the children.
daemonVars == <<inhibitors, actVars, told, schedVars, lidVars, pc>>

ChildExits(c) ==
    /\ ChildGoes(c, "exited")
    /\ sigchld' = TRUE

\* elogind_run_helper(): the hooks may cancel the shutdown; otherwise the helper
\* program is run, if it can be.  The PrepareForShutdown(true) it then sends is lost, as the
\* child may not use its parent's bus connection.
RunHelper(c) ==
    /\ ChildAt(c, "begin") /\ child[c].act \in ShutdownActions
    /\ \/ down' = TRUE
       \/ (PowerOffInterrupts \/ ForkMayFail) /\ UNCHANGED down
    /\ ChildExits(c)
    /\ UNCHANGED <<daemonVars, calls>>

\* prepare_for_sleep(), with the child then at the point it waits at: the call is
\* sent, or the bus cannot be reached and the child goes on at once.
prepare_for_sleep(c, active, waits) ==
    \/ /\ ChildGoes(c, waits)
       /\ calls' = Append(calls, [pid |-> c, active |-> active, open |-> TRUE])
    \/ /\ "unsent" \in CallFailures
       /\ ChildGoes(c, Prepared(active))
       /\ UNCHANGED calls

\* ... and its sd_bus_call() runs into DEFAULT_TIMEOUT_USEC: the child goes on, and
\* the daemon handles the call all the same, later.
CallTimesOut(c) ==
    /\ "late" \in CallFailures
    /\ Len(calls) <= CallsMax
    /\ \E n \in DOMAIN calls :
          /\ calls[n].pid = c /\ calls[n].open
          /\ calls' = [calls EXCEPT ![n] = [pid |-> c, active |-> calls[n].active,
                                            open |-> FALSE]]
          /\ ChildGoes(c, Prepared(calls[n].active))
    /\ UNCHANGED <<daemonVars, sigchld, down>>

\* execute() up to prepare_for_sleep(true)
SleepHooks(c) ==
    /\ ChildAt(c, "begin") /\ child[c].act \in SleepActions
    /\ prepare_for_sleep(c, TRUE, "announce")
    /\ UNCHANGED <<daemonVars, sigchld, down>>

\* execute() gives up early, or hooks cancel it; do_sleep() falls back from hybrid
\* sleep to suspend.
SleepFails(c) ==
    /\ ChildAt(c, "begin") /\ child[c].act \in SleepActions
    /\ IF child[c].act = "hybrid-sleep"
       THEN /\ child' = [child EXCEPT ![c] = [act |-> "suspend", at |-> "begin"]]
            /\ UNCHANGED sigchld
       ELSE ChildExits(c)
    /\ UNCHANGED <<daemonVars, calls, down>>

\* Mutant: nobody is told that the system is back.
Sleep_silent(c) ==
    /\ ChildAt(c, "sleep")
    /\ ChildGoes(c, "post")
    /\ UNCHANGED <<daemonVars, calls, sigchld, down>>

\* The system sleeps and wakes up; then prepare_for_sleep(false).
Sleep(c) ==
    /\ ChildAt(c, "sleep")
    /\ prepare_for_sleep(c, FALSE, "resume")
    /\ UNCHANGED <<daemonVars, sigchld, down>>

\* The execute() that may follow: hybrid sleep failed and is followed by suspend,
\* or the next suspend or the hibernation of suspend-then-hibernate.
Again(c) == IF child[c].act = "hybrid-sleep" THEN {"suspend"}
            ELSE {child[c].act} \cap {"suspend-then-hibernate"}

\* The hooks have run.
SleepDone(c) ==
    /\ ChildAt(c, "post")
    /\ \/ ChildExits(c)
       \/ /\ \E a \in Again(c) : child' = [child EXCEPT ![c] = [act |-> a, at |-> "begin"]]
          /\ UNCHANGED sigchld
    /\ UNCHANGED <<daemonVars, calls, down>>

\* Another child of the daemon exits, one that sets the brightness of a device.
OtherChildExits ==
    /\ OtherChildren
    /\ ~ sigchld /\ sigchld' = TRUE
    /\ UNCHANGED <<daemonVars, child, calls, down>>

-----------------------------------------------------------------------------
(***************************************************************************)
(* The specification                                                       *)
(***************************************************************************)
Kinds == {"shutdown", "sleep"}

Init ==
    /\ inhibitors = [i \in InhibitorIds |-> Nil]
    /\ delayed = Nil /\ job = Nil /\ forkAct = Nil /\ forkPid = Nil
    /\ timer = FALSE
    /\ told = [k \in Kinds |-> FALSE]
    /\ schedAct = Nil /\ schedTimer = FALSE /\ nologinTimer = FALSE
    /\ dryRun = FALSE /\ nologin = FALSE /\ unlinkNologin = FALSE
    /\ lidClosed = FALSE /\ lidIgnore = HoldOff
    /\ child = [c \in Pids |-> Nil] /\ calls = <<>>
    /\ sigchld = FALSE /\ down = FALSE
    /\ pc = "dispatch"

EventHandler ==
    \/ \E i \in InhibitorIds :
          \/ \E w \in SUBSET Whats, m \in Modes : method_inhibit(i, w, m)
          \/ inhibitor_dispatch_fifo(i)
    \/ \E a \in Actions : \/ \E skip \in BOOLEAN : Request(a, skip)
                          \/ \E dry \in BOOLEAN : ScheduleShutdown(a, dry)
    \/ LidCloses \/ LidRecheck \/ LidOpens \/ LidHoldOffEnds \/ Idle
    \/ NologinTimeout \/ ScheduledShutdown \/ CancelScheduledShutdown

\* The steps the daemon owes: what it put off, and what its children tell it.
Progress ==
    \/ Dispatch \/ DispatchNothing
    \/ InhibitTimeout \/ SendPrepareForSleep \/ SigChld

ChildStep(c) ==
    \/ RunHelper(c) \/ SleepHooks(c) \/ SleepFails(c) \/ Sleep(c) \/ SleepDone(c)
    \/ CallTimesOut(c)

Environment ==
    \/ \E i \in InhibitorIds : HolderGone(i)
    \/ \E c \in Pids : ChildStep(c)
    \/ OtherChildExits

Next == EventHandler \/ Progress \/ Environment

Spec == Init /\ [][Next]_vars

\* The thread runs on, the kernel runs the child, and sd-event serves a timer
\* that has elapsed, a bus call and a signal that stay pending.
FairSpec ==
    /\ Spec
    /\ WF_vars(Dispatch \/ DispatchNothing)
    /\ SF_vars(InhibitTimeout) /\ SF_vars(SendPrepareForSleep) /\ SF_vars(SigChld)
    /\ \A c \in Pids : WF_vars(ChildStep(c))

-----------------------------------------------------------------------------
(***************************************************************************)
(* Properties                                                              *)
(***************************************************************************)
Inhibitor  == [what : SUBSET Whats, mode : Modes, held : BOOLEAN]
ChildState == [act : Actions \cup {"suspend"},
               at : {"begin", "announce", "sleep", "resume", "post", "exited"}]
Call       == [pid : Pids, active : BOOLEAN, open : BOOLEAN]
MaybeAction == Actions \cup {Nil}

\* Every variable has its type.
TypeOK ==
    /\ inhibitors \in [InhibitorIds -> Inhibitor \cup {Nil}]
    /\ delayed \in MaybeAction /\ job \in MaybeAction /\ forkAct \in MaybeAction
    /\ forkPid \in Pids \cup {Nil} /\ timer \in BOOLEAN
    /\ told \in [Kinds -> BOOLEAN]
    /\ schedAct \in MaybeAction /\ schedTimer \in BOOLEAN /\ nologinTimer \in BOOLEAN
    /\ dryRun \in BOOLEAN /\ nologin \in BOOLEAN /\ unlinkNologin \in BOOLEAN
    /\ lidClosed \in BOOLEAN /\ lidIgnore \in BOOLEAN
    /\ child \in [Pids -> ChildState \cup {Nil}]
    /\ calls \in Seq(Call)
    /\ sigchld \in BOOLEAN /\ down \in BOOLEAN
    /\ pc \in {"dispatch", "event"}

\* delayed_action, action_job and sleep_fork_action tell the same story, so that
\* the assertions on action_job hold wherever an action is started, and
\* manager_dispatch_delayed() never finds a child in the way of a delayed action,
\* which would make manager_run() spin.
ActionStateAgrees ==
    /\ job = forkAct
    /\ job # Nil => delayed = job

\* An action that was put off has the timeout that ends the delay.
DelayBounded == delayed # Nil /\ job = Nil => timer

\* A timer of a scheduled shutdown never finds the action gone: the assertion of
\* manager_scheduled_shutdown_handler() holds.
ScheduleValid == schedTimer => schedAct \in ShutdownActions

\* Started: a step forks the child of an action.
Starts(a) == job = Nil /\ job' = a /\ a # Nil

\* No action is started below a block inhibitor, though it was checked for only
\* when the action was asked for, and the action may have been put off since.
BlockRespected ==
    [][\A a \in Actions :
          Starts(a) => ~ manager_is_inhibited(inhibit_what(a), {"block"})]_vars

\* Below a delay inhibitor an action is started by the timeout only, unless
\* InhibitDelayMaxSec= is zero.
DelayRespected ==
    [][\A a \in Actions :
          DelayMax /\ Starts(a) /\ manager_is_inhibited(inhibit_what(a), {"delay"})
              => timer /\ ~ timer']_vars

\* Somebody will take PrepareForSleep(true) back: the daemon wants the sleep and
\* hears of its end, a child has the other call yet to make, or made it.
WakeOwed ==
    \/ delayed \in SleepActions
    \/ \E c \in Pids : ChildAt(c, "announce") \/ ChildAt(c, "sleep")
    \/ \E n \in DOMAIN calls : ~ calls[n].active

\* PrepareForSleep(true) is taken back, whoever sent it, in whatever order calls and
\* SIGCHLDs are handled, and when calls time out.  It is left standing only by a
\* delayed sleep that is cancelled, by a child whose PrepareForSleep(false) cannot be
\* sent, or, where that may happen, by a call that is handled after its child has gone on.
WakeIsTold ==
    [][told'["sleep"] /\ ~ WakeOwed' =>
          \/ told["sleep"] /\ ~ WakeOwed
          \/ delayed \in SleepActions /\ job = Nil /\ delayed' = Nil
          \/ /\ "unsent" \in CallFailures
             /\ \/ \E c \in Pids : ChildAt(c, "sleep") /\ child'[c].at = "post"
                \/ calls # <<>> /\ ~ Head(calls).open /\ calls' = Tail(calls)]_vars

\* One action at a time, delayed or running, that nothing replaces: what
\* method_do_shutdown_or_sleep() and the others rely on delayed_action for.
Protocol == INSTANCE ActionProtocol
              WITH phase <- IF job # Nil THEN "running"
                            ELSE IF delayed # Nil THEN "delayed" ELSE "idle",
                   action <- delayed
OneActionWanted == Protocol!Spec

\* A sleep comes to its end, and with it the state in which requests and locks are
\* refused, however long delay inhibitors are held.
SleepEnds ==
    \A a \in SleepActions : delayed = a ~> delayed # a

\* "Save the action to prevent another request of shutdown or friends before the
\* current action being finished": there is one child at work at a time.
OneChild ==
    \A c, d \in Pids : /\ child[c] # Nil /\ child[c].at # "exited"
                       /\ child[d] # Nil /\ child[d].at # "exited"
                       => c = d

\* "The system %s has been cancelled!": then the daemon is ready for the next one.
ActionEnds == delayed # Nil ~> delayed = Nil \/ down

=============================================================================
