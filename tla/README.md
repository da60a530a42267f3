# A TLA+ verification project for elogind

elogind is the login manager of systemd as a daemon of its own.  This directory
holds TLA+ models of the daemon's core, the TLC configurations that check them,
and proofs that TLAPS checks.  `PROJECT.json` lists components, runs, mutants,
the source lines behind every definition, hazards, findings and theorems.

## 1. The system

One thread does all the work: `manager_run()` collects garbage, runs what was
delayed, and then one event handler of sd-event: a bus call, a timer, a file
descriptor, a signal.  Handlers never interrupt each other; what is concurrent
is the rest of the world (session leaders, holders of FIFOs, the kernel's VTs
and cgroups, udev, forked children), whose events arrive in any order and late.

| Part | State | Operations | What is hard |
|---|---|---|---|
| Sessions (`logind-session.c`) | user, class, type, seat, VT, position; `started`, `stopping`; release timer; leader pidfd; FIFO; cgroup | create, start, release, stop, finalize, free | four ways to be stopped, in any order; failing halfway through creation |
| Seats (`logind-seat.c`, `logind-device.c`) | master devices, `active`, `pending_switch`, `positions` | attach, claim and evict a position, switch, VT change, stop, free | the VT changes before the daemon hears of it; a seat is unplugged below its sessions |
| Users (`logind-user.c`) | `started`, `stopping`, `gc_mode`, last-session stamp, stop timer, linger file, runtime directory, `display` | start, stop, elect display, finalize, free | logins that race the stop timer; start that fails |
| Collector (`logind.c`) | three queues | `manager_gc()` | it frees what others point to, and queues while it collects |
| cgroup notifications (`core/cgroup.c`) | one watch per session | `session_check_cgroup_events()` | cancels a release, or asks for one, at any time |
| Inhibitors (`logind-inhibit.c`) | what, mode, FIFO | take, drop | checked at one time, used at another |
| Shutdown and sleep (`logind-dbus.c`, `elogind.c`) | `delayed_action`, `action_job`, `sleep_fork_action`, `sleep_fork_pid`, delay timeout | request, delay, dispatch, time out, fork, SIGCHLD | four copies of one fact; a child that talks back over the bus |
| Scheduled shutdown (`logind-dbus.c`) | action, two timers, dry run, `/run/nologin` | schedule, cancel, fire | overtaken by requests |
| Lid, keys, idle (`logind-action.c`, `logind-button.c`) | lid closed, hold-off timer | close, open, recheck, idle | asks again and again for an action in progress |
| Sleep executor (`sleep.c`) | where the child is | hooks, announce, sleep, resume, repeat | runs beside the daemon |
| Brightness (`logind-brightness.c`) | per device: value, `again`, two sets of messages, child | write, child exit | coalescing, answers in order |
| Session devices (`logind-session-device.c`, controller and VT functions of `logind-session.c`) | controller and its bus track, devices taken, VT held open and muted | take and release control and devices, pause, resume, acknowledge, unplug | a controller that may die or be replaced, two sessions on one VT, signals and events read late |
| State files (`*_save()`, `*_load()`, `manager_startup()`, `manager_free()`) | `/run/systemd/{sessions,users,inhibit}` and the FIFOs | save, load, restart | files written one by one; memory, files and processes disagree after a crash |
| Event loop (`sd-event.c`) | sources with type, priority, mode, rate limit; who is pending and since which iteration; `need_process_child` | add, free, enable, prepare, wait, dispatch, exit | decides what to wait for before it asks the kernel, in two system calls; order within a priority |

PAM, `loginctl` and `elogind-inhibit` are clients of the bus API.  sd-bus and the
basic and shared libraries are vendored from systemd, as is sd-event, on whose
promises every other model rests.

What makes each part correct:

* sessions, seats, users, collector: nothing refers to what was freed; nothing
  that is still needed is freed; nothing that is no longer needed is kept; a slot
  of a seat, the active session and a user's primary session follow from what
  else is there; the collector ends.
* shutdown and sleep: one action at a time; it runs or is given up; locks are
  respected; everybody is told before, and told when it is over.
* brightness: no message unanswered, none answered too early, the newest wins.
* session devices: descriptors work in the session in the foreground and in no
  other; the controller knows which of its devices run; a controller leaves
  nothing behind; a VT can always be left.
* state files: what a client was promised is on disk when it is promised, and in
  force after a restart; what was removed does not come back.
* event loop: whatever waits is served, in turn within a priority; what a child did
  before it exited is seen before its exit.

## 2. Modules

| Module | Models |
|---|---|
| `Lists` | the linked lists of `basic/list.h`, as sequences |
| `Lists_proofs` | what adding to, removing from and searching a list gives |
| `Logind` | sessions, seats, users, collector, VT switches, cgroup notifications |
| `MCLogind` | instances of it: symmetry of sessions and users |
| `MCLifetimes` | three instances of it on one VT, in one model |
| `Logind_proofs` | theorems about it: types and pointers |
| `Lifetimes_proofs` | more of them: lists, timers, directories, slots, the display, who is collected |
| `ActionProtocol` | abstract specification: one action, wanted, delayed or running |
| `PowerActions` | inhibitors, requests, lid, idle, schedule, child, SIGCHLD |
| `MCPowerActions` | instances of it: symmetry of inhibitors and processes |
| `PowerActions_proofs` | theorems about it, the refinement of `ActionProtocol` for one |
| `Brightness` | the writer of one device |
| `Brightness_proofs` | theorems about it |
| `SessionDevices` | controllers, devices of sessions, DRM master, VT modes and switch signals |
| `MCSessionDevices` | instances of it: a machine with VTs and one without |
| `SessionDevices_proofs` | theorems about it |
| `Restart` | state files, FIFOs, runtime directories, muted VTs; crash, exit and start of the daemon |
| `MCRestart` | instances of it: kernels with pidfds and without |
| `Restart_proofs` | theorems about it |
| `EventLoop` | the sources of sd-event and one iteration of its loop after the other |
| `EventLoop_proofs` | theorems about it |
| `MCProgress` | the liveness properties of five modules in one model |

`Logind` and `PowerActions` share no state but the event loop: no handler of one
reads or writes what the other models, except that an inhibitor of an inactive
session may not count (left open in `lid_action`) and that the idle hint follows
from sessions (left open in `Idle`).  `PowerActions` sees `Brightness` as
`OtherChildExits`, the SIGCHLD of a writer.  `SessionDevices` refines what `Logind`
abstracts as `CompleteSwitch` and the switch that `chvt()` asks for, and leaves out
positions, users and the collector: its `CreateSession`, `StopSession` and
`RemoveSession` are those of `Logind` as far as devices are concerned.  `Restart`
keeps of the sessions, users and locks what the state files record, and has the
handlers of the others that write them.  `EventLoop` is the loop that calls the
handlers of all the others: a handler there is `dispatching` and what it calls, and
what it promises is the fairness that the others assume.

### Logind

A session is an id with a record `info` or `Nil`; flags, timers and event sources
are sets of ids.  `order` is the order of the session lists, newest first, which
decides who inherits a slot and who becomes active or primary.  `pc` is where the
thread is: `"event"` between handlers, `"gc"` in the collector, or inside one of
the loops over sessions (`seat_stop_sessions()`, `user_stop()`, `seat_free()`,
`user_finalize()`), one session a step, `cur` being the object and `todo` what is
left.  The actions are the handlers, named after the code; `LeaderDies`,
`FifoWriterGone`, `CgroupChanges`, `VtSwitch` and `StopDelayElapses` are the world.

`CreateSession` is the whole of `manager_create_session()`: checks, registration,
position, start of user and session, and the failures of both with what they
leave behind.  `session_stop` includes eviction of the slot and the election of
the display, `session_finalize_and_free` everything up to `session_free()`.
`SetType` and `SetClass` change what a session was created with, and elect nobody;
`SetType` is also the type that `session_drop_controller()` restores, and so takes no
notice of who is in control.

Abstractions: a garbage queue is a set, since the order within a queue is that of
requests that came before and every order is possible.  A session without seat
has VT 0.  A seat other than seat0 has one master device.  Leaders have pidfds.
The VT switch that `chvt()` asks for takes effect at once; that its event is read
later is modelled.  The pause of devices that a switch may wait for is its last
acknowledgement (`CompleteSwitch`).  Memory does not run out.

### PowerActions

`Dispatch` and `DispatchNothing` are `manager_dispatch_delayed()` in
`manager_run()`; then one handler runs.  The child is a process with an action and
a place in `execute()`; it appends its bus calls to `calls` and raises `sigchld`.
`told` is the argument of the last PrepareForShutdown or PrepareForSleep signal.
`waitpid()` on a child that runs leaves `status` uninitialised: `SigChld` then
chooses.  The configuration options that matter are constants.

The model is of a build with polkit.  A caller that polkit has not answered yet
runs the handler again from its start, so only the last run is modelled; weak
inhibitors and other sessions leave the decision to polkit, which may consent.
(A build without polkit does not look at block inhibitors for sleeps at all.)
The child ignores the errors of `prepare_for_sleep()`.  `CallFailures` says which there
are: a call may not be sent (`"unsent"`), or run into its timeout (`"late"`,
`CallTimesOut`), after which the child goes on and the daemon handles the call all the
same.  `CallsMax` bounds how many calls may wait when one more times out.  The schedule file, wall messages, reboot parameters, keys (which
take the path of the lid without its hold-off) and long presses are left out.
`Pids` is the limit on processes: when all are in use the fork fails.

### Brightness

Requests are numbered; a number is both message and brightness.  The writer, its
two message sets and its child are as in the code.  `orphans` are the children that
`sd_event_add_child()` failed to watch after the fork: the writer is freed, and they
write when they get to it.

In debug builds `manager_write_brightness()` logs `existing->path` where
`existing` is NULL; logging is not modelled.

### SessionDevices

The functions of `logind-session-device.c` map a record of `sd`, `fds` and `told`
to the record they leave, so that a handler is their composition in the order of
the code; every handler is one step.  `sd` is what the daemon records of a device,
`fds` the descriptors that work (not revoked, or with DRM master), `told` what
clients were told by reply, PauseDevice and ResumeDevice; the properties relate the
three.  The kernel's part is external: a VT in process mode is not left before the
daemon acknowledges the switch (`want`), `VT_SETMODE` forgets a switch that waits,
and a card has one master, which may be a process that is no session (`foreign`).
A console event, a signal, a udev event and a NameOwnerChanged may each wait while
the others are read.  `TakeControl` has its failures: a VT that cannot be prepared,
a caller that vanishes before its name is matched.

Abstractions: a client is one connection and its name is not used again; a device
name is used again only when the daemon has handled what happened to the last device
of that name; types are left out (`Logind` has `SetType`), as are failures of `vt_restore()` and of allocations; a bus track does not
outlive its session; devices are those of the one seat.

### Restart

Memory is lost in a crash, the world (files, FIFOs, runtime directories, muted VTs,
replies and signals) is not.  A function of the code maps a trace, which is the world as
it is now (`now`) and as it was before each change so far (`past`), to the trace at its
return, and adds its changes in the order of the code.  A handler is the composition of
the functions it calls; `Run` either takes its step, with the new memory and the world
`now`, or is a crash in the middle of it, with a world of `past` and the memory gone.

`pc` is where the daemon is: down, starting, between two events, in `user_stop()` (for
the user `cur`) or exiting.  Loops go one object a step, in any order, as the hash
tables do, and the daemon may crash between two of them.  `Startup` reads the state files;
then `manager_startup()` opens FIFOs, drops what may be collected, starts users, sessions
and locks, one loop after the other, each until its set (`SessionsToDrop`,
`UsersToStart` and so on) is empty.  `Exit` begins `manager_free()`, `ExitSession` and
`ExitUser` are its loops, and `Crash` is its end too.

A file is the fields that loading acts on.  Leaders die, FIFOs and locks are let go
and clients disconnect between handlers and while the daemon is down.  `world.told`
and `world.control` are what clients know: that a session was created or removed,
and that they control one.  A disconnected client, or one that gives control back, has
none; an exit of the daemon drops controllers too, but tells nobody: `world.control` is
then `"forgotten"`.  `dropped` is history: sessions that a start of the daemon has
dropped, which on kernels with pidfds may be sessions of living leaders.  `Owed` are those
of living leaders that were not lost in this way.  `Machines` says what each machine has: whether there are
pidfds, how many sessions, users, clients and locks.  A session name a client was
told of is not used again.

Left out: positions, types, seats and devices of sessions (after a restart devices
are loaded as paused), stop delays other than elogind's default of zero, starts that
fail (in `Logind`), a release that a cgroup event cancels, write errors, the files of
seats and schedules.

### EventLoop

`pc` is `e->state`, with the places of `sd_event_wait()` in the state armed: a round
of `process_epoll()`, one of `process_child()`, and the rest.  The priority queue is
`pending`, ordered by priority and by `before`, which compares the iterations in
which sources became pending; ties are broken at random.  A callback is the time
from `source_dispatch` to `CallbackReturns`; meanwhile, and between rounds,
sources are added, freed, enabled, disabled and set to other times.  The kernel makes
descriptors readable, queues signals and ends children at any time, also between
`epoll_wait()` and `waitid()`; a SIGCHLD that is queued already is not queued twice.
`setup` is what the daemon registers.  `passed` and `early` are history: who was
dispatched while others of its priority waited, and which descriptors were readable
before a child exited.

Abstractions: a source is always enabled in the mode its `sd_event_add_...()` sets;
signals and children are never disabled by callbacks, and handlers of signals do not
fail (those of the daemon return 0); a rate limit lets one event through in an
interval and has no callback at its end; the order of prepare callbacks is left open;
times are in the future when they are set.  inotify watches, the watchdog and the
accuracy of timers are left out.

### MCProgress and MCLifetimes

Each puts several instances into one model: a variable chosen in the initial state
says which of them moves.  `MCLifetimes` has three instances of `Logind` over the
same variables; the properties are those of `Logind` with the union of the
constants.  The one with three sessions has cgroups that are populated
again; `Seated` keeps sessions without a seat out of it, which have no slot.
`Seatless` keeps seats out of the instance about the display, whose election does not
look at them.  `MCProgress` has one
instance each of five modules, with variables of their own.

## 3. Runs

Every property of a passing run has a mutant in `PROJECT.json`: an operator with
a plausible bug in the place of a definition, under which the property fails.

| Run | Instance | Shows |
|---|---|---|
| `seats` | 2 sessions, 2 VTs and a seat that is unplugged; classes user, user-incomplete and manager, idle stop, lingering, finite stop delay | the active session is on the foreground VT; logins against the stop timer; nothing alive is collected |
| `lifetimes` | 3 greeters on one VT, with cgroups that are populated again; or 2 sessions of 3 classes and 2 types, which change; or 2 user and manager sessions, failing starts, lingering, no stop delay | slots, lists and pointers under every order of stops and collections; after every start and stop the primary session is the best that runs; a user and its runtime directory live as long as needed and no longer |
| `inhibit` | 2 inhibitors of all modes, lid, idle, failing forks; suspend, suspend-then-hibernate, poweroff | locks are respected |
| `schedule` | hybrid sleep and poweroff, one inhibitor of shutdowns, schedules, privileged callers, 2 processes, other children, hooks that cancel, calls that time out | schedules against requests, cancellation and SIGCHLD; the action's records agree; PrepareForSleep(true) is taken back |
| `devices` | 2 sessions, 2 clients (one root); a card on a machine with 2 VTs; a card that others use and a mouse that is unplugged on one without | who has working devices, who knows of it, what is left behind |
| `restart` | 2 users (one lingers): 2 sessions; or 1 session, a controller and a lock, with pidfds and without | crash between any two changes, exit, restart |
| `progress` | 3 brightness requests; 2 sessions of one user; suspend and hybrid sleep with a delay lock; 2 sessions on 2 VTs with a controller; 3 event sources, set up in four ways | everything that must end ends; nobody waits for ever for the event loop |

Bounds.  Two sessions are enough for every race of one session with another over
a slot, a seat, a user or the display; three are needed for a slot that is handed
on twice and for an heir that is passed over, which is what `lifetimes` has.  Two VTs
tell foreground from background.  In `seats` manager sessions, which do not pin their user, are on no
seat, and user sessions on one (`SeatPins`): who is freed with a user does not depend on
the seat, and `lifetimes` has the other combinations; one of class
user-incomplete is alone until its class is changed (`IncompleteAlone`).  One user suffices: users share seats and VTs, but nothing a handler does
for one looks at another.  On a seat without VTs `MaxPos` is at least
`SessionsMax`: the code's array of positions grows as needed.  One action of each
kind tells shutdown from sleep; hybrid sleep and suspend-then-hibernate are the two
whose child may execute more than once.  Two inhibitors let one be a block and one a delay lock, or hold
the other back at the limit.  One process is enough unless a second child can
start, which takes other children; `CallsMax` = 1 lets both calls of an execution wait,
the first with its child gone on.  Three requests let one be written and
two be coalesced behind it, or one start anew.  In `devices` the first client may
be replaced by force by the second, two sessions may share a VT, and `MaxSignals`
= 2 lets a signal of a switch be stale when it is read; a card tells devices with
a master from a mouse, whose descriptor is revoked.  In `restart` two sessions
share a user or not; the daemon may restart any number of times.  Three event sources
let one be passed twice by another while a third is limited, comes and goes, or runs
after each; the four set-ups have every type of source, the one with a child and
SIGCHLD without pidfds for the second round of `epoll_wait()`.  With two such children
`Served` fails (section 4); the daemon has two when two devices get a brightness at once
on a kernel without pidfds.
The stop delay `infinite` is not run: it keeps every user.

No run needs to ignore deadlock except `progress`, where the bound on brightness
requests ends the part of `Brightness`.  `SleepEnds` leaves out suspend-then-hibernate, which by
`execute_s2h()` may go on for as long as the battery lasts.  `NoForgottenUser` is
run either with a stop delay or with manager sessions, not both: a user that has had
a pinning session, and in whose stop delay a manager session starts, loses its timer
and is kept until that session ends, although its `gc_mode` says that such a
session does not keep it.  `CollectorHears`, the hypothesis of `NobodyForgotten`, names the
configurations in which it holds.

Fairness.  `Logind!FairSpec`: weak fairness of `Collect`, the steps of the thread
inside a handler and the collector, which nothing can disable.  `EventLoop!FairSpec`:
weak fairness of the loop, a thread whose callbacks return.  `Served` is what it gives
to handlers, and what the fairness of the others takes for granted: one that is ready
is run, unless more important ones are ready again and again.  `PowerActions!FairSpec`: weak
fairness of the dispatch, strong fairness of the delay timeout, the child's calls
and SIGCHLD, all of which stay pending while other handlers run; weak fairness of
the child.  `Brightness!FairSpec`: weak fairness of the write and of the handler
of the child's exit.  `SessionDevices!FairSpec`: weak fairness of the handler of the
switch signal, which stays pending.  `MCProgress` states the same fairness for the
part that moves.

## 4. Findings

Runs with `expect: violation` show where the code does not do what a comment, a
message or a manual page says; `PROJECT.json` quotes both sides.

* `closing_forever`: a session stopped because its leader exited is not queued
  when its cgroup runs empty, and stays in state closing.
* `two_children`: any child's exit ends a sleep for the daemon, and the next
  request starts a second child.
* `shutdown_stuck`: a shutdown cancelled by a hook stays in progress for ever.
* `ghost_controller`: a client that took over a session by force is not tracked, and
  stays its controller when it disconnects.
* `restart_drops`: on kernels with pidfds a restarted daemon drops sessions whose
  leaders live.

The models show more, by the formula or the constants given here.

* `[][\A s \in sessions \ started : s \in alive => info'[s] # Nil]_vars` fails in
  `Logind` with `StartMayFail`: a user that fails to start is collected, and takes
  with it the session of a living leader.  `logind-session.c:1764` says "elogind: do
  not GC a not-yet-started session while its leader still exists".
* `NoForgottenUser` fails with a second seat: `seat_free()` (`logind-seat.c:69`)
  frees sessions without queueing their user, which then stays if the stop delay is
  zero.  `logind.conf.xml:233` says "set to zero, the user is terminated immediately
  when the last session of the user has ended".
* `\A s \in SessionIds : ~ Slotless(s)` fails in `Logind` with three sessions and
  `Repopulates`: a session in its release delay is passed over as heir of a slot
  (`logind-seat.c:509`), and has none when a cgroup event cancels the release
  (`core/cgroup.c:4195`).  `SlotKept` says that this is the only way to lose one.
* `\A u \in Uids : DisplayBest(u)` fails in `Logind` with two types: `session_set_type()`,
  `session_set_class()` (`logind-session.c:1604`) and `session_drop_controller()` change what the
  election prefers, and `user_elect_display()` is called from `session_start()` and
  `session_stop()` only.  Of the primary session `sd_uid_get_state.xml:132` says "If the user has
  graphical sessions, it will be the oldest graphical session."  `DisplayElected`
  says that the choice is right again after the next start or stop.
* `[][\A c \in Pids : ChildAt(c, "sleep") /\ child'[c] # child[c] => told["sleep"]]_vars` fails
  in `PowerActions` when `CallFailures` is not empty: the system sleeps unannounced.
  `sleep.c:545` says "elogind: Always notify login1 clients before entering sleep."
* PrepareForSleep(true) is never taken back when a delayed sleep is cancelled
  (`cancel_delayed_action()` sends nothing), or when a SIGCHLD of another child has ended the
  sleep for the daemon and the PrepareForSleep(false) of its child cannot be sent: the
  exceptions in `WakeIsTold`.
* `[][told["sleep"] /\ ~ told'["sleep"] => delayed' \notin SleepActions]_vars` fails in
  `PowerActions`: PrepareForSleep(false) is sent at the child's call, and until the
  child has exited a lock for sleep is refused.  `logind-dbus.c:2286` says "Tell
  people that they now may take a lock again."
* `down => told["shutdown"]` fails with `PowerOffInterrupts`: the signal is sent by
  the forked child on its parent's bus connection, which sd-bus refuses.
  `logind-dbus.c:2081` says "we have to signal everybody that a shutdown is imminent".
* `told["shutdown"] => delayed \in ShutdownActions` fails with `Schedules` and
  without `PowerOffInterrupts`: a delayed shutdown is cancelled without PrepareForShutdown(false).
* `schedAct # Nil => schedTimer \/ delayed # Nil` fails: a sleep sets
  `scheduled_shutdown_action` (`logind-dbus.c:2739`) and leaves it behind, so that a
  later cancellation says it cancelled a shutdown.
* `nologin => schedTimer \/ delayed \in ShutdownActions` fails with `Schedules`: a sleep
  within the last minutes before a scheduled shutdown drops the shutdown
  (`logind-dbus.c:2735`) and leaves `/run/nologin`.
* `BlockRespected` fails with `Schedules`: a scheduled shutdown does not look at block
  locks again (`logind-dbus.c:2961`), and a lock may be taken after it was scheduled.
* `TakeDeviceAgain` of `SessionDevices` frees the device: `method_take_device()`
  refuses a device that is taken, and its cleanup (`logind-session-dbus.c:561`) frees
  the one it found.  `org.freedesktop.login1.xml:1502` says "As long as you don't
  release it, further TakeDevice() calls will fail."
* `[][~ hasVTs /\ active # Nil /\ active' \notin {Nil, active} => list' # list \/
  Active(dev, active) = {}]_vars` fails in `SessionDevices`: `session_activate()` asks
  for a pause of the devices of the session it activates, which has none that run, and
  never waits for those of the session that loses the seat.  `logind-session.c:1008` says
  "We try to pause all session-devices and wait until the session controller
  acknowledged them."
* `[][StartupDone => \A s \in Sessions : session[s] # Nil /\ session[s].controller = Nil =>
  ~ world.muted[s]]_vars` fails in `Restart`: `session_load()` of a session whose controller
  has left calls `session_restore_vt()` without an open VT, which returns at once.
  `logind-session.c:2103` says "or reset the VT in case it crashed/exited, too."
* `Idle => \A u \in Users \ Lingerers : user[u] # Nil => sessionsOf(u) # {}` fails in
  `Restart`: a user whose sessions are gone after a crash, or were dropped at the start, is
  started again (`user_may_gc()` asks for `u->stopping`) and queued by nobody.
* `ExitSession` of `Restart` drops controllers and `ExitUser` removes runtime directories: `manager_free()`
  calls `session_free()` and `user_free()`, whichever signal ended the daemon, although
  `elogind.xml:491` and `elogind.c:56` set SIGINT apart.  The client is not told
  (`session_release_controller()` without notification) and is no controller after the
  restart: `Idle => \A s \in Sessions : session[s] # Nil => world.control[s] # "forgotten"` fails.
  `logind-session.c:2101` says "If logind crashes/restarts, we restore the controller during
  restart".
* A session that was closing when the daemon died, and whose leader lives, is loaded, not
  started and never removed: `session_start()` refuses it and `session_stop()` returns
  early.  `SavedWhenIdle` and `ClaimsKept` are about sessions that are started.
* A leader that exits before its session has started keeps the event loop busy until the
  session is freed: `session_stop()` returns early (`logind-session.c:1322`) and leaves the
  source of the readable pidfd.
* `FairWithinPriority` fails without the exception for deferred sources: one that is
  enabled again keeps the `pending_iteration` of the time it was added
  (`sd-event.c:4201`), and so goes before the other sources of its priority for as long as
  it is on.  `sd_event_source_set_priority.xml:88` says "it is guaranteed that if events are
  seen on multiple same-priority event sources at the same time, each one is not
  dispatched again until all others have been dispatched once".
* `pc = "epoll" /\ Blocks => ready \cap OfType({"child"}) \subseteq pending` fails in `EventLoop`
  with two sources of type `child` and a SIGCHLD source of priority 1 and an `io` source of
  priority 0: the first child exits between `epoll_wait()` and `waitid()`; the second round
  finds the descriptor and the SIGCHLD, which it reads whatever its threshold;
  `process_child()` (`sd-event.c:3745`) then clears `need_process_child`, and passes over the
  second child, whose priority is above the threshold.  Its exit, for which that SIGCHLD
  stood too, is noticed at the next SIGCHLD, if one comes.  `sd-event.c:3847` says "make sure
  to recheck the children we watch".
* Without `\/ Stray`, `NewestWins` fails in `Brightness`: a child that was forked and
  cannot be watched (`logind-brightness.c:158`) writes beside the next one.

## 5. Proofs

All theorems hold for every value of the constants that satisfies the module's
named assumption (`LogindAssumption`, `PowerAssumption`, `BrightnessAssumption` and so
on): that `Nil` is none of the values, and that the options have their types.  Those
that need more say so in their statement, and below.

* `Lists_proofs`.  `FirstIn` finds the first element there is; `LIST_PREPEND` and
  `LIST_REMOVE` keep a list free of duplicates and change its elements by one.
  `LeastNatural` (a set of naturals with a member has a least one) takes the place of
  induction, whose library theorems the provers cannot instantiate: what holds of the
  head and is handed on along the list is shown by looking at the first element of
  which it does not hold.
* `Logind_proofs`: `TypeCorrect` and `NoDanglingPointer`.  The inductive invariant
  `IInv` adds to `TypeOK` and `PointersValid` what the loops rely on
  (`WalksValid`: while a seat or a user is being freed, `todo` is exactly what it
  has left, so that the last step frees an object nobody points to) and that the
  kernel reports on existing cgroups only.  Three lemmas carry the argument
  (`Evicted`, `SessionStopped`, `SessionFreed`); then one lemma per action.
* `Lifetimes_proofs`.  `StepKinds` divides the steps by what they do to sessions and
  users: create a session, stop one, free one, change a user, or leave all of it alone.
  Each invariant is then shown for these few kinds.
  `ListIsComplete` and `StopTimerOnlyWhenStamped` need no
  more than `IInv`; neither does `BestDisplay`, an action property: a start or stop elects
  (`BestElected`), and any other step leaves the candidates and their ranks alone, or
  frees a session that is none (`FreedNoCandidate`); `RuntimeDirStays` needs that a started user has its directory;
  `ActiveInForeground` that no switch to a session on seat0 waits.
  `LiveSessionStays` needs `StopInv`: no session that runs is queued for collection, a
  walk that stops sessions still has those to do that run, and a walk that frees them meets
  none that runs, because `user_may_gc()` was asked twice.  `SlotsKept` is an action property
  as well: eviction and freeing hand a slot on to a session that is to stay, if there is
  one (`SlotHandedOn`, `SlotStaysTaken`), and a session that was to go and now stays is one
  whose cgroup was reported populated (`ClosingNoMore`).
  `NobodyForgotten` assumes `CollectorHears`: the stop delay is infinite; or finite, and every
  class pins its user; or zero, and seat0 is the only seat, so that `seat_free()` runs for
  none.  Section 4 and the end of section 3 say what happens otherwise.  It needs
  `HeldInv`: at every moment, inside a handler and the collector too, a user that nothing
  keeps is in the garbage queue, is being collected, or has its stop timer; each way of
  losing a session or lingering leads to one of these.
  What `GcTerminates` rests on is proved in three parts.  `CollectorAdvances`: every step of
  the collector, and of the walks it starts, lowers `GcLeft` (how many seats
  and sessions exist and how many users run, how many are queued, the phase, and the length
  of the walk)
  in the lexicographic order `GcOrder`, and no other step moves it in the meantime;
  the lemma `CollectionWellFounded`: that order has no infinite descent; `WalksGoOn`: a walk with
  something left finds its next session.  `CountInv` says that only finitely many
  sessions, users and seats exist, whatever the sets of their names.
* `SessionDevices_proofs`.  One inductive invariant, `IInv`, gives six theorems.
  `DevOK` ties the three records of a device together (a working descriptor is that of
  an active device, an active device that of the active session, any device that of a
  controller who knows its state), `ControlOK` ties controllers to sessions and VT modes to
  open VTs, `ForegroundOK` the active session to the foreground VT, `UdevOK` says that
  the loss of a device is the last that is reported of it.  The functions on devices
  have a lemma each (`Stopped`, `Paused`, `ResumedAll`, `Freed`...), which the lemmas about
  handlers compose in the order of the code.  `PausesBeforeItLeaves` follows from the
  invariant and the few steps that take a VT out of process mode.  `AskedIsAnswered` is what
  `SwitchAnswered` rests on: a VT that is asked to make way (`want`) has its signal in
  the queue, which the kernel sent as it asked, and the handler that reads it
  answers, because a VT in process mode has a session to answer for it (`ControlOK`).
* `Restart_proofs`.  One inductive invariant, `IInv`, gives eight theorems.  None of the
  properties is inductive, as what a crash loses shows only after the next start.
  `Good` is what every world must satisfy that a crash may leave, the ones in the middle of
  a handler too: a session file has the file of its user, a session that was answered for
  and is `Owed` is on disk and, if nobody ended it, not as closing, a controller that was
  answered, and that no exit of the daemon has made `"forgotten"`, is in the file and on the bus, a lock that is held has its file.  `MemoryOK` says for each
  value of `pc` how memory and files agree: between events what is in memory is on disk
  and the reverse (`SessionKnown`), while starting what was loaded is what the file says
  (`SessionLoaded`).  `QueuesOK` says that the queues name what is there.  Each function on
  traces has lemmas: if every world of the trace before it is good (`TraceOK`), so is
  every world after it, and `now` changes in these tables only (`Only`).  The lemmas of the
  handlers compose them in the order of the code, and one lemma per action shows the
  memory.  `SessionsSurvive` is about kernels without pidfds: the run `restart_drops`
  shows why.
* `EventLoop_proofs`.  `TurnsAreKept` needs `PassedInv`: a source that was passed
  over waits still, and is ahead of the one that went first, which was put behind it when
  it became pending again (`QueueKinds` divides the steps by what they do to the queue).
  `CausesComeFirst` needs `CauseInv`: as long as what led to a child's exit was not
  dispatched, something more important than the exit is pending, since `epoll_wait()` is
  called again until nothing above the least pending priority is readable; it assumes
  `PrioritiesBounded`, that priorities are in the range of `int64_t`, outside of which
  `epoll_min_priority` would not start above all of them.
  `SleepsOverNothing` is what `Served` rests on: when `epoll_wait()` may block, nothing can
  be dispatched, and every source that is on and has something to report was reported.
  It needs `SleepInv` (nothing can be dispatched when the loop is about to sleep) and `HeardInv`: the exit of a child without a pidfd is
  pending, or `need_process_child` is set, or a SIGCHLD waits unread, in each of the
  rounds of `sd_event_wait()`.  It assumes `PrioritiesBounded` and `ChildHeard`: there is one
  such child at a time, it has no rate limit, and somebody listens to SIGCHLD.  Section 4
  shows that the first of these is needed.
* `PowerActions_proofs`.  `CoreInv` (the three records of the action agree, an
  action that waits has its timeout, a timer of the schedule has its action) is
  inductive by itself and gives `ActionStateIsSound` and `ScheduleFindsItsAction`; each
  step of it is an `ActionStep`, from which `ImplementsProtocol` shows the refinement of
  `ActionProtocol`, `phase` and `action` being read off `action_job` and
  `delayed_action`.  `DelayIsRespected` looks at the steps that set `action_job`.
  `TypeCorrect` needs `CallsPending` (whose call has not timed out waits, and called
  once), as the answer moves the child.  `BlockIsRespected` needs `BlockInv`: below a block
  lock nothing is even delayed; it assumes that nobody may override locks and that
  nothing is scheduled; section 4 shows that the latter cannot be dropped.
  `WakeIsAnnounced`, which assumes nothing, needs `CallsPaired`: a PrepareForSleep(true) in
  the queue is followed by a PrepareForSleep(false), or its child has that one yet to make,
  unless calls may be lost.
  `SleepEnds` rests on two theorems.  `SleepIsDriven`: a sleep that is wanted
  has its timeout armed, or it runs, the daemon knows its child, and either that child can
  step, or its call or the signal of its exit waits for the daemon, whose handler of that
  signal ends the sleep (`WatchInv`).  `ChildAdvances`: every step of a child brings it
  nearer to its exit (`StagesLeft`), for all actions but suspend-then-hibernate.
* `Brightness_proofs`: `WriterIsConsistent` and `RepliesAreTrue` from `IInv`
  (requests to come are unanswered), `NewestInEffect` from it and from what the
  device holds when a child has written (`NInv`); `StrayKept` says that the exception
  for unwatched children, once it applies, lasts until the next write.  `TwoWritesAnswer` is
  what `AllAnswered` rests on: a message that waits is at most four steps of the writer from
  its answer (the write that runs and the one after it, each with its end), and no other
  step, that of a later message neither, moves it further away.

Two proofs failed for a reason.  The one of `SleepsOverNothing` without `ChildHeard` led to the
second child that is passed over (section 4).  The other changed a property: `LiveSessionKept` said that a started session is
stopped before it is freed, without exception.  `manager_gc()` calls `user_may_gc()`
twice, before `user_stop()` and after it (`logind.c:1063`), and the clock may pass the
stop delay in between (`logind-user.c:841`): the user is then freed without having been
stopped, and with it its sessions that do not pin it.  The run `seats`, which had no
such sessions, now has them, and `LiveSessionKept` has that exception.

Only model-checked: the liveness properties `GcTerminates`, `SleepEnds`, `AllAnswered`,
`SwitchAnswered` and `Served`, since fairness and `ENABLED` are out of the prover's reach.  Of
each the part that is safety is proved, as said above: what has to happen is pending
until it is done, and each step of those that fairness obliges leads nearer to the end.
That these steps are enabled, and that they are therefore taken, is left to TLC.  Only
proved: `TypeOK` of `Restart`, which no run lists.

## 6. Not modelled

Reload and configuration; ACLs of devices and devices of other seats; the files of
seats and schedules; the mounting of runtime directories; polkit's answers; wall
messages; the PAM module and the tools; `update-utmp` and the cgroups agent.  Reasons
are with the components in `PROJECT.json`.

The larger part of the repository by far is code that elogind shares with systemd:
sd-bus, sd-device, sd-json, sd-varlink and sd-journal, the basic and shared
helpers, and a `core/cgroup.c` of which elogind builds the hierarchy set-up.  It holds
no state of the login manager; the models use it through what it promises (one
handler at a time, messages in order, a track that reports the end of a name), and
model it only where the daemon's behaviour hangs on its inside (the queue of empty
tracks, the match of a name, the doubly linked lists).

## 7. Plan

1. Done: `Logind`, `PowerActions` with `ActionProtocol`, `Brightness`,
   `SessionDevices`, `Restart`, `EventLoop`, their runs and first theorems.
2. Done: the proofs of `Lists`, `Logind`, `PowerActions`, `Brightness`,
   `SessionDevices`, `EventLoop` and `Restart`, with what the liveness properties rest on.
3. `IdleHint`: idle hints of sessions, users and seats up to the idle action, and
   the lid with docking, as a refinement of `Idle` and `lid_action`.
