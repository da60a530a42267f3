--------------------------- MODULE SessionDevices ---------------------------
(***************************************************************************)
(* The devices of the sessions of seat0 and the bus clients that control   *)
(* them: logind-session-device.c, logind-device.c, the controller and VT   *)
(* functions of logind-session.c, TakeControl() to PauseDeviceComplete()   *)
(* of logind-session-dbus.c, the switch of the active session in           *)
(* logind-seat.c and manager_vt_switch() of logind.c.                      *)
(*                                                                         *)
(* Every handler of the daemon is one step.  Between two of them clients   *)
(* come and go, VTs are switched, devices are plugged in and out and       *)
(* signals, console events, udev events and bus signals wait to be read,   *)
(* in any order.  The kernel's side (VT modes and switch requests, DRM     *)
(* master, revoked file descriptors) is modelled from how the daemon uses  *)
(* it.                                                                     *)
(***************************************************************************)
EXTENDS Lists

CONSTANTS
    Sessions,    \* names a session can have
    Clients,     \* bus connections
    Root,        \* the clients that run as root
    DRM, Evdev,  \* graphics cards; input and hidraw devices
    Machines,    \* the machines the daemon may run on: see Machine
    MaxVT,       \* virtual terminals are numbered 1 .. MaxVT
    MaxSignals   \* unread SIGRTMIN signals, at most

VTs     == 1 .. MaxVT
Devices == DRM \cup Evdev

\* Whether the kernel has virtual terminals, the devices the machine has,
\* those of them that can be unplugged, and the cards that other processes
\* use as well.
Machine == [vts : BOOLEAN, devices : SUBSET Devices, hotplug : SUBSET Devices,
            shared : SUBSET DRM]

ASSUME SessionDevicesAssumption ==
    /\ Machines \subseteq Machine
    /\ Nil \notin Sessions /\ Nil \notin Clients
    /\ "empty" \notin Clients
    /\ Root \subseteq Clients
    /\ DRM \cap Evdev = {}
    /\ MaxVT \in Nat \ {0} /\ MaxSignals \in Nat \ {0}

VARIABLES
    \* Seat
    machine,    \* what the daemon runs on
    list,       \* the sessions of the seat, newest first
    stopping,   \* s->stopping
    vt,         \* s->vtnr, 0 without VTs
    active, pending,     \* s->active and s->pending_switch of the seat
    \* Session: controller, its bus track and its VT
    controller,
    track,      \* s->track: Nil, "empty", or the client it tracks
    vtfd,       \* sessions that hold their VT open
    \* SessionDevice: "none", "active" or "paused"
    sd,
    \* Device: those the daemon knows
    known,
    \* The kernel and udev
    fgVT, console,       \* the VT in the foreground; an unread change of it
    mode,       \* of each VT: "auto", or "process" when the daemon is asked
    want,       \* the VT the foreground VT is asked to make way for, or 0
    sigrt,      \* unread SIGRTMIN signals
    fds,        \* the pairs of session and device with a working descriptor
    foreign,    \* cards whose DRM master is none of the sessions
    present,    \* devices that are plugged in
    udev,       \* the unread udev events of each device
    \* The clients
    bus,        \* those connected; the name of a connection is never used again
    gone,       \* those disconnected whose NameOwnerChanged is unread
    told        \* client, session, device: a device it was told is running

seatVars == <<machine, list, stopping, vt, active, pending>>
ctrlVars == <<controller, track, vtfd>>
devVars  == <<sd, fds, told>>
vtVars   == <<fgVT, console, mode, want, sigrt>>
udevVars == <<known, present, udev, foreign>>
busVars  == <<bus, gone>>
vars == <<seatVars, ctrlVars, devVars, vtVars, udevVars, busVars>>

-----------------------------------------------------------------------------
hasVTs == machine.vts    \* seat_has_vts()

sessions == Linked(list)

\* process_running() of sd-bus handles the queue of empty tracks before it
\* reads a message.
NoTrackQueued == \A s \in Sessions : track[s] # "empty"

\* The sessions on a VT.
OnVT(v) == {s \in Sessions : vt[s] = v}

\* Mutant: a VT without a session changes nothing.
VtSession_keep(l, v) ==
    LET running == FirstIn(l, OnVT(v) \ stopping)
    IN  IF running # Nil THEN running ELSE active

\* seat_active_vt_changed(): a running session on the VT, else any, else none.
VtSession(l, v) ==
    LET running == FirstIn(l, OnVT(v) \ stopping)
    IN  IF running # Nil THEN running ELSE FirstIn(l, OnVT(v))

(***************************************************************************)
(* Session devices.  The functions of logind-session-device.c map the      *)
(* state of the devices to the state they leave.                           *)
(***************************************************************************)
dev == [sd |-> sd, fds |-> fds, told |-> told]

DevicesBecome(D) == sd' = D.sd /\ fds' = D.fds /\ told' = D.told

Active(D, s) == {d \in Devices : D.sd[s][d] = "active"}

\* session_device_notify(): "force", "gone" and ResumeDevice.
told_paused(D, c, s, ds) ==
    [D EXCEPT !.told = @ \ ({c} \X {s} \X ds)]
told_running(D, c, s, ds) ==
    [D EXCEPT !.told = @ \cup {t \in {c} \X {s} \X ds : c # Nil}]

\* session_device_stop(), for each device of ds.
session_device_stop(D, s, ds) ==
    LET on == ds \cap Active(D, s)
    IN  [D EXCEPT !.sd[s] = [d \in Devices |-> IF d \in on THEN "paused" ELSE @[d]],
                  !.fds   = @ \ ({s} \X on)]

\* session_device_free(), for each device of ds; c is the controller that is
\* notified.
session_device_free(D, c, s, ds) ==
    LET E == told_paused(session_device_stop(D, s, ds), c, s, ds)
    IN  [E EXCEPT !.sd[s] = [d \in Devices |-> IF d \in ds THEN "none" ELSE @[d]]]

session_device_pause_all(D, c, s) ==
    LET on == Active(D, s)
    IN  told_paused(session_device_stop(D, s, on), c, s, on)

\* DRM_IOCTL_SET_MASTER: nobody else is master.
can_set_master(D, s, d) ==
    /\ d \notin foreign
    /\ \A x \in Sessions \ {s} : <<x, d>> \notin D.fds

\* session_device_start() can open an input device that is plugged in, and
\* become master of a card.
can_start(D, s, d) ==
    /\ D.sd[s][d] = "paused"
    /\ d \in present
    /\ d \in DRM => can_set_master(D, s, d)

session_device_resume_all(D, c, s) ==
    LET on == {d \in Devices : can_start(D, s, d)}
        E  == [D EXCEPT !.sd[s] = [d \in Devices |-> IF d \in on THEN "active" ELSE @[d]],
                        !.fds   = @ \cup ({s} \X on)]
    IN  told_running(E, c, s, on)

\* Mutant: the devices of the session that loses the seat keep running.
seat_set_active_no_pause(D, new) ==
    IF new = Nil THEN D
    ELSE session_device_resume_all(D, controller[new], new)

\* seat_set_active(): the devices.
seat_set_active(D, new) ==
    LET E == IF active # Nil /\ active # new
             THEN session_device_pause_all(D, controller[active], active)
             ELSE D
    IN  IF new = Nil THEN E
        ELSE session_device_resume_all(E, controller[new], new)

\* seat_set_active() as the last thing a handler does.
SetActive(D, new) ==
    /\ active' = new
    /\ DevicesBecome(seat_set_active(D, new))

(***************************************************************************)
(* Virtual terminals                                                       *)
(***************************************************************************)
\* VT_SETMODE on a set of VTs forgets a switch that waits for an answer.
VT_SETMODE(vs, m) ==
    /\ mode' = [v \in VTs |-> IF v \in vs THEN m ELSE mode[v]]
    /\ want' = IF fgVT \in vs THEN 0 ELSE want

\* Mutant: off by one.
chvt_off_by_one(v) ==
    \/ v = fgVT /\ UNCHANGED vtVars
    \/ /\ v # fgVT /\ mode[fgVT] = "auto"
       /\ fgVT' = v + 1 /\ console' = TRUE
       /\ UNCHANGED <<mode, want, sigrt>>

\* VT_ACTIVATE: a VT in process mode is asked to make way, others just do.
chvt(v) ==
    \/ v = fgVT /\ UNCHANGED vtVars
    \/ /\ v # fgVT /\ mode[fgVT] = "process"
       /\ sigrt < MaxSignals
       /\ want' = v /\ sigrt' = sigrt + 1
       /\ UNCHANGED <<fgVT, console, mode>>
    \/ /\ v # fgVT /\ mode[fgVT] = "auto"
       /\ fgVT' = v /\ console' = TRUE
       /\ UNCHANGED <<mode, want, sigrt>>

\* Someone switches the VT.
SwitchVT(v) ==
    /\ hasVTs
    /\ v # fgVT
    /\ chvt(v)
    /\ UNCHANGED <<seatVars, ctrlVars, devVars, udevVars, busVars>>

\* manager_dispatch_console()
ConsoleEvent ==
    /\ console
    /\ console' = FALSE
    /\ SetActive(dev, VtSession(list, fgVT))
    /\ UNCHANGED <<machine, list, stopping, vt, pending, ctrlVars, fgVT, mode, want,
                   sigrt, udevVars, busVars>>

\* Mutant: the switch is acknowledged and the devices keep running.
session_leave_vt_at_once(D, s) == D

\* Mutant: the controller is not told.
session_leave_vt_silent(D, s) == session_device_stop(D, s, Devices)

\* session_leave_vt(): the devices.
session_leave_vt(D, s) ==
    session_device_pause_all(D, controller[s], s)

\* Mutant: only the active session may hold the VT.
VtHolder_active(new) == IF new \in vtfd THEN new ELSE Nil

\* The session that answers for the VT of session new: several may share it.
VtHolder(new) ==
    IF new \in vtfd THEN new
    ELSE FirstIn(list, OnVT(fgVT) \cap vtfd)

\* manager_vt_switch(): the devices of the session are paused, then the switch
\* is acknowledged.  Without a session the VT is restored as well; with one
\* and nobody who holds the VT nothing is acknowledged.
VtSwitch ==
    LET new  == VtSession(list, fgVT)
        held == VtHolder(new)
        D    == seat_set_active(dev, new)
    IN  /\ sigrt > 0
        /\ sigrt' = sigrt - 1
        /\ active' = new
        /\ DevicesBecome(IF held = Nil THEN D ELSE session_leave_vt(D, held))
        /\ IF want # 0 /\ (new = Nil \/ held # Nil)
           THEN fgVT' = want /\ want' = 0 /\ console' = TRUE
           ELSE UNCHANGED <<fgVT, want>> /\ console' \in {FALSE, console}
        /\ mode' = [mode EXCEPT ![fgVT] =
                       IF want # 0 /\ new = Nil THEN "auto" ELSE @]
        /\ UNCHANGED <<machine, list, stopping, vt, pending, ctrlVars, udevVars,
                       busVars>>

-----------------------------------------------------------------------------
(***************************************************************************)
(* Sessions come and go                                                    *)
(***************************************************************************)
\* session_restore_vt() for the sessions of a set: sessions without an open
\* VT have nothing to restore.
session_restore_vt(ss) ==
    /\ VT_SETMODE({vt[s] : s \in ss \cap vtfd}, "auto")
    /\ vtfd' = vtfd \ ss

\* CreateSession(): seat_attach_session() activates the session on a seat
\* without VTs, session_start() reads the foreground VT on one with VTs.  The
\* console event may be dispatched already, and is then handled once more.
CreateSession(s, v) ==
    LET l == LIST_PREPEND(list, s)
    IN  /\ NoTrackQueued /\ s \notin sessions
        /\ IF hasVTs THEN v \in VTs ELSE v = 0
        /\ list' = l
        /\ vt' = [vt EXCEPT ![s] = v]
        /\ stopping' = stopping \ {s}
        /\ IF hasVTs
           THEN LET on == fgVT = v
                    new == IF on THEN s ELSE VtSession(list, fgVT)
                IN  /\ SetActive(dev, new)
                    /\ console' \in {FALSE, console}
           ELSE SetActive(dev, s) /\ UNCHANGED console
        /\ UNCHANGED <<machine, pending, ctrlVars, fgVT, mode, want, sigrt,
                       udevVars, busVars>>

\* session_stop().  s->stopping is read when a VT comes to the foreground.
StopSession(s) ==
    /\ hasVTs /\ s \in sessions \ stopping
    /\ stopping' = stopping \cup {s}
    /\ UNCHANGED <<machine, list, vt, active, pending, ctrlVars, devVars, vtVars,
                   udevVars, busVars>>

\* Mutant: the VT of a session that ends while it has a controller stays in
\* process mode.
RestoreOnRemoval_none(s) == UNCHANGED <<mode, want>> /\ vtfd' = vtfd \ {s}

\* session_free() drops the controller, which restores the VT.
RestoreOnRemoval(s) == session_restore_vt({s})

\* session_finalize() and session_free(), from manager_gc(): the devices go
\* first and the controller hears of it, then the seat and the controller.
RemoveSession(s) ==
    /\ s \in sessions
    /\ DevicesBecome(session_device_free(dev, controller[s], s, Devices))
    /\ active'  = IF active = s THEN Nil ELSE active
    /\ pending' = IF pending = s THEN Nil ELSE pending
    /\ controller' = [controller EXCEPT ![s] = Nil]
    /\ track'      = [track EXCEPT ![s] = Nil]
    /\ RestoreOnRemoval(s)
    /\ list' = LIST_REMOVE(list, s)
    /\ stopping' = stopping \ {s}
    /\ vt' = [vt EXCEPT ![s] = 0]
    /\ UNCHANGED <<machine, fgVT, console, sigrt, udevVars, busVars>>

-----------------------------------------------------------------------------
(***************************************************************************)
(* The controller of a session                                             *)
(***************************************************************************)
\* session_drop_controller(), for the controllers of a set of sessions.
session_drop_controller(ss) ==
    /\ controller' = [s \in Sessions |-> IF s \in ss THEN Nil ELSE controller[s]]
    /\ track'      = [s \in Sessions |-> IF s \in ss THEN Nil ELSE track[s]]
    /\ sd' = [s \in Sessions |-> IF s \in ss THEN [d \in Devices |-> "none"] ELSE sd[s]]
    /\ fds' = {f \in fds : f[1] \notin ss}
    /\ session_restore_vt(ss)

\* Messages are handled in the order they were sent: the calls of a client
\* that has disconnected come before its NameOwnerChanged.
Calls(c, s) ==
    /\ NoTrackQueued
    /\ c \in bus \cup gone
    /\ s \in sessions /\ controller[s] = c

\* session_prepare_vt() succeeds.
session_prepare_vt(s) ==
    /\ VT_SETMODE({vt[s]} \ {0}, "process")
    /\ vtfd' = IF vt[s] = 0 THEN vtfd ELSE vtfd \cup {s}

\* session_release_controller(), told to the previous controller.
session_release_controller(D, s) ==
    session_device_free(D, controller[s], s, Devices)

\* method_take_control() and session_set_controller(), up to the first thing
\* that changes: root may use force.
MayTakeControl(c, s) ==
    /\ NoTrackQueued
    /\ c \in bus /\ s \in sessions
    /\ controller[s] # c
    /\ controller[s] = Nil \/ c \in Root

\* session_set_controller() succeeds.  It has made the track of the new
\* controller when session_release_controller() releases the track of the
\* previous one: the two are the same object.
TakeControl(c, s) ==
    /\ MayTakeControl(c, s)
    /\ session_prepare_vt(s)
    /\ LET D == session_release_controller(dev, s)
       IN  DevicesBecome(told_paused(D, c, s, Devices))
    /\ controller' = [controller EXCEPT ![s] = c]
    /\ track' = [track EXCEPT ![s] = IF controller[s] = Nil THEN c ELSE Nil]
    /\ UNCHANGED <<seatVars, fgVT, console, sigrt, udevVars, busVars>>

\* session_set_controller() fails: session_prepare_vt() cannot open the VT, or
\* cannot set it up and restores it.
TakeControlVtFails(c, s) ==
    /\ MayTakeControl(c, s)
    /\ vt[s] # 0
    /\ track' = [track EXCEPT ![s] = Nil]
    /\ \/ s \notin vtfd /\ UNCHANGED <<mode, want, vtfd>>
       \/ VT_SETMODE({vt[s]}, "auto") /\ vtfd' = vtfd \ {s}
    /\ UNCHANGED <<seatVars, controller, devVars, fgVT, console, sigrt,
                   udevVars, busVars>>

\* session_set_controller() fails: the client disconnects before
\* sd_bus_track_add_name() has asked for it.  The new track stays, empty.
TakeControlVanishes(c, s) ==
    /\ MayTakeControl(c, s)
    /\ track' = [track EXCEPT ![s] = "empty"]
    /\ bus' = bus \ {c} /\ gone' = gone \cup {c}
    /\ UNCHANGED <<seatVars, controller, vtfd, devVars, vtVars, udevVars>>

\* method_release_control()
ReleaseControl(c, s) ==
    /\ Calls(c, s)
    /\ session_drop_controller({s})
    /\ told' = {t \in told : ~ (t[1] = c /\ t[2] = s)}
    /\ UNCHANGED <<seatVars, fgVT, console, sigrt, udevVars, busVars>>

\* A client closes its connection.
Disconnect(c) ==
    /\ c \in bus
    /\ bus' = bus \ {c} /\ gone' = gone \cup {c}
    /\ UNCHANGED <<seatVars, ctrlVars, devVars, vtVars, udevVars>>

\* on_name_owner_changed(), and on_bus_track() for the tracks it empties.
NameOwnerChanged(c) ==
    /\ NoTrackQueued /\ c \in gone
    /\ gone' = gone \ {c}
    /\ session_drop_controller({s \in Sessions : track[s] = c})
    /\ told' = {t \in told : t[1] # c}
    /\ UNCHANGED <<seatVars, fgVT, console, sigrt, udevVars, bus>>

\* on_bus_track() for a track that never had a name.
EmptyTrack(s) ==
    /\ track[s] = "empty"
    /\ session_drop_controller({s})
    /\ UNCHANGED <<seatVars, told, fgVT, console, sigrt, udevVars, busVars>>

-----------------------------------------------------------------------------
(***************************************************************************)
(* Taking and releasing devices                                            *)
(***************************************************************************)
\* session_device_verify(): a device that is plugged in but not known yet is
\* added as its udev event would.
verified(d) == d \in present

\* TakeDevice() of a device that is taken is refused, and the cleanup of the
\* handler frees the session device it has found.
TakeDeviceAgain(c, s, d) ==
    /\ Calls(c, s)
    /\ sd[s][d] # "none"
    /\ DevicesBecome(session_device_free(dev, c, s, {d}))
    /\ UNCHANGED <<seatVars, ctrlVars, vtVars, udevVars, busVars>>

\* session_device_new() and session_device_open() for a session that has
\* the seat: as active, or as paused when another master answers EINVAL.
opened(s, d) ==
    IF active # s \/ (d \in DRM /\ ~ can_set_master(dev, s, d))
    THEN [dev EXCEPT !.sd[s][d] = "paused"]
    ELSE [dev EXCEPT !.sd[s][d] = "active", !.fds = @ \cup {<<s, d>>}]

\* method_take_device()
TakeDevice(c, s, d) ==
    /\ Calls(c, s)
    /\ sd[s][d] = "none"
    /\ verified(d)
    /\ known' = known \cup {d}
    /\ LET D == opened(s, d)
       IN  DevicesBecome([D EXCEPT !.told =
               @ \cup {t \in {<<c, s, d>>} : D.sd[s][d] = "active"}])
    /\ UNCHANGED <<seatVars, ctrlVars, vtVars, present, udev, foreign, busVars>>

\* method_take_device(): another master answers EBUSY, the call fails.
TakeDeviceBusy(c, s, d) ==
    /\ Calls(c, s)
    /\ sd[s][d] = "none"
    /\ verified(d) /\ d \in DRM
    /\ active = s /\ ~ can_set_master(dev, s, d)
    /\ known' = known \cup {d}
    /\ UNCHANGED <<seatVars, ctrlVars, devVars, vtVars, present, udev, foreign,
                   busVars>>

\* method_release_device()
ReleaseDevice(c, s, d) ==
    /\ Calls(c, s)
    /\ sd[s][d] # "none"
    /\ DevicesBecome(session_device_free(dev, c, s, {d}))
    /\ UNCHANGED <<seatVars, ctrlVars, vtVars, udevVars, busVars>>

\* method_pause_device_complete() and session_device_complete_pause(): the
\* last device completes a pending switch.
PauseDeviceComplete(c, s, d) ==
    LET D == told_paused(session_device_stop(dev, s, {d}), c, s, {d})
    IN  /\ Calls(c, s)
        /\ sd[s][d] = "active"
        /\ IF Active(D, s) = {} /\ pending # Nil
           THEN SetActive(D, pending) /\ pending' = Nil
           ELSE DevicesBecome(D) /\ UNCHANGED <<active, pending>>
        /\ UNCHANGED <<machine, list, stopping, vt, ctrlVars, vtVars, udevVars,
                       busVars>>

\* session_activate(): the devices it waits for are those of the session it
\* activates.
devices_to_pause(s) == Active(dev, s)

\* session_activate() and seat_complete_switch()
Activate(s) ==
    /\ NoTrackQueued /\ s \in sessions /\ active # s
    /\ \/ /\ hasVTs
          /\ chvt(vt[s])
          /\ UNCHANGED <<active, pending, devVars>>
       \/ /\ ~ hasVTs
          /\ IF devices_to_pause(s) = {}
             THEN SetActive(dev, s) /\ pending' = Nil
             ELSE pending' = s /\ UNCHANGED <<active, devVars>>
          /\ UNCHANGED vtVars
    /\ UNCHANGED <<machine, list, stopping, vt, ctrlVars, udevVars, busVars>>

-----------------------------------------------------------------------------
(***************************************************************************)
(* Devices come and go                                                     *)
(***************************************************************************)
\* A device that comes back is a new one to the daemon: its name is used again
\* once the daemon has handled what happened to the previous one.
Plug(d) ==
    /\ d \in machine.hotplug \ present /\ udev[d] = <<>>
    /\ present' = present \cup {d}
    /\ udev' = [udev EXCEPT ![d] = <<"add">>]
    /\ UNCHANGED <<seatVars, ctrlVars, devVars, vtVars, known, foreign, busVars>>

Unplug(d) ==
    /\ d \in machine.hotplug \cap present
    /\ present' = present \ {d}
    /\ udev' = [udev EXCEPT ![d] = Append(@, "remove")]
    /\ fds' = {f \in fds : f[2] # d}
    /\ foreign' = foreign \ {d}
    /\ UNCHANGED <<seatVars, ctrlVars, sd, told, vtVars, known, busVars>>

\* Mutant: a device that goes away is forgotten, its session devices are not.
device_free_only(d) == UNCHANGED devVars

\* device_free() and device_detach(): the device is freed in every session.
device_free(d) ==
    /\ sd'   = [s \in Sessions |-> [sd[s] EXCEPT ![d] = "none"]]
    /\ fds'  = {f \in fds : f[2] # d}
    /\ told' = {t \in told : ~ (t[1] = controller[t[2]] /\ t[3] = d)}

\* manager_process_seat_device()
UdevEvent(d) ==
    /\ udev[d] # <<>>
    /\ udev' = [udev EXCEPT ![d] = Tail(@)]
    /\ \/ /\ Head(udev[d]) = "add"
          /\ known' = known \cup {d}
          /\ UNCHANGED devVars
       \/ /\ Head(udev[d]) = "remove"
          /\ known' = known \ {d}
          /\ device_free(d)
    /\ UNCHANGED <<seatVars, ctrlVars, vtVars, present, foreign, busVars>>

\* A process that is no session takes and drops DRM master.
ForeignMaster(d) ==
    /\ d \in machine.shared \cap present
    /\ \/ /\ d \notin foreign /\ \A s \in Sessions : <<s, d>> \notin fds
          /\ foreign' = foreign \cup {d}
       \/ d \in foreign /\ foreign' = foreign \ {d}
    /\ UNCHANGED <<seatVars, ctrlVars, devVars, vtVars, known, present, udev, busVars>>

-----------------------------------------------------------------------------
Init ==
    /\ machine \in Machines
    /\ list = <<>> /\ stopping = {} /\ vt = [s \in Sessions |-> 0]
    /\ active = Nil /\ pending = Nil
    /\ controller = [s \in Sessions |-> Nil]
    /\ track = [s \in Sessions |-> Nil]
    /\ vtfd = {}
    /\ sd = [s \in Sessions |-> [d \in Devices |-> "none"]]
    /\ fds = {} /\ told = {} /\ foreign = {}
    /\ known = machine.devices /\ present = machine.devices /\ udev = [d \in Devices |-> <<>>]
    /\ fgVT = 1 /\ console = FALSE /\ want = 0 /\ sigrt = 0
    /\ mode = [v \in VTs |-> "auto"]
    /\ bus = Clients /\ gone = {}

ControllerStep(c, s) ==
    \/ ReleaseControl(c, s)
    \/ TakeControl(c, s)
    \/ TakeControlVtFails(c, s)
    \/ TakeControlVanishes(c, s)
    \/ \E d \in Devices :
         \/ TakeDevice(c, s, d)
         \/ TakeDeviceAgain(c, s, d)
         \/ TakeDeviceBusy(c, s, d)
         \/ ReleaseDevice(c, s, d)
         \/ PauseDeviceComplete(c, s, d)

Next ==
    \/ \E s \in Sessions :
         \/ \E v \in 0 .. MaxVT : CreateSession(s, v)
         \/ StopSession(s)
         \/ RemoveSession(s)
         \/ EmptyTrack(s)
         \/ Activate(s)
    \/ \E c \in Clients, s \in Sessions : ControllerStep(c, s)
    \/ \E c \in Clients : Disconnect(c) \/ NameOwnerChanged(c)
    \/ \E d \in Devices : Plug(d) \/ Unplug(d) \/ UdevEvent(d) \/ ForeignMaster(d)
    \/ \E v \in VTs : SwitchVT(v)
    \/ ConsoleEvent
    \/ VtSwitch

Spec == Init /\ [][Next]_vars

\* The event loop gets around to a signal that waits.
FairSpec == Spec /\ WF_vars(VtSwitch)

-----------------------------------------------------------------------------
(***************************************************************************)
(* Properties                                                              *)
(***************************************************************************)
\* The state has the shape the handlers rely on.
TypeOK ==
    /\ machine \in Machines
    /\ list \in Seq(Sessions) /\ stopping \subseteq Sessions
    /\ vt \in [Sessions -> 0 .. MaxVT]
    /\ active \in Sessions \cup {Nil} /\ pending \in Sessions \cup {Nil}
    /\ controller \in [Sessions -> Clients \cup {Nil}]
    /\ track \in [Sessions -> Clients \cup {Nil, "empty"}]
    /\ vtfd \subseteq Sessions
    /\ sd \in [Sessions -> [Devices -> {"none", "active", "paused"}]]
    /\ fds \subseteq Sessions \X Devices
    /\ told \subseteq Clients \X Sessions \X Devices
    /\ known \subseteq Devices /\ present \subseteq Devices
    /\ foreign \subseteq DRM
    /\ udev \in [Devices -> Seq({"add", "remove"})]
    /\ fgVT \in VTs /\ console \in BOOLEAN /\ want \in 0 .. MaxVT
    /\ mode \in [VTs -> {"auto", "process"}]
    /\ sigrt \in 0 .. MaxSignals
    /\ bus \subseteq Clients /\ gone \subseteq Clients

\* "This guarantees that a session can only access session devices if the
\* session is active": a descriptor works only in the session that has the
\* seat, which holds the device as active, and a card has one master.
OnlyActiveHasDevices ==
    \A s \in Sessions, d \in Devices :
        /\ <<s, d>> \in fds =>
             sd[s][d] = "active" /\ active = s /\ controller[s] # Nil
        /\ sd[s][d] = "active" => active = s
        /\ <<s, d>> \in fds => d \notin foreign

\* With VTs, the session whose descriptors work is the one on the foreground
\* VT, unless the VT has changed and the console event is still to be read.
ForegroundHasDevices ==
    hasVTs /\ ~ console =>
        \A s \in Sessions, d \in Devices : <<s, d>> \in fds => vt[s] = fgVT

\* session_leave_vt() pauses the devices before it acknowledges the switch: a
\* session that holds its VT in process mode has no working descriptor when
\* the VT makes way.
PausedBeforeSwitch ==
    [][fgVT' # fgVT /\ mode[fgVT] = "process" =>
         \A s \in vtfd, d \in Devices : vt[s] = fgVT => <<s, d>> \notin fds']_vars

\* A controller leaves nothing behind: a session without one has no devices
\* and no open VT, and no VT is in process mode without a
\* session that answers for it, or the VT could never be left.
NothingLeftBehind ==
    /\ \A s \in Sessions : controller[s] = Nil =>
         /\ \A d \in Devices : sd[s][d] = "none"
         /\ s \notin vtfd
    /\ \A v \in VTs : mode[v] = "process" => \E s \in vtfd : vt[s] = v

\* A client in control knows which of its devices run: every pause, resume
\* and loss has been reported to it, and to it alone.
ControllerKnows ==
    \A s \in Sessions, d \in Devices, c \in bus :
        controller[s] = c => (<<c, s, d>> \in told <=> sd[s][d] = "active")

\* A session holds no device that the daemon has forgotten: freeing a Device
\* frees it in every session, and one that is gone is about to be freed.
DevicesKnown ==
    \A s \in Sessions, d \in Devices : sd[s][d] # "none" =>
        /\ d \in known
        /\ d \in present \/ udev[d] # <<>>

\* A VT that is asked to make way is answered, or stops being asked: nobody
\* is locked into the foreground VT.
SwitchAnswered == want # 0 ~> want = 0

\* "Closing the D-Bus connection implicitly releases control": no session has
\* a controller that is gone and whose end has been handled.
NoGhostController ==
    \A s \in Sessions : controller[s] # Nil => controller[s] \in bus \cup gone
=============================================================================
