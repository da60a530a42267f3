----------------------- MODULE SessionDevices_proofs ------------------------
(***************************************************************************)
(* Proofs that only the session in the foreground can use its devices,     *)
(* that a controller knows which of them run and leaves nothing behind,    *)
(* and that a VT switch has somebody who answers it, for any number of     *)
(* sessions, clients, devices and VTs.                                     *)
(***************************************************************************)
EXTENDS SessionDevices, Lists_proofs

\* The state of the devices, as the functions of logind-session-device.c map it.
DevType ==
    [sd : [Sessions -> [Devices -> {"none", "active", "paused"}]],
     fds : SUBSET (Sessions \X Devices),
     told : SUBSET (Clients \X Sessions \X Devices)]

\* The devices are in order when session a has the seat.
DevOK(D, a) ==
    \A s \in Sessions, d \in Devices :
        /\ <<s, d>> \in D.fds => D.sd[s][d] = "active" /\ d \notin foreign
        /\ D.sd[s][d] = "active" => a = s
        /\ D.sd[s][d] # "none" =>
             /\ controller[s] # Nil /\ d \in known
             /\ d \in present \/ udev[d] # <<>>
        /\ \A c \in bus : controller[s] = c =>
             (<<c, s, d>> \in D.told <=> D.sd[s][d] = "active")

\* Only sessions have a controller, only with one do they hold their VT, and a VT
\* in process mode is held.
ControlOK ==
    /\ LinkedOnce(list) /\ bus \cap gone = {}
    /\ \A s \in Sessions : controller[s] # Nil => s \in sessions
    /\ \A s \in vtfd : controller[s] # Nil
    /\ \A v \in VTs : mode[v] = "process" => \E s \in vtfd : vt[s] = v

\* With VTs every session has one, no switch waits for devices, and the active
\* session is the one on the foreground VT once the console event is read.
ForegroundOK ==
    hasVTs => /\ \A s \in sessions : vt[s] # 0
              /\ pending = Nil
              /\ active # Nil /\ ~ console => vt[active] = fgVT

\* The last thing that udev has to report of a device that is gone, and only of
\* such a device, is that.
UdevOK ==
    \A d \in Devices : \A i \in 1 .. Len(udev[d]) :
        udev[d][i] = "remove" <=> d \notin present /\ i = Len(udev[d])

\* The inductive invariant.
IInv == TypeOK /\ DevOK(dev, active) /\ ControlOK /\ ForegroundOK /\ UdevOK

-----------------------------------------------------------------------------
\* session_device_stop() pauses the active devices of the set and takes their
\* descriptors away.
LEMMA Stopped ==
    ASSUME NEW D \in DevType, NEW s \in Sessions, NEW ds \in SUBSET Devices
    PROVE  LET E == session_device_stop(D, s, ds)
           IN  /\ E \in DevType
               /\ E.told = D.told
               /\ \A x \in Sessions, d \in Devices :
                    LET off == x = s /\ d \in ds /\ D.sd[x][d] = "active"
                    IN  /\ E.sd[x][d] = IF off THEN "paused" ELSE D.sd[x][d]
                        /\ <<x, d>> \in E.fds <=> <<x, d>> \in D.fds /\ ~ off
<1> DEFINE on == ds \cap Active(D, s)
           f == [d \in Devices |-> IF d \in on THEN "paused" ELSE D.sd[s][d]]
           E == session_device_stop(D, s, ds)
<1>1. E = [D EXCEPT !.sd[s] = f, !.fds = D.fds \ ({s} \X on)]
  BY DEF session_device_stop
<1>2. f \in [Devices -> {"none", "active", "paused"}]
  BY DEF DevType
<1>3. \A d \in Devices : d \in on <=> d \in ds /\ D.sd[s][d] = "active"
  BY DEF Active
<1>4. \A d \in Devices : f[d] = IF d \in on THEN "paused" ELSE D.sd[s][d]
  OBVIOUS
<1> HIDE DEF on, f, E
<1>5. /\ E.sd = [D.sd EXCEPT ![s] = f]
      /\ E.fds = D.fds \ ({s} \X on)
      /\ E.told = D.told
      /\ E = [sd |-> E.sd, fds |-> E.fds, told |-> E.told]
  BY <1>1 DEF DevType
<1>6. E \in DevType
  BY <1>2, <1>5 DEF DevType
<1>7. ASSUME NEW x \in Sessions, NEW d \in Devices
      PROVE  LET off == x = s /\ d \in ds /\ D.sd[x][d] = "active"
             IN  /\ E.sd[x][d] = IF off THEN "paused" ELSE D.sd[x][d]
                 /\ <<x, d>> \in E.fds <=> <<x, d>> \in D.fds /\ ~ off
  BY <1>3, <1>4, <1>5 DEF DevType
<1> QED BY <1>5, <1>6, <1>7 DEF E

\* What a client hears when devices of s stop running.
LEMMA ToldPaused ==
    ASSUME NEW D \in DevType, NEW c, NEW s, NEW ds
    PROVE  LET E == told_paused(D, c, s, ds)
           IN  /\ E \in DevType
               /\ E.sd = D.sd /\ E.fds = D.fds
               /\ \A k \in Clients, x \in Sessions, d \in Devices :
                    <<k, x, d>> \in E.told <=>
                        /\ <<k, x, d>> \in D.told
                        /\ ~ (k = c /\ x = s /\ d \in ds)
<1> DEFINE E == told_paused(D, c, s, ds)
<1>1. E = [D EXCEPT !.told = D.told \ ({c} \X {s} \X ds)]
  BY DEF told_paused
<1> HIDE DEF E
<1>2. /\ E.sd = D.sd /\ E.fds = D.fds
      /\ E.told = D.told \ ({c} \X {s} \X ds)
      /\ E = [sd |-> E.sd, fds |-> E.fds, told |-> E.told]
  BY <1>1 DEF DevType
<1>3. E \in DevType
  BY <1>2 DEF DevType
<1> QED BY <1>2, <1>3 DEF E

\* What a client hears when devices of s run again.
LEMMA ToldRunning ==
    ASSUME NEW D \in DevType, NEW c \in Clients \cup {Nil}, NEW s \in Sessions,
           NEW ds \in SUBSET Devices
    PROVE  LET E == told_running(D, c, s, ds)
           IN  /\ E \in DevType
               /\ E.sd = D.sd /\ E.fds = D.fds
               /\ \A k \in Clients, x \in Sessions, d \in Devices :
                    <<k, x, d>> \in E.told <=>
                        \/ <<k, x, d>> \in D.told
                        \/ k = c /\ x = s /\ d \in ds
<1> DEFINE E == told_running(D, c, s, ds)
           T == {t \in {c} \X {s} \X ds : c # Nil}
<1>1. E = [D EXCEPT !.told = D.told \cup T]
  BY DEF told_running
<1>2. T \subseteq Clients \X Sessions \X Devices
  OBVIOUS
<1>3. \A k \in Clients, x \in Sessions, d \in Devices :
        <<k, x, d>> \in T <=> k = c /\ x = s /\ d \in ds
  BY SessionDevicesAssumption
<1> HIDE DEF E, T
<1>4. /\ E.sd = D.sd /\ E.fds = D.fds
      /\ E.told = D.told \cup T
      /\ E = [sd |-> E.sd, fds |-> E.fds, told |-> E.told]
  BY <1>1 DEF DevType
<1>5. E \in DevType
  BY <1>2, <1>4 DEF DevType
<1> QED BY <1>3, <1>4, <1>5 DEF E

\* Devices of s that are paused, and reported to its controller, keep the devices
\* in order.
LEMMA Paused ==
    ASSUME TypeOK, NEW a, NEW D \in DevType, DevOK(D, a), NEW s \in Sessions,
           NEW ds \in SUBSET Devices
    PROVE  LET E == told_paused(session_device_stop(D, s, ds), controller[s], s, ds)
           IN  /\ E \in DevType /\ DevOK(E, a)
               /\ \A x \in Sessions, d \in Devices :
                    LET off == x = s /\ d \in ds /\ D.sd[x][d] = "active"
                    IN  /\ E.sd[x][d] = IF off THEN "paused" ELSE D.sd[x][d]
                        /\ <<x, d>> \in E.fds <=> <<x, d>> \in D.fds /\ ~ off
<1> DEFINE F == session_device_stop(D, s, ds)
           E == told_paused(F, controller[s], s, ds)
<1>1. /\ F \in DevType /\ F.told = D.told
      /\ \A x \in Sessions, d \in Devices :
           LET off == x = s /\ d \in ds /\ D.sd[x][d] = "active"
           IN  /\ F.sd[x][d] = IF off THEN "paused" ELSE D.sd[x][d]
               /\ <<x, d>> \in F.fds <=> <<x, d>> \in D.fds /\ ~ off
  BY Stopped
<1> HIDE DEF F
<1>2. /\ E \in DevType /\ E.sd = F.sd /\ E.fds = F.fds
      /\ \A k \in Clients, x \in Sessions, d \in Devices :
           <<k, x, d>> \in E.told <=>
               /\ <<k, x, d>> \in F.told
               /\ ~ (k = controller[s] /\ x = s /\ d \in ds)
  BY <1>1, ToldPaused
<1> HIDE DEF E
<1>3. ASSUME NEW x \in Sessions, NEW d \in Devices
      PROVE  LET off == x = s /\ d \in ds /\ D.sd[x][d] = "active"
             IN  /\ E.sd[x][d] = IF off THEN "paused" ELSE D.sd[x][d]
                 /\ <<x, d>> \in E.fds <=> <<x, d>> \in D.fds /\ ~ off
  BY <1>1, <1>2
<1>4. ASSUME NEW x \in Sessions, NEW d \in Devices, NEW c \in bus, controller[x] = c
      PROVE  <<c, x, d>> \in E.told <=> E.sd[x][d] = "active"
  <2>1. c \in Clients /\ (<<c, x, d>> \in D.told <=> D.sd[x][d] = "active")
    BY <1>4 DEF DevOK, TypeOK
  <2>2. <<c, x, d>> \in E.told <=>
            <<c, x, d>> \in D.told /\ ~ (c = controller[s] /\ x = s /\ d \in ds)
    BY <2>1, <1>1, <1>2
  <2> QED BY <2>1, <2>2, <1>3, <1>4
<1>5. DevOK(E, a)
  <2> SUFFICES ASSUME NEW x \in Sessions, NEW d \in Devices
               PROVE  /\ <<x, d>> \in E.fds => E.sd[x][d] = "active" /\ d \notin foreign
                      /\ E.sd[x][d] = "active" => a = x
                      /\ E.sd[x][d] # "none" =>
                           /\ controller[x] # Nil /\ d \in known
                           /\ d \in present \/ udev[d] # <<>>
    BY <1>4 DEF DevOK
  <2>1. /\ <<x, d>> \in D.fds => D.sd[x][d] = "active" /\ d \notin foreign
        /\ D.sd[x][d] = "active" => a = x
        /\ D.sd[x][d] # "none" =>
             /\ controller[x] # Nil /\ d \in known
             /\ d \in present \/ udev[d] # <<>>
    BY DEF DevOK
  <2> QED BY <2>1, <1>3
<1> QED BY <1>2, <1>3, <1>5 DEF E, F

\* session_device_pause_all() keeps the devices in order, whoever has the seat
\* afterwards, and session s is left without a running device.
LEMMA PausedAll ==
    ASSUME TypeOK, NEW a, NEW D \in DevType, DevOK(D, a), NEW s \in Sessions
    PROVE  LET E == session_device_pause_all(D, controller[s], s)
           IN  /\ E \in DevType /\ DevOK(E, a)
               /\ a = s => \A b : DevOK(E, b)
               /\ \A x \in Sessions, d \in Devices :
                    <<x, d>> \in E.fds => x # s /\ <<x, d>> \in D.fds
<1> DEFINE on == Active(D, s)
           E == session_device_pause_all(D, controller[s], s)
<1>1. on \in SUBSET Devices /\ \A d \in Devices : d \in on <=> D.sd[s][d] = "active"
  BY DEF Active
<1>2. E = told_paused(session_device_stop(D, s, on), controller[s], s, on)
  BY DEF session_device_pause_all
<1> HIDE DEF on, E
<1>3. /\ E \in DevType /\ DevOK(E, a)
      /\ \A x \in Sessions, d \in Devices :
           LET off == x = s /\ d \in on /\ D.sd[x][d] = "active"
           IN  /\ E.sd[x][d] = IF off THEN "paused" ELSE D.sd[x][d]
               /\ <<x, d>> \in E.fds <=> <<x, d>> \in D.fds /\ ~ off
  BY <1>1, <1>2, Paused
<1>4. ASSUME NEW x \in Sessions, NEW d \in Devices
      PROVE  /\ <<x, d>> \in E.fds => x # s /\ <<x, d>> \in D.fds
             /\ E.sd[x][d] = "active" => x # s /\ D.sd[x][d] = "active"
  BY <1>1, <1>3 DEF DevOK
<1>5. ASSUME a = s, NEW b PROVE DevOK(E, b)
  <2>1. \A x \in Sessions, d \in Devices : E.sd[x][d] # "active"
    BY <1>4, <1>5 DEF DevOK
  <2> QED BY <1>3, <2>1 DEF DevOK
<1> QED BY <1>3, <1>4, <1>5 DEF E

\* session_device_resume_all() keeps the devices in order when no other session
\* has a running device.
LEMMA ResumedAll ==
    ASSUME TypeOK, NEW D \in DevType, NEW s \in Sessions, DevOK(D, s)
    PROVE  LET E == session_device_resume_all(D, controller[s], s)
           IN  E \in DevType /\ DevOK(E, s)
<1> DEFINE on == {d \in Devices : can_start(D, s, d)}
           f == [d \in Devices |-> IF d \in on THEN "active" ELSE D.sd[s][d]]
           F == [D EXCEPT !.sd[s] = f, !.fds = D.fds \cup ({s} \X on)]
           E == session_device_resume_all(D, controller[s], s)
<1>1. \A d \in on : D.sd[s][d] = "paused" /\ d \notin foreign
  BY SessionDevicesAssumption DEF can_start, can_set_master, TypeOK, Devices
<1>2. f \in [Devices -> {"none", "active", "paused"}]
  BY DEF DevType
<1>3. \A d \in Devices : f[d] = IF d \in on THEN "active" ELSE D.sd[s][d]
  OBVIOUS
<1>4. E = told_running(F, controller[s], s, on)
  BY DEF session_device_resume_all
<1>5. on \in SUBSET Devices /\ controller[s] \in Clients \cup {Nil}
  BY DEF TypeOK
<1>13. F = [D EXCEPT !.sd[s] = f, !.fds = D.fds \cup ({s} \X on)]
  OBVIOUS
<1> HIDE DEF on, f, E, F
<1>6. /\ F.sd = [D.sd EXCEPT ![s] = f]
      /\ F.fds = D.fds \cup ({s} \X on)
      /\ F.told = D.told
      /\ F = [sd |-> F.sd, fds |-> F.fds, told |-> F.told]
  BY <1>13 DEF DevType
<1>7. F \in DevType
  BY <1>2, <1>5, <1>6 DEF DevType
<1>8. ASSUME NEW x \in Sessions, NEW d \in Devices
      PROVE  LET run == x = s /\ d \in on
             IN  /\ F.sd[x][d] = IF run THEN "active" ELSE D.sd[x][d]
                 /\ <<x, d>> \in F.fds <=> <<x, d>> \in D.fds \/ run
  <2>1. D.sd \in [Sessions -> [Devices -> {"none", "active", "paused"}]]
    BY DEF DevType
  <2> QED BY <2>1, <1>3, <1>6
<1>9. /\ E \in DevType /\ E.sd = F.sd /\ E.fds = F.fds
      /\ \A k \in Clients, x \in Sessions, d \in Devices :
           <<k, x, d>> \in E.told <=>
               <<k, x, d>> \in D.told \/ (k = controller[s] /\ x = s /\ d \in on)
  BY <1>4, <1>5, <1>6, <1>7, ToldRunning
<1>10. ASSUME NEW x \in Sessions, NEW d \in Devices, NEW c \in bus, controller[x] = c
       PROVE  <<c, x, d>> \in E.told <=> E.sd[x][d] = "active"
  <2>1. c \in Clients /\ (<<c, x, d>> \in D.told <=> D.sd[x][d] = "active")
    BY <1>10 DEF DevOK, TypeOK
  <2> QED BY <2>1, <1>8, <1>9, <1>10
<1>11. ASSUME NEW x \in Sessions, NEW d \in Devices
       PROVE  /\ <<x, d>> \in E.fds => E.sd[x][d] = "active" /\ d \notin foreign
              /\ E.sd[x][d] = "active" => s = x
              /\ E.sd[x][d] # "none" => D.sd[x][d] # "none"
  BY <1>1, <1>8, <1>9 DEF DevOK
<1>12. DevOK(E, s)
  BY <1>10, <1>11 DEF DevOK
<1> QED BY <1>9, <1>12 DEF E

\* seat_set_active() keeps the devices in order: those of the session that loses
\* the seat are paused before those of the new one are resumed.
LEMMA SeatSetActive ==
    ASSUME TypeOK, NEW D \in DevType, DevOK(D, active), NEW new \in Sessions \cup {Nil}
    PROVE  LET E == seat_set_active(D, new)
           IN  E \in DevType /\ DevOK(E, new)
<1> DEFINE P == IF active # Nil /\ active # new
                THEN session_device_pause_all(D, controller[active], active)
                ELSE D
<1>1. P \in DevType /\ DevOK(P, new)
  <2>1. CASE active # Nil /\ active # new
    BY <2>1, PausedAll DEF TypeOK
  <2>2. CASE active = new
    BY <2>2
  <2>3. CASE active = Nil
    BY <2>3, SessionDevicesAssumption DEF DevOK
  <2> QED BY <2>1, <2>2, <2>3
<1>2. seat_set_active(D, new) = IF new = Nil THEN P
                                ELSE session_device_resume_all(P, controller[new], new)
  BY DEF seat_set_active
<1> HIDE DEF P
<1> QED BY <1>1, <1>2, ResumedAll

\* session_device_free() keeps the devices in order, and those of the set are gone.
LEMMA Freed ==
    ASSUME TypeOK, NEW a, NEW D \in DevType, DevOK(D, a), NEW s \in Sessions,
           NEW ds \in SUBSET Devices
    PROVE  LET E == session_device_free(D, controller[s], s, ds)
           IN  /\ E \in DevType /\ DevOK(E, a)
               /\ \A d \in ds : E.sd[s][d] = "none" /\ <<s, d>> \notin E.fds
               /\ \A x \in Sessions \ {s} : E.sd[x] = D.sd[x]
               /\ \A x \in Sessions, d \in Devices :
                    <<x, d>> \in E.fds => <<x, d>> \in D.fds
               /\ \A c \in Clients, x \in Sessions \ {s}, d \in Devices :
                    <<c, x, d>> \in E.told <=> <<c, x, d>> \in D.told
<1> DEFINE F == session_device_stop(D, s, ds)
           G == told_paused(F, controller[s], s, ds)
           f == [d \in Devices |-> IF d \in ds THEN "none" ELSE G.sd[s][d]]
           E == session_device_free(D, controller[s], s, ds)
<1>1. E = [G EXCEPT !.sd[s] = f]
  BY DEF session_device_free
<1>2. /\ F \in DevType /\ F.told = D.told
      /\ \A x \in Sessions, d \in Devices :
           LET off == x = s /\ d \in ds /\ D.sd[x][d] = "active"
           IN  /\ F.sd[x][d] = IF off THEN "paused" ELSE D.sd[x][d]
               /\ <<x, d>> \in F.fds <=> <<x, d>> \in D.fds /\ ~ off
  BY Stopped
<1> HIDE DEF F
<1>3. /\ G \in DevType /\ G.sd = F.sd /\ G.fds = F.fds
      /\ \A k \in Clients, x \in Sessions, d \in Devices :
           <<k, x, d>> \in G.told <=>
               <<k, x, d>> \in F.told /\ ~ (k = controller[s] /\ x = s /\ d \in ds)
  BY <1>2, ToldPaused
<1> HIDE DEF G
<1>4. f \in [Devices -> {"none", "active", "paused"}]
  BY <1>3 DEF DevType
<1>5. \A d \in Devices : f[d] = IF d \in ds THEN "none" ELSE G.sd[s][d]
  OBVIOUS
<1> HIDE DEF f, E
<1>6. /\ E.sd = [G.sd EXCEPT ![s] = f] /\ E.fds = G.fds /\ E.told = G.told
      /\ E = [sd |-> E.sd, fds |-> E.fds, told |-> E.told]
  BY <1>1, <1>3 DEF DevType
<1>7. E \in DevType
  BY <1>3, <1>4, <1>6 DEF DevType
<1>8. ASSUME NEW x \in Sessions, NEW d \in Devices
      PROVE  /\ E.sd[x][d] = IF x = s /\ d \in ds THEN "none" ELSE D.sd[x][d]
             /\ <<x, d>> \in E.fds <=>
                  <<x, d>> \in D.fds /\ ~ (x = s /\ d \in ds /\ D.sd[x][d] = "active")
  BY <1>2, <1>3, <1>5, <1>6 DEF DevType
<1>9. \A x \in Sessions, d \in Devices, c \in Clients :
        <<c, x, d>> \in E.told <=>
            <<c, x, d>> \in D.told /\ ~ (c = controller[s] /\ x = s /\ d \in ds)
  BY <1>2, <1>3, <1>6
<1>10. ASSUME NEW x \in Sessions, NEW d \in Devices, NEW c \in bus, controller[x] = c
       PROVE  <<c, x, d>> \in E.told <=> E.sd[x][d] = "active"
  <2>1. c \in Clients /\ (<<c, x, d>> \in D.told <=> D.sd[x][d] = "active")
    BY <1>10 DEF DevOK, TypeOK
  <2> QED BY <2>1, <1>8, <1>9, <1>10
<1>11. DevOK(E, a)
  <2> SUFFICES ASSUME NEW x \in Sessions, NEW d \in Devices
               PROVE  /\ <<x, d>> \in E.fds => E.sd[x][d] = "active" /\ d \notin foreign
                      /\ E.sd[x][d] = "active" => a = x
                      /\ E.sd[x][d] # "none" =>
                           /\ controller[x] # Nil /\ d \in known
                           /\ d \in present \/ udev[d] # <<>>
    BY <1>10 DEF DevOK
  <2>1. /\ <<x, d>> \in D.fds => D.sd[x][d] = "active" /\ d \notin foreign
        /\ D.sd[x][d] = "active" => a = x
        /\ D.sd[x][d] # "none" =>
             /\ controller[x] # Nil /\ d \in known
             /\ d \in present \/ udev[d] # <<>>
    BY DEF DevOK
  <2> QED BY <2>1, <1>8
<1>12. \A d \in ds : E.sd[s][d] = "none" /\ <<s, d>> \notin E.fds
  BY <1>8 DEF DevOK
<1>13. \A x \in Sessions \ {s} : E.sd[x] = D.sd[x]
  <2>1. /\ E.sd \in [Sessions -> [Devices -> {"none", "active", "paused"}]]
        /\ D.sd \in [Sessions -> [Devices -> {"none", "active", "paused"}]]
    BY <1>7 DEF DevType
  <2> TAKE x \in Sessions \ {s}
  <2>2. /\ E.sd[x] \in [Devices -> {"none", "active", "paused"}]
        /\ D.sd[x] \in [Devices -> {"none", "active", "paused"}]
    BY <2>1
  <2>3. \A d \in Devices : E.sd[x][d] = D.sd[x][d]
    BY <1>8
  <2> HIDE DEF Devices
  <2> QED BY <2>2, <2>3
<1> QED BY <1>7, <1>8, <1>9, <1>11, <1>12, <1>13 DEF E

-----------------------------------------------------------------------------
\* The functions of logind-session-device.c are applied to a state of the devices.
LEMMA DevTyped ==
    ASSUME TypeOK
    PROVE  dev \in DevType /\ dev.sd = sd /\ dev.fds = fds /\ dev.told = told
BY DEF TypeOK, dev, DevType

\* A handler leaves the devices as its last call of these functions does.
LEMMA Become ==
    ASSUME NEW E \in DevType, DevicesBecome(E)
    PROVE  /\ dev' = E
           /\ sd' \in [Sessions -> [Devices -> {"none", "active", "paused"}]]
           /\ fds' \subseteq Sessions \X Devices
           /\ told' \subseteq Clients \X Sessions \X Devices
BY DEF DevicesBecome, dev, DevType

\* The devices stay in order when a handler leaves them so for the session it
\* gives the seat to.
LEMMA DevicesKept ==
    ASSUME NEW E \in DevType, DevicesBecome(E), DevOK(E, active'),
           UNCHANGED <<foreign, controller, known, present, udev, bus>>
    PROVE  DevOK(dev, active)'
<1>1. dev' = E
  BY Become
<1> QED BY <1>1 DEF DevOK

\* seat_active_vt_changed() finds a session on the VT, or none.
LEMMA VtSessionFound ==
    ASSUME NEW v, NEW l
    PROVE  LET new == VtSession(l, v)
           IN  new # Nil => new \in Sessions /\ vt[new] = v /\ new \in Linked(l)
<1>1. \A S : FirstIn(l, S) # Nil => FirstIn(l, S) \in S \cap Linked(l)
  BY FirstInLinked
<1>2. OnVT(v) \subseteq Sessions /\ \A s \in OnVT(v) : vt[s] = v
  BY DEF OnVT
<1> QED BY <1>1, <1>2 DEF VtSession

\* Everything a step leaves alone stays in order.
LEMMA StutterKeeps ==
    ASSUME IInv, UNCHANGED vars
    PROVE  IInv'
BY DEF IInv, vars, seatVars, ctrlVars, devVars, vtVars, udevVars, busVars, TypeOK,
       DevOK, dev, ControlOK, ForegroundOK, UdevOK, sessions, hasVTs

\* VT_ACTIVATE on a VT: the mode of no VT changes, and a VT that comes to the
\* foreground leaves an event to read.
LEMMA ChvtTyped ==
    ASSUME TypeOK, NEW v \in VTs, chvt(v)
    PROVE  /\ fgVT' \in VTs /\ console' \in BOOLEAN /\ want' \in 0 .. MaxVT
           /\ sigrt' \in 0 .. MaxSignals /\ mode' = mode
           /\ (fgVT' = fgVT /\ console' = console) \/ console'
<1>1. /\ fgVT \in VTs /\ want \in 0 .. MaxVT /\ sigrt \in 0 .. MaxSignals
      /\ MaxVT \in Nat /\ MaxSignals \in Nat
  BY SessionDevicesAssumption DEF TypeOK
<1>2. /\ fgVT' \in VTs /\ want' \in 0 .. MaxVT /\ sigrt' \in 0 .. MaxSignals
  BY <1>1 DEF chvt, vtVars, VTs
<1>3. /\ console' \in BOOLEAN /\ mode' = mode
      /\ (fgVT' = fgVT /\ console' = console) \/ console'
  BY DEF chvt, vtVars, TypeOK
<1> QED BY <1>2, <1>3

\* Someone switches the VT: until the console event is read the active session may
\* be on another VT.
LEMMA SwitchVTKeeps ==
    ASSUME IInv, NEW v \in VTs, SwitchVT(v)
    PROVE  IInv'
<1> USE DEF IInv, seatVars, ctrlVars, devVars, vtVars, udevVars, busVars
<1>1. TypeOK'
  <2>1. chvt(v)
    BY DEF SwitchVT
  <2> QED BY <2>1, ChvtTyped DEF SwitchVT, TypeOK
<1>2. DevOK(dev, active)'
  BY DEF SwitchVT, DevOK, dev
<1>3. ControlOK'
  BY DEF SwitchVT, chvt, ControlOK, sessions
<1>4. ForegroundOK' /\ UdevOK'
  <2>1. (fgVT' = fgVT /\ console' = console) \/ console'
    BY ChvtTyped DEF SwitchVT
  <2> QED BY <2>1 DEF SwitchVT, ForegroundOK, UdevOK, sessions, hasVTs
<1> QED BY <1>1, <1>2, <1>3, <1>4

\* session_stop() leaves the devices and the VT alone.
LEMMA StopSessionKeeps ==
    ASSUME IInv, NEW s \in Sessions, StopSession(s)
    PROVE  IInv'
<1> USE DEF IInv, seatVars, ctrlVars, devVars, vtVars, udevVars, busVars
<1>1. TypeOK'
  BY DEF StopSession, TypeOK
<1>2. DevOK(dev, active)'
  BY DEF StopSession, DevOK, dev
<1>3. ControlOK' /\ ForegroundOK' /\ UdevOK'
  BY DEF StopSession, ControlOK, ForegroundOK, UdevOK, sessions, hasVTs
<1> QED BY <1>1, <1>2, <1>3

\* The console event gives the seat to a session on the foreground VT, or to none.
LEMMA ConsoleEventKeeps ==
    ASSUME IInv, ConsoleEvent
    PROVE  IInv'
<1> USE DEF IInv, ctrlVars, udevVars, busVars
<1> DEFINE new == VtSession(list, fgVT)
           E == seat_set_active(dev, new)
<1>1. new \in Sessions \cup {Nil} /\ (new # Nil => vt[new] = fgVT)
  BY VtSessionFound
<1>2. active' = new /\ DevicesBecome(E)
  BY DEF ConsoleEvent, SetActive
<1> HIDE DEF new
<1>3. E \in DevType /\ DevOK(E, new)
  BY <1>1, DevTyped, SeatSetActive
<1> HIDE DEF E
<1>4. TypeOK'
  BY <1>1, <1>2, <1>3, Become DEF ConsoleEvent, TypeOK
<1>5. DevOK(dev, active)'
  BY <1>2, <1>3, DevicesKept DEF ConsoleEvent
<1>6. ControlOK' /\ ForegroundOK' /\ UdevOK'
  BY <1>1, <1>2 DEF ConsoleEvent, ControlOK, ForegroundOK, UdevOK, sessions, hasVTs
<1> QED BY <1>4, <1>5, <1>6

\* manager_vt_switch() gives the seat to the session on the VT, pauses the devices
\* of the session that holds it and lets the VT go.
LEMMA VtSwitchKeeps ==
    ASSUME IInv, VtSwitch
    PROVE  IInv'
<1> USE DEF IInv, ctrlVars, udevVars, busVars
<1> DEFINE new  == VtSession(list, fgVT)
           held == VtHolder(new)
           D == seat_set_active(dev, new)
           E == IF held = Nil THEN D ELSE session_leave_vt(D, held)
<1>1. new \in Sessions \cup {Nil} /\ (new # Nil => vt[new] = fgVT)
  BY VtSessionFound
<1>2. active' = new /\ DevicesBecome(E)
  BY DEF VtSwitch
<1>3. held \in Sessions \cup {Nil}
  <2>1. FirstIn(list, OnVT(fgVT) \cap vtfd) \in (OnVT(fgVT) \cap vtfd) \cup {Nil}
    BY FirstInMember
  <2> QED BY <1>1, <2>1 DEF VtHolder, OnVT
<1>4. /\ sigrt' = sigrt - 1 /\ sigrt > 0
      /\ \/ want # 0 /\ fgVT' = want /\ want' = 0 /\ console' = TRUE
         \/ UNCHANGED <<fgVT, want>> /\ console' \in {FALSE, console}
      /\ \/ mode' = mode \/ mode' = [mode EXCEPT ![fgVT] = "auto"]
  BY DEF VtSwitch, TypeOK
<1>5. UNCHANGED <<machine, list, stopping, vt, pending, ctrlVars, udevVars, busVars>>
  BY DEF VtSwitch
<1> HIDE DEF new, held
<1>6. D \in DevType /\ DevOK(D, new)
  BY <1>1, DevTyped, SeatSetActive
<1> HIDE DEF D
<1>7. E \in DevType /\ DevOK(E, new)
  BY <1>3, <1>6, PausedAll DEF session_leave_vt
<1> HIDE DEF E
<1>8. TypeOK'
  <2>1. /\ fgVT \in VTs /\ want \in 0 .. MaxVT /\ sigrt \in 0 .. MaxSignals
        /\ MaxVT \in Nat /\ MaxSignals \in Nat
    BY SessionDevicesAssumption DEF TypeOK
  <2>2. /\ fgVT' \in VTs /\ want' \in 0 .. MaxVT /\ sigrt' \in 0 .. MaxSignals
    <3>1. /\ sigrt' = sigrt - 1 /\ sigrt > 0
          /\ \/ want # 0 /\ fgVT' = want /\ want' = 0
             \/ fgVT' = fgVT /\ want' = want
      BY <1>4
    <3> QED BY <2>1, <3>1 DEF VTs
  <2>3. console' \in BOOLEAN /\ mode' \in [VTs -> {"auto", "process"}]
    BY <1>4 DEF TypeOK
  <2> QED BY <1>1, <1>2, <1>5, <1>7, <2>2, <2>3, Become DEF TypeOK
<1>9. DevOK(dev, active)'
  BY <1>2, <1>5, <1>7, DevicesKept
<1>10. ControlOK' /\ UdevOK'
  BY <1>4, <1>5 DEF ControlOK, UdevOK, sessions, TypeOK
<1>11. ForegroundOK'
  BY <1>1, <1>2, <1>4, <1>5 DEF ForegroundOK, sessions, hasVTs
<1> QED BY <1>8, <1>9, <1>10, <1>11

\* A new session has no controller, so it holds no VT and no device.
LEMMA CreateSessionKeeps ==
    ASSUME IInv, NEW s \in Sessions, NEW v \in 0 .. MaxVT, CreateSession(s, v)
    PROVE  IInv'
<1> USE DEF IInv, ctrlVars, udevVars, busVars
<1> DEFINE new == IF hasVTs THEN IF fgVT = v THEN s ELSE VtSession(list, fgVT) ELSE s
           E == seat_set_active(dev, new)
<1>1. /\ new \in Sessions \cup {Nil}
      /\ hasVTs => new = Nil \/ (new = s /\ v = fgVT) \/ (new # s /\ vt[new] = fgVT)
  BY VtSessionFound DEF CreateSession, sessions
<1>2. /\ active' = new /\ DevicesBecome(E)
      /\ console' \in {FALSE, console}
      /\ s \notin sessions /\ (hasVTs => v # 0)
      /\ list' = LIST_PREPEND(list, s) /\ vt' = [vt EXCEPT ![s] = v]
      /\ stopping' = stopping \ {s}
      /\ UNCHANGED <<machine, pending, ctrlVars, fgVT, mode, want, sigrt, udevVars,
                     busVars>>
  <2>1. /\ s \notin sessions
        /\ list' = LIST_PREPEND(list, s) /\ vt' = [vt EXCEPT ![s] = v]
        /\ stopping' = stopping \ {s}
        /\ UNCHANGED <<machine, pending, ctrlVars, fgVT, mode, want, sigrt, udevVars,
                       busVars>>
    BY DEF CreateSession
  <2>2. SetActive(dev, new)
    BY DEF CreateSession
  <2>3. console' \in {FALSE, console}
    BY DEF CreateSession
  <2>4. hasVTs => v # 0
    <3>1. MaxVT \in Nat
      BY SessionDevicesAssumption
    <3> QED BY <3>1 DEF CreateSession, VTs
  <2> QED BY <2>1, <2>2, <2>3, <2>4 DEF SetActive
<1> HIDE DEF new
<1>3. E \in DevType /\ DevOK(E, new)
  BY <1>1, DevTyped, SeatSetActive
<1> HIDE DEF E
<1>4. /\ list' \in Seq(Sessions) /\ sessions' = sessions \cup {s}
      /\ LinkedOnce(list')
  <2>1. list \in Seq(Sessions) /\ LinkedOnce(list) /\ s \notin Linked(list)
    BY <1>2 DEF sessions, TypeOK, ControlOK
  <2>2. /\ LIST_PREPEND(list, s) \in Seq(Sessions)
        /\ Linked(LIST_PREPEND(list, s)) = Linked(list) \cup {s}
        /\ LinkedOnce(LIST_PREPEND(list, s))
    BY <2>1, Prepended
  <2>3. list' = LIST_PREPEND(list, s)
    BY <1>2
  <2> QED BY <2>2, <2>3 DEF sessions
<1>5. TypeOK'
  BY <1>1, <1>2, <1>3, <1>4, Become DEF TypeOK
<1>6. DevOK(dev, active)'
  BY <1>2, <1>3, DevicesKept
<1>7. ControlOK'
  <2>1. s \notin vtfd
    BY <1>2 DEF ControlOK
  <2>2. \A x \in vtfd : vt'[x] = vt[x]
    BY <1>2, <2>1 DEF TypeOK
  <2> QED BY <1>2, <1>4, <2>2 DEF ControlOK
<1>8. ForegroundOK'
  BY <1>1, <1>2, <1>4, SessionDevicesAssumption DEF ForegroundOK, hasVTs, TypeOK
<1>9. UdevOK'
  BY <1>2 DEF UdevOK
<1> QED BY <1>5, <1>6, <1>7, <1>8, <1>9

\* session_restore_vt() leaves no VT in process mode that nobody holds.
LEMMA Restored ==
    ASSUME TypeOK, ControlOK, NEW ss \in SUBSET Sessions, session_restore_vt(ss)
    PROVE  /\ mode' \in [VTs -> {"auto", "process"}]
           /\ want' \in 0 .. MaxVT
           /\ vtfd' = vtfd \ ss
           /\ \A v \in VTs : mode'[v] = "process" => \E s \in vtfd' : vt[s] = v
<1>1. /\ mode' \in [VTs -> {"auto", "process"}] /\ vtfd' = vtfd \ ss
      /\ \A v \in VTs : mode'[v] = "process" =>
           mode[v] = "process" /\ \A s \in ss \cap vtfd : vt[s] # v
  BY DEF session_restore_vt, VT_SETMODE, TypeOK
<1>2. want' \in 0 .. MaxVT
  <2>1. want' = 0 \/ want' = want
    BY DEF session_restore_vt, VT_SETMODE
  <2> QED BY <2>1, SessionDevicesAssumption DEF TypeOK
<1> QED BY <1>1, <1>2 DEF ControlOK

\* session_finalize() and session_free() leave neither devices nor an open VT.
LEMMA RemoveSessionKeeps ==
    ASSUME IInv, NEW s \in Sessions, RemoveSession(s)
    PROVE  IInv'
<1> USE DEF IInv, udevVars, busVars
<1> DEFINE E == session_device_free(dev, controller[s], s, Devices)
<1>1. /\ E \in DevType /\ DevOK(E, active)
      /\ \A d \in Devices : E.sd[s][d] = "none" /\ <<s, d>> \notin E.fds
  BY DevTyped, Freed
<1>2. /\ s \in sessions
      /\ DevicesBecome(E)
      /\ active' = IF active = s THEN Nil ELSE active
      /\ pending' = IF pending = s THEN Nil ELSE pending
      /\ controller' = [controller EXCEPT ![s] = Nil]
      /\ track' = [track EXCEPT ![s] = Nil]
      /\ session_restore_vt({s})
      /\ list' = LIST_REMOVE(list, s)
      /\ stopping' = stopping \ {s}
      /\ vt' = [vt EXCEPT ![s] = 0]
      /\ UNCHANGED <<machine, fgVT, console, sigrt, udevVars, busVars>>
  BY DEF RemoveSession, RestoreOnRemoval
<1> HIDE DEF E
<1>3. /\ mode' \in [VTs -> {"auto", "process"}]
      /\ want' \in 0 .. MaxVT
      /\ vtfd' = vtfd \ {s}
      /\ \A v \in VTs : mode'[v] = "process" => \E x \in vtfd' : vt[x] = v
  BY <1>2, Restored
<1>4. list' \in Seq(Sessions) /\ sessions' = sessions \ {s} /\ LinkedOnce(list')
  <2>1. list \in Seq(Sessions) /\ LinkedOnce(list) /\ s \in Linked(list)
    BY <1>2 DEF sessions, TypeOK, ControlOK
  <2>2. /\ LIST_REMOVE(list, s) \in Seq(Sessions)
        /\ Linked(LIST_REMOVE(list, s)) = Linked(list) \ {s}
        /\ LinkedOnce(LIST_REMOVE(list, s))
    BY <2>1, Removed
  <2>3. list' = LIST_REMOVE(list, s)
    BY <1>2
  <2> QED BY <2>2, <2>3 DEF sessions
<1>5. TypeOK'
  <2>1. 0 \in 0 .. MaxVT
    BY SessionDevicesAssumption
  <2> QED BY <1>1, <1>2, <1>3, <1>4, <2>1, Become DEF TypeOK
<1>6. DevOK(dev, active)'
  <2>1. dev' = E
    BY <1>1, <1>2, Become
  <2>2. \A x \in Sessions : controller'[x] = IF x = s THEN Nil ELSE controller[x]
    BY <1>2 DEF TypeOK
  <2>3. Nil \notin bus
    BY SessionDevicesAssumption DEF TypeOK
  <2>4. ASSUME NEW x \in Sessions, NEW d \in Devices
        PROVE  /\ <<x, d>> \in E.fds => E.sd[x][d] = "active" /\ d \notin foreign
               /\ E.sd[x][d] = "active" => active' = x
               /\ E.sd[x][d] # "none" =>
                    /\ controller'[x] # Nil /\ d \in known
                    /\ d \in present \/ udev[d] # <<>>
               /\ \A c \in bus : controller'[x] = c =>
                    (<<c, x, d>> \in E.told <=> E.sd[x][d] = "active")
    <3>1. CASE x = s
      BY <3>1, <1>1, <2>2, <2>3
    <3>2. CASE x # s
      <4>1. /\ <<x, d>> \in E.fds => E.sd[x][d] = "active" /\ d \notin foreign
            /\ E.sd[x][d] = "active" => active = x
            /\ E.sd[x][d] # "none" =>
                 /\ controller[x] # Nil /\ d \in known
                 /\ d \in present \/ udev[d] # <<>>
            /\ \A c \in bus : controller[x] = c =>
                 (<<c, x, d>> \in E.told <=> E.sd[x][d] = "active")
        BY <1>1 DEF DevOK
      <4> QED BY <4>1, <3>2, <1>2, <2>2
    <3> QED BY <3>1, <3>2
  <2> QED BY <1>2, <2>1, <2>4 DEF DevOK
<1>7. ControlOK'
  BY <1>2, <1>3, <1>4 DEF ControlOK, TypeOK
<1>8. ForegroundOK'
  BY <1>2, <1>4 DEF ForegroundOK, hasVTs, TypeOK
<1>9. UdevOK'
  BY <1>2 DEF UdevOK
<1> QED BY <1>5, <1>6, <1>7, <1>8, <1>9

\* session_drop_controller(), with what the clients know told' of the sessions that
\* keep their controller, keeps the invariant.
LEMMA DroppedController ==
    ASSUME IInv, NEW ss \in SUBSET Sessions, session_drop_controller(ss),
           told' \subseteq told,
           \A s \in Sessions \ ss, d \in Devices : controller[s] \in bus =>
               (<<controller[s], s, d>> \in told => <<controller[s], s, d>> \in told'),
           gone' \subseteq gone,
           UNCHANGED <<seatVars, fgVT, console, sigrt, udevVars, bus>>
    PROVE  IInv'
<1> USE DEF IInv, seatVars, udevVars
<1>1. /\ controller' = [s \in Sessions |-> IF s \in ss THEN Nil ELSE controller[s]]
      /\ track'      = [s \in Sessions |-> IF s \in ss THEN Nil ELSE track[s]]
      /\ sd' = [s \in Sessions |-> IF s \in ss THEN [d \in Devices |-> "none"] ELSE sd[s]]
      /\ fds' = {f \in fds : f[1] \notin ss}
      /\ session_restore_vt(ss)
  BY DEF session_drop_controller
<1>2. /\ mode' \in [VTs -> {"auto", "process"}]
      /\ want' \in 0 .. MaxVT
      /\ vtfd' = vtfd \ ss
      /\ \A v \in VTs : mode'[v] = "process" => \E s \in vtfd' : vt[s] = v
  BY <1>1, Restored
<1>3. TypeOK'
  BY <1>1, <1>2 DEF TypeOK
<1>4. DevOK(dev, active)'
  <2>1. \A c \in bus : c # Nil
    BY SessionDevicesAssumption DEF TypeOK
  <2> SUFFICES ASSUME NEW x \in Sessions, NEW d \in Devices
               PROVE  /\ <<x, d>> \in fds' => sd'[x][d] = "active" /\ d \notin foreign
                      /\ sd'[x][d] = "active" => active = x
                      /\ sd'[x][d] # "none" =>
                           /\ controller'[x] # Nil /\ d \in known
                           /\ d \in present \/ udev[d] # <<>>
                      /\ \A c \in bus : controller'[x] = c =>
                           (<<c, x, d>> \in told' <=> sd'[x][d] = "active")
    BY DEF DevOK, dev
  <2>2. CASE x \in ss
    BY <2>1, <2>2, <1>1
  <2>3. CASE x \notin ss
    <3>1. /\ <<x, d>> \in fds => sd[x][d] = "active" /\ d \notin foreign
          /\ sd[x][d] = "active" => active = x
          /\ sd[x][d] # "none" =>
               /\ controller[x] # Nil /\ d \in known
               /\ d \in present \/ udev[d] # <<>>
          /\ \A c \in bus : controller[x] = c =>
               (<<c, x, d>> \in told <=> sd[x][d] = "active")
      BY DEF DevOK, dev
    <3> QED BY <3>1, <2>3, <1>1
  <2> QED BY <2>2, <2>3
<1>5. ControlOK'
  BY <1>1, <1>2 DEF ControlOK, sessions, TypeOK
<1>6. ForegroundOK' /\ UdevOK'
  BY DEF ForegroundOK, UdevOK, sessions, hasVTs
<1> QED BY <1>3, <1>4, <1>5, <1>6

\* ReleaseControl() drops one controller.
LEMMA ReleaseControlKeeps ==
    ASSUME IInv, NEW c \in Clients, NEW s \in Sessions, ReleaseControl(c, s)
    PROVE  IInv'
<1>1. told' = {t \in told : ~ (t[1] = c /\ t[2] = s)}
  BY DEF ReleaseControl
<1>2. \A x \in Sessions \ {s}, d \in Devices : controller[x] \in bus =>
        (<<controller[x], x, d>> \in told => <<controller[x], x, d>> \in told')
  BY <1>1
<1> QED BY <1>1, <1>2, DroppedController DEF ReleaseControl, seatVars, udevVars, busVars

\* The end of a connection drops the controllers whose track held its name; what the
\* client was told no longer matters.
LEMMA NameOwnerChangedKeeps ==
    ASSUME IInv, NEW c \in Clients, NameOwnerChanged(c)
    PROVE  IInv'
<1> DEFINE ss == {s \in Sessions : track[s] = c}
<1>1. told' = {t \in told : t[1] # c} /\ c \notin bus
  BY DEF NameOwnerChanged, IInv, ControlOK
<1>2. \A x \in Sessions \ ss, d \in Devices : controller[x] \in bus =>
        (<<controller[x], x, d>> \in told => <<controller[x], x, d>> \in told')
  BY <1>1
<1>3. ss \in SUBSET Sessions /\ session_drop_controller(ss)
  BY DEF NameOwnerChanged
<1> HIDE DEF ss
<1> QED BY <1>1, <1>2, <1>3, DroppedController DEF NameOwnerChanged, seatVars, udevVars

\* A track that never had a name drops whatever controller the session has.
LEMMA EmptyTrackKeeps ==
    ASSUME IInv, NEW s \in Sessions, EmptyTrack(s)
    PROVE  IInv'
BY DroppedController DEF EmptyTrack, seatVars, udevVars, busVars

\* A controller that takes over starts without devices, and knows that.
LEMMA TakeControlKeeps ==
    ASSUME IInv, NEW c \in Clients, NEW s \in Sessions, TakeControl(c, s)
    PROVE  IInv'
<1> USE DEF IInv, seatVars, udevVars, busVars
<1> DEFINE D == session_device_free(dev, controller[s], s, Devices)
           E == told_paused(D, c, s, Devices)
<1>1. /\ s \in sessions
      /\ DevicesBecome(E)
      /\ controller' = [controller EXCEPT ![s] = c]
      /\ track' = [track EXCEPT ![s] = IF controller[s] = Nil THEN c ELSE Nil]
      /\ session_prepare_vt(s)
      /\ UNCHANGED <<seatVars, fgVT, console, sigrt, udevVars, busVars>>
  BY DEF TakeControl, MayTakeControl, session_release_controller
<1>2. /\ D \in DevType /\ DevOK(D, active)
      /\ \A d \in Devices : D.sd[s][d] = "none" /\ <<s, d>> \notin D.fds
  BY DevTyped, Freed
<1> HIDE DEF D
<1>3. /\ E \in DevType /\ E.sd = D.sd /\ E.fds = D.fds
      /\ \A k \in Clients, x \in Sessions, d \in Devices :
           <<k, x, d>> \in E.told <=> <<k, x, d>> \in D.told /\ ~ (k = c /\ x = s)
  BY <1>2, ToldPaused
<1> HIDE DEF E
<1>4. /\ mode' \in [VTs -> {"auto", "process"}]
      /\ vtfd \subseteq vtfd' /\ vtfd' \subseteq vtfd \cup {s}
      /\ \A v \in VTs : mode'[v] = "process" => \E x \in vtfd' : vt[x] = v
  BY <1>1 DEF session_prepare_vt, VT_SETMODE, TypeOK, ControlOK
<1>5. want' \in 0 .. MaxVT
  <2>1. want' = 0 \/ want' = want
    BY <1>1 DEF session_prepare_vt, VT_SETMODE
  <2> QED BY <2>1, SessionDevicesAssumption DEF TypeOK
<1>6. TypeOK'
  BY <1>1, <1>3, <1>4, <1>5, Become DEF TypeOK
<1>7. \A x \in Sessions : controller'[x] = IF x = s THEN c ELSE controller[x]
  BY <1>1 DEF TypeOK
<1>8. DevOK(dev, active)'
  <2>1. dev' = E
    BY <1>1, <1>3, Become
  <2>2. bus \subseteq Clients
    BY DEF TypeOK
  <2>3. ASSUME NEW x \in Sessions, NEW d \in Devices
        PROVE  /\ <<x, d>> \in E.fds => E.sd[x][d] = "active" /\ d \notin foreign
               /\ E.sd[x][d] = "active" => active = x
               /\ E.sd[x][d] # "none" =>
                    /\ controller'[x] # Nil /\ d \in known
                    /\ d \in present \/ udev[d] # <<>>
               /\ \A k \in bus : controller'[x] = k =>
                    (<<k, x, d>> \in E.told <=> E.sd[x][d] = "active")
    <3>1. CASE x = s
      <4>1. E.sd[x][d] = "none" /\ <<x, d>> \notin E.fds /\ controller'[x] = c
        BY <3>1, <1>2, <1>3, <1>7
      <4>2. <<c, x, d>> \notin E.told
        BY <3>1, <1>3
      <4> QED BY <4>1, <4>2
    <3>2. CASE x # s
      <4>1. /\ <<x, d>> \in D.fds => D.sd[x][d] = "active" /\ d \notin foreign
            /\ D.sd[x][d] = "active" => active = x
            /\ D.sd[x][d] # "none" =>
                 /\ controller[x] # Nil /\ d \in known
                 /\ d \in present \/ udev[d] # <<>>
            /\ \A k \in bus : controller[x] = k =>
                 (<<k, x, d>> \in D.told <=> D.sd[x][d] = "active")
        BY <1>2 DEF DevOK
      <4> QED BY <4>1, <3>2, <1>3, <1>7, <2>2
    <3> QED BY <3>1, <3>2
  <2> QED BY <1>1, <2>1, <2>3 DEF DevOK
<1>9. ControlOK'
  BY <1>1, <1>4, <1>7, SessionDevicesAssumption DEF ControlOK, sessions, TypeOK
<1>10. ForegroundOK' /\ UdevOK'
  BY <1>1 DEF ForegroundOK, UdevOK, sessions, hasVTs
<1> QED BY <1>6, <1>8, <1>9, <1>10

\* A VT that could not be prepared is restored.
LEMMA TakeControlVtFailsKeeps ==
    ASSUME IInv, NEW c \in Clients, NEW s \in Sessions, TakeControlVtFails(c, s)
    PROVE  IInv'
<1> USE DEF IInv, seatVars, udevVars, busVars, devVars
<1>1. /\ track' = [track EXCEPT ![s] = Nil]
      /\ UNCHANGED <<seatVars, controller, devVars, fgVT, console, sigrt, udevVars,
                     busVars>>
      /\ \/ UNCHANGED <<mode, want, vtfd>>
         \/ VT_SETMODE({vt[s]}, "auto") /\ vtfd' = vtfd \ {s}
  BY DEF TakeControlVtFails
<1>2. /\ mode' \in [VTs -> {"auto", "process"}]
      /\ vtfd' \subseteq vtfd
      /\ \A v \in VTs : mode'[v] = "process" => \E x \in vtfd' : vt[x] = v
  BY <1>1 DEF VT_SETMODE, TypeOK, ControlOK
<1>3. want' \in 0 .. MaxVT
  <2>1. want' = 0 \/ want' = want
    BY <1>1 DEF VT_SETMODE
  <2> QED BY <2>1, SessionDevicesAssumption DEF TypeOK
<1>4. TypeOK'
  BY <1>1, <1>2, <1>3 DEF TypeOK
<1>5. DevOK(dev, active)'
  BY <1>1 DEF DevOK, dev
<1>6. ControlOK' /\ ForegroundOK' /\ UdevOK'
  BY <1>1, <1>2 DEF ControlOK, ForegroundOK, UdevOK, sessions, hasVTs
<1> QED BY <1>4, <1>5, <1>6

\* A client that vanishes during TakeControl() takes nothing.
LEMMA TakeControlVanishesKeeps ==
    ASSUME IInv, NEW c \in Clients, NEW s \in Sessions, TakeControlVanishes(c, s)
    PROVE  IInv'
<1> USE DEF IInv, seatVars, devVars, vtVars, udevVars
<1>1. TypeOK'
  BY DEF TakeControlVanishes, TypeOK
<1>2. DevOK(dev, active)'
  BY DEF TakeControlVanishes, DevOK, dev
<1>3. ControlOK' /\ ForegroundOK' /\ UdevOK'
  BY DEF TakeControlVanishes, ControlOK, ForegroundOK, UdevOK, sessions, hasVTs
<1> QED BY <1>1, <1>2, <1>3

\* A client that disconnects keeps its devices until the daemon hears of it.
LEMMA DisconnectKeeps ==
    ASSUME IInv, NEW c \in Clients, Disconnect(c)
    PROVE  IInv'
<1> USE DEF IInv, seatVars, ctrlVars, devVars, vtVars, udevVars
<1>1. TypeOK'
  BY DEF Disconnect, TypeOK
<1>2. DevOK(dev, active)'
  BY DEF Disconnect, DevOK, dev
<1>3. ControlOK' /\ ForegroundOK' /\ UdevOK'
  BY DEF Disconnect, ControlOK, ForegroundOK, UdevOK, sessions, hasVTs
<1> QED BY <1>1, <1>2, <1>3

\* A session device is freed, on request or by the cleanup of TakeDevice().
LEMMA ReleaseDeviceKeeps ==
    ASSUME IInv, NEW c \in Clients, NEW s \in Sessions, NEW d \in Devices,
           ReleaseDevice(c, s, d) \/ TakeDeviceAgain(c, s, d)
    PROVE  IInv'
<1> USE DEF IInv, seatVars, ctrlVars, vtVars, udevVars, busVars
<1> DEFINE E == session_device_free(dev, controller[s], s, {d})
<1>1. /\ DevicesBecome(E)
      /\ UNCHANGED <<seatVars, ctrlVars, vtVars, udevVars, busVars>>
  BY DEF ReleaseDevice, TakeDeviceAgain, Calls
<1>2. E \in DevType /\ DevOK(E, active)
  <2>1. {d} \in SUBSET Devices /\ dev \in DevType
    BY DevTyped
  <2> QED BY <2>1, Freed
<1> HIDE DEF E
<1>3. TypeOK'
  BY <1>1, <1>2, Become DEF TypeOK
<1>4. DevOK(dev, active)'
  BY <1>1, <1>2, DevicesKept
<1>5. ControlOK' /\ ForegroundOK' /\ UdevOK'
  BY <1>1 DEF ControlOK, ForegroundOK, UdevOK, sessions, hasVTs
<1> QED BY <1>3, <1>4, <1>5

\* PauseDeviceComplete() pauses one device, and the last one lets a pending switch
\* happen.
LEMMA PauseDeviceCompleteKeeps ==
    ASSUME IInv, NEW c \in Clients, NEW s \in Sessions, NEW d \in Devices,
           PauseDeviceComplete(c, s, d)
    PROVE  IInv'
<1> USE DEF IInv, ctrlVars, vtVars, udevVars, busVars
<1> DEFINE D == told_paused(session_device_stop(dev, s, {d}), controller[s], s, {d})
<1>1. D \in DevType /\ DevOK(D, active)
  BY DevTyped, Paused
<1>2. c = controller[s]
  BY DEF PauseDeviceComplete, Calls
<1>3. UNCHANGED <<machine, list, stopping, vt, ctrlVars, vtVars, udevVars, busVars>>
  BY DEF PauseDeviceComplete
<1>4. \/ pending # Nil /\ SetActive(D, pending) /\ pending' = Nil
      \/ DevicesBecome(D) /\ UNCHANGED <<active, pending>>
  BY <1>2 DEF PauseDeviceComplete
<1> HIDE DEF D
<1>5. CASE pending # Nil /\ SetActive(D, pending) /\ pending' = Nil
  <2> DEFINE F == seat_set_active(D, pending)
  <2>1. F \in DevType /\ DevOK(F, pending)
    BY <1>1, SeatSetActive DEF TypeOK
  <2>2. active' = pending /\ DevicesBecome(F)
    BY <1>5 DEF SetActive
  <2> HIDE DEF F
  <2>3. TypeOK'
    BY <1>3, <1>5, <2>1, <2>2, Become DEF TypeOK
  <2>4. DevOK(dev, active)'
    BY <1>3, <2>1, <2>2, DevicesKept
  <2>5. ControlOK' /\ ForegroundOK' /\ UdevOK'
    BY <1>3, <1>5 DEF ControlOK, ForegroundOK, UdevOK, sessions, hasVTs
  <2> QED BY <2>3, <2>4, <2>5
<1>6. CASE DevicesBecome(D) /\ UNCHANGED <<active, pending>>
  <2>1. TypeOK'
    BY <1>1, <1>3, <1>6, Become DEF TypeOK
  <2>2. DevOK(dev, active)'
    BY <1>1, <1>3, <1>6, DevicesKept
  <2>3. ControlOK' /\ ForegroundOK' /\ UdevOK'
    BY <1>3, <1>6 DEF ControlOK, ForegroundOK, UdevOK, sessions, hasVTs
  <2> QED BY <2>1, <2>2, <2>3
<1> QED BY <1>4, <1>5, <1>6

\* session_activate() asks for the VT, gives the seat away at once or waits.
LEMMA ActivateKeeps ==
    ASSUME IInv, NEW s \in Sessions, Activate(s)
    PROVE  IInv'
<1> USE DEF IInv, ctrlVars, udevVars, busVars
<1>1. s \in sessions
      /\ UNCHANGED <<machine, list, stopping, vt, ctrlVars, udevVars, busVars>>
  BY DEF Activate
<1>2. CASE hasVTs
  <2>1. chvt(vt[s]) /\ UNCHANGED <<active, pending, devVars>>
    BY <1>2 DEF Activate
  <2>2. vt[s] \in VTs
    BY <1>1, <1>2, SessionDevicesAssumption DEF TypeOK, ForegroundOK, VTs
  <2>3. /\ fgVT' \in VTs /\ console' \in BOOLEAN /\ want' \in 0 .. MaxVT
        /\ sigrt' \in 0 .. MaxSignals /\ mode' = mode
        /\ (fgVT' = fgVT /\ console' = console) \/ console'
    BY <2>1, <2>2, ChvtTyped
  <2>4. TypeOK'
    BY <1>1, <2>1, <2>3 DEF TypeOK, devVars
  <2>5. DevOK(dev, active)'
    BY <1>1, <2>1 DEF DevOK, dev, devVars
  <2>6. ControlOK' /\ ForegroundOK' /\ UdevOK'
    BY <1>1, <2>1, <2>3 DEF ControlOK, ForegroundOK, UdevOK, sessions, hasVTs
  <2> QED BY <2>4, <2>5, <2>6
<1>3. CASE ~ hasVTs /\ SetActive(dev, s) /\ pending' = Nil /\ UNCHANGED vtVars
  <2> DEFINE E == seat_set_active(dev, s)
  <2>1. E \in DevType /\ DevOK(E, s)
    BY DevTyped, SeatSetActive
  <2>2. active' = s /\ DevicesBecome(E)
    BY <1>3 DEF SetActive
  <2> HIDE DEF E
  <2>3. TypeOK'
    BY <1>1, <1>3, <2>1, <2>2, Become DEF TypeOK, vtVars
  <2>4. DevOK(dev, active)'
    BY <1>1, <2>1, <2>2, DevicesKept
  <2>5. ControlOK' /\ ForegroundOK' /\ UdevOK'
    BY <1>1, <1>3 DEF ControlOK, ForegroundOK, UdevOK, sessions, hasVTs, vtVars
  <2> QED BY <2>3, <2>4, <2>5
<1>4. CASE ~ hasVTs /\ pending' = s /\ UNCHANGED <<active, devVars, vtVars>>
  <2>1. TypeOK'
    BY <1>1, <1>4 DEF TypeOK, vtVars, devVars
  <2>2. DevOK(dev, active)'
    BY <1>1, <1>4 DEF DevOK, dev, devVars
  <2>3. ControlOK' /\ ForegroundOK' /\ UdevOK'
    BY <1>1, <1>4 DEF ControlOK, ForegroundOK, UdevOK, sessions, hasVTs, vtVars
  <2> QED BY <2>1, <2>2, <2>3
<1> QED BY <1>2, <1>3, <1>4 DEF Activate

\* A device that is taken is verified first, and a session without the seat gets it
\* paused.
LEMMA TakeDeviceKeeps ==
    ASSUME IInv, NEW c \in Clients, NEW s \in Sessions, NEW d \in Devices,
           TakeDevice(c, s, d)
    PROVE  IInv'
<1> USE DEF IInv, seatVars, ctrlVars, vtVars, busVars
<1> DEFINE D == opened(s, d)
           on == D.sd[s][d] = "active"
           E == [D EXCEPT !.told = D.told \cup {t \in {<<c, s, d>>} : on}]
<1>1. /\ c = controller[s] /\ sd[s][d] = "none" /\ d \in present
      /\ known' = known \cup {d}
      /\ DevicesBecome(E)
      /\ UNCHANGED <<seatVars, ctrlVars, vtVars, present, udev, foreign, busVars>>
  BY DEF TakeDevice, Calls, verified
<1>2. \/ D = [dev EXCEPT !.sd[s][d] = "paused"]
      \/ /\ D = [dev EXCEPT !.sd[s][d] = "active", !.fds = fds \cup {<<s, d>>}]
         /\ active = s /\ d \notin foreign
  BY SessionDevicesAssumption DEF opened, can_set_master, TypeOK, dev
<1>3. E = [D EXCEPT !.told = D.told \cup {t \in {<<c, s, d>>} : on}]
  OBVIOUS
<1> HIDE DEF D, E
<1>4. /\ D = [sd |-> D.sd, fds |-> D.fds, told |-> told]
      /\ \/ /\ D.sd = [sd EXCEPT ![s][d] = "paused"] /\ D.fds = fds
         \/ /\ D.sd = [sd EXCEPT ![s][d] = "active"] /\ D.fds = fds \cup {<<s, d>>}
            /\ active = s /\ d \notin foreign
  BY <1>2 DEF dev
<1>5. /\ E = [sd |-> D.sd, fds |-> D.fds, told |-> E.told]
      /\ E.told = told \cup {t \in {<<c, s, d>>} : on}
  BY <1>3, <1>4
<1>6. E \in DevType
  <2>1. D.sd \in [Sessions -> [Devices -> {"none", "active", "paused"}]]
    <3>1. PICK m \in {"active", "paused"} : D.sd = [sd EXCEPT ![s][d] = m]
      BY <1>4
    <3>2. [sd[s] EXCEPT ![d] = m] \in [Devices -> {"none", "active", "paused"}]
      BY DEF TypeOK
    <3>3. D.sd = [sd EXCEPT ![s] = [sd[s] EXCEPT ![d] = m]]
      BY <3>1
    <3> HIDE DEF Devices
    <3> QED BY <3>2, <3>3 DEF TypeOK
  <2>2. D.fds \subseteq Sessions \X Devices
    BY <1>4 DEF TypeOK
  <2>3. E.told \subseteq Clients \X Sessions \X Devices
    BY <1>5 DEF TypeOK
  <2> HIDE DEF Devices
  <2> QED BY <1>5, <2>1, <2>2, <2>3 DEF DevType
<1>7. TypeOK'
  BY <1>1, <1>6, Become DEF TypeOK
<1>8. DevOK(dev, active)'
  <2>1. dev' = E /\ E.sd = D.sd /\ E.fds = D.fds
    BY <1>1, <1>5, <1>6, Become
  <2>2. ASSUME NEW x \in Sessions, NEW y \in Devices, x # s \/ y # d
        PROVE  /\ E.sd[x][y] = sd[x][y]
               /\ <<x, y>> \in E.fds <=> <<x, y>> \in fds
               /\ \A k : <<k, x, y>> \in E.told <=> <<k, x, y>> \in told
    BY <1>4, <1>5, <2>1, <2>2 DEF TypeOK
  <2>3. /\ E.sd[s][d] \in {"active", "paused"}
        /\ E.sd[s][d] = "active" => active = s
        /\ <<s, d>> \in E.fds => E.sd[s][d] = "active" /\ d \notin foreign
    BY <1>1, <1>4, <2>1 DEF TypeOK, DevOK, dev
  <2>4. c \in bus => (<<c, s, d>> \in E.told <=> E.sd[s][d] = "active")
    BY <1>1, <1>5, <2>1 DEF DevOK, dev
  <2>5. c # Nil
    BY SessionDevicesAssumption
  <2>6. ASSUME NEW x \in Sessions, NEW y \in Devices
        PROVE  /\ <<x, y>> \in E.fds => E.sd[x][y] = "active" /\ y \notin foreign
               /\ E.sd[x][y] = "active" => active = x
               /\ E.sd[x][y] # "none" =>
                    /\ controller[x] # Nil /\ y \in known'
                    /\ y \in present \/ udev[y] # <<>>
               /\ \A k \in bus : controller[x] = k =>
                    (<<k, x, y>> \in E.told <=> E.sd[x][y] = "active")
    <3>1. CASE x = s /\ y = d
      BY <3>1, <1>1, <2>3, <2>4, <2>5
    <3>2. CASE x # s \/ y # d
      <4>1. /\ <<x, y>> \in fds => sd[x][y] = "active" /\ y \notin foreign
            /\ sd[x][y] = "active" => active = x
            /\ sd[x][y] # "none" =>
                 /\ controller[x] # Nil /\ y \in known
                 /\ y \in present \/ udev[y] # <<>>
            /\ \A k \in bus : controller[x] = k =>
                 (<<k, x, y>> \in told <=> sd[x][y] = "active")
        BY DEF DevOK, dev
      <4> QED BY <4>1, <3>2, <2>2, <1>1
    <3> QED BY <3>1, <3>2
  <2> QED BY <1>1, <2>1, <2>6 DEF DevOK
<1>9. ControlOK' /\ ForegroundOK' /\ UdevOK'
  BY <1>1 DEF ControlOK, ForegroundOK, UdevOK, sessions, hasVTs
<1> QED BY <1>7, <1>8, <1>9

\* A card that somebody else is master of is not taken.
LEMMA TakeDeviceBusyKeeps ==
    ASSUME IInv, NEW c \in Clients, NEW s \in Sessions, NEW d \in Devices,
           TakeDeviceBusy(c, s, d)
    PROVE  IInv'
<1> USE DEF IInv, seatVars, ctrlVars, devVars, vtVars, busVars
<1>1. TypeOK'
  BY DEF TakeDeviceBusy, TypeOK
<1>2. DevOK(dev, active)'
  BY DEF TakeDeviceBusy, DevOK, dev
<1>3. ControlOK' /\ ForegroundOK' /\ UdevOK'
  BY DEF TakeDeviceBusy, ControlOK, ForegroundOK, UdevOK, sessions, hasVTs
<1> QED BY <1>1, <1>2, <1>3

\* A device that is plugged in is announced.
LEMMA PlugKeeps ==
    ASSUME IInv, NEW d \in Devices, Plug(d)
    PROVE  IInv'
<1> USE DEF IInv, seatVars, ctrlVars, devVars, vtVars, busVars
<1>1. TypeOK'
  BY DEF Plug, TypeOK
<1>2. DevOK(dev, active)'
  BY DEF Plug, DevOK, dev, TypeOK
<1>3. ControlOK' /\ ForegroundOK'
  BY DEF Plug, ControlOK, ForegroundOK, sessions, hasVTs
<1>4. UdevOK'
  <2>1. \A y \in Devices : udev'[y] = IF y = d THEN <<"add">> ELSE udev[y]
    BY DEF Plug, TypeOK
  <2>2. Len(<<"add">>) = 1 /\ <<"add">>[1] # "remove"
    OBVIOUS
  <2> SUFFICES ASSUME NEW y \in Devices, NEW i \in 1 .. Len(udev'[y])
               PROVE  udev'[y][i] = "remove" <=> y \notin present' /\ i = Len(udev'[y])
    BY DEF UdevOK
  <2>3. CASE y = d
    BY <2>1, <2>2, <2>3 DEF Plug
  <2>4. CASE y # d
    BY <2>1, <2>4 DEF Plug, UdevOK
  <2> QED BY <2>3, <2>4
<1> QED BY <1>1, <1>2, <1>3, <1>4

\* A device that is unplugged is announced after all else that is unread about it.
LEMMA UnplugKeeps ==
    ASSUME IInv, NEW d \in Devices, Unplug(d)
    PROVE  IInv'
<1> USE DEF IInv, seatVars, ctrlVars, vtVars, busVars
<1>1. /\ d \in present /\ present' = present \ {d}
      /\ udev' = [udev EXCEPT ![d] = Append(udev[d], "remove")]
      /\ fds' = {f \in fds : f[2] # d} /\ foreign' = foreign \ {d}
      /\ UNCHANGED <<seatVars, ctrlVars, sd, told, vtVars, known, busVars>>
  BY DEF Unplug
<1>2. udev[d] \in Seq({"add", "remove"})
  BY DEF TypeOK
<1>3. /\ Len(Append(udev[d], "remove")) = Len(udev[d]) + 1
      /\ \A i \in 1 .. Len(udev[d]) + 1 :
           Append(udev[d], "remove")[i] =
               IF i = Len(udev[d]) + 1 THEN "remove" ELSE udev[d][i]
      /\ Append(udev[d], "remove") # <<>> /\ Len(udev[d]) \in Nat
  BY <1>2
<1>4. \A y \in Devices : udev'[y] = IF y = d THEN Append(udev[d], "remove") ELSE udev[y]
  BY <1>1 DEF TypeOK
<1>5. TypeOK'
  BY <1>1 DEF TypeOK
<1>6. DevOK(dev, active)'
  <2>1. udev'[d] # <<>>
    BY <1>3, <1>4
  <2> QED BY <1>1, <1>4, <2>1 DEF DevOK, dev
<1>7. ControlOK' /\ ForegroundOK'
  BY <1>1 DEF ControlOK, ForegroundOK, sessions, hasVTs
<1>8. UdevOK'
  <2> SUFFICES ASSUME NEW y \in Devices, NEW i \in 1 .. Len(udev'[y])
               PROVE  udev'[y][i] = "remove" <=> y \notin present' /\ i = Len(udev'[y])
    BY DEF UdevOK
  <2>1. CASE y = d
    <3>1. \A j \in 1 .. Len(udev[d]) : udev[d][j] # "remove"
      BY <1>1 DEF UdevOK
    <3>2. udev'[d] = Append(udev[d], "remove") /\ Len(udev'[d]) = Len(udev[d]) + 1
      BY <1>3, <1>4
    <3>3. i \in 1 .. Len(udev[d]) + 1
      BY <2>1, <3>2
    <3>4. CASE i = Len(udev[d]) + 1
      <4>1. udev'[d][i] = "remove"
        BY <3>2, <3>3, <3>4, <1>3
      <4> QED BY <4>1, <2>1, <3>2, <3>4, <1>1
    <3>5. CASE i # Len(udev[d]) + 1
      <4>1. udev'[d][i] = udev[d][i] /\ i \in 1 .. Len(udev[d])
        BY <3>2, <3>3, <3>5, <1>3
      <4> QED BY <4>1, <3>1, <2>1, <3>2, <3>5
    <3> QED BY <3>4, <3>5
  <2>2. CASE y # d
    <3>1. udev'[y] = udev[y] /\ (y \in present <=> y \in present')
      BY <2>2, <1>1, <1>4
    <3> QED BY <3>1 DEF UdevOK
  <2> QED BY <2>1, <2>2
<1> QED BY <1>5, <1>6, <1>7, <1>8

\* A device that is gone is freed in every session before the daemon forgets it.
LEMMA UdevEventKeeps ==
    ASSUME IInv, NEW d \in Devices, UdevEvent(d)
    PROVE  IInv'
<1> USE DEF IInv, seatVars, ctrlVars, vtVars, busVars
<1>1. /\ udev[d] # <<>> /\ udev' = [udev EXCEPT ![d] = Tail(udev[d])]
      /\ UNCHANGED <<seatVars, ctrlVars, vtVars, present, foreign, busVars>>
  BY DEF UdevEvent
<1>2. udev[d] \in Seq({"add", "remove"}) /\ Len(udev[d]) \in Nat \ {0}
  BY <1>1 DEF TypeOK
<1>3. /\ Len(Tail(udev[d])) = Len(udev[d]) - 1
      /\ \A i \in 1 .. Len(udev[d]) - 1 : Tail(udev[d])[i] = udev[d][i + 1]
      /\ Head(udev[d]) = udev[d][1]
      /\ Tail(udev[d]) = <<>> => Len(udev[d]) = 1
  <2>1. /\ Len(Tail(udev[d])) = Len(udev[d]) - 1
        /\ \A i \in 1 .. Len(udev[d]) - 1 : Tail(udev[d])[i] = udev[d][i + 1]
    BY <1>1, <1>2
  <2>2. Head(udev[d]) = udev[d][1]
    BY <1>1, <1>2
  <2>3. Len(<<>>) = 0
    OBVIOUS
  <2>4. Tail(udev[d]) = <<>> => Len(Tail(udev[d])) = 0
    BY <2>3, Zenon
  <2>5. Len(Tail(udev[d])) = 0 => Len(udev[d]) = 1
    BY <1>2, <2>1
  <2> QED BY <2>1, <2>2, <2>4, <2>5, Zenon
<1>4. \A y \in Devices : udev'[y] = IF y = d THEN Tail(udev[d]) ELSE udev[y]
  BY <1>1 DEF TypeOK
<1>5. UdevOK'
  <2> SUFFICES ASSUME NEW y \in Devices, NEW i \in 1 .. Len(udev'[y])
               PROVE  udev'[y][i] = "remove" <=> y \notin present /\ i = Len(udev'[y])
    BY <1>1 DEF UdevOK
  <2>1. CASE y = d
    <3> DEFINE n == Len(udev[d])
    <3>0. udev'[d] = Tail(udev[d]) /\ Len(udev'[d]) = n - 1 /\ n \in Nat \ {0}
      BY <1>2, <1>3, <1>4
    <3>4. i \in 1 .. n - 1
      BY <2>1, <3>0
    <3> HIDE DEF n
    <3>1. /\ i + 1 \in 1 .. n
          /\ i + 1 = n <=> i = Len(udev'[d])
      BY <3>0, <3>4
    <3> USE DEF n
    <3>2. udev[d][i + 1] = "remove" <=> d \notin present /\ i + 1 = Len(udev[d])
      BY <3>1 DEF UdevOK
    <3>3. udev'[d][i] = udev[d][i + 1]
      BY <3>0, <3>4, <1>3
    <3> QED BY <2>1, <3>1, <3>2, <3>3
  <2>2. CASE y # d
    BY <2>2, <1>4 DEF UdevOK
  <2> QED BY <2>1, <2>2
<1>6. ControlOK' /\ ForegroundOK'
  BY <1>1 DEF ControlOK, ForegroundOK, sessions, hasVTs
<1>7. udev' \in [Devices -> Seq({"add", "remove"})]
  BY <1>1 DEF TypeOK
<1>8. CASE Head(udev[d]) = "add" /\ known' = known \cup {d} /\ UNCHANGED devVars
  <2>1. TypeOK'
    BY <1>1, <1>7, <1>8 DEF TypeOK, devVars
  <2>2. d \in present \/ udev'[d] # <<>>
    <3>1. udev[d][1] = "remove" <=> d \notin present /\ 1 = Len(udev[d])
      <4>1. 1 \in 1 .. Len(udev[d])
        BY <1>2
      <4> QED BY <4>1 DEF UdevOK
    <3> QED BY <3>1, <1>3, <1>4, <1>8
  <2>3. DevOK(dev, active)'
    BY <1>1, <1>4, <1>8, <2>2 DEF DevOK, dev, devVars
  <2> QED BY <2>1, <2>3, <1>5, <1>6
<1>9. CASE known' = known \ {d} /\ device_free(d)
  <2>1. /\ sd' = [s \in Sessions |-> [sd[s] EXCEPT ![d] = "none"]]
        /\ fds' = {f \in fds : f[2] # d}
        /\ told' = {t \in told : ~ (t[1] = controller[t[2]] /\ t[3] = d)}
    BY <1>9 DEF device_free
  <2>2. TypeOK'
    BY <1>1, <1>7, <1>9, <2>1 DEF TypeOK
  <2>3. ASSUME NEW x \in Sessions, NEW y \in Devices
        PROVE  /\ sd'[x][y] = IF y = d THEN "none" ELSE sd[x][y]
               /\ <<x, y>> \in fds' <=> <<x, y>> \in fds /\ y # d
               /\ \A k : <<k, x, y>> \in told' <=>
                    <<k, x, y>> \in told /\ ~ (k = controller[x] /\ y = d)
    BY <2>1 DEF TypeOK
  <2>4. ASSUME NEW x \in Sessions, NEW y \in Devices
        PROVE  /\ <<x, y>> \in fds' => sd'[x][y] = "active" /\ y \notin foreign
               /\ sd'[x][y] = "active" => active = x
               /\ sd'[x][y] # "none" =>
                    /\ controller[x] # Nil /\ y \in known'
                    /\ y \in present \/ udev'[y] # <<>>
               /\ \A k \in bus : controller[x] = k =>
                    (<<k, x, y>> \in told' <=> sd'[x][y] = "active")
    <3>1. /\ <<x, y>> \in fds => sd[x][y] = "active" /\ y \notin foreign
          /\ sd[x][y] = "active" => active = x
          /\ sd[x][y] # "none" =>
               /\ controller[x] # Nil /\ y \in known
               /\ y \in present \/ udev[y] # <<>>
          /\ \A k \in bus : controller[x] = k =>
               (<<k, x, y>> \in told <=> sd[x][y] = "active")
      BY DEF DevOK, dev
    <3> QED BY <3>1, <2>3, <1>4, <1>9
  <2>5. DevOK(dev, active)'
    BY <1>1, <2>4 DEF DevOK, dev
  <2> QED BY <2>2, <2>5, <1>5, <1>6
<1> QED BY <1>8, <1>9 DEF UdevEvent

\* A process that is no session takes DRM master only when nobody has it.
LEMMA ForeignMasterKeeps ==
    ASSUME IInv, NEW d \in Devices, ForeignMaster(d)
    PROVE  IInv'
<1> USE DEF IInv, seatVars, ctrlVars, devVars, vtVars, busVars
<1>1. machine \in Machine
  BY SessionDevicesAssumption DEF TypeOK
<1>2. TypeOK'
  BY <1>1 DEF ForeignMaster, TypeOK, Machine
<1>3. DevOK(dev, active)'
  BY DEF ForeignMaster, DevOK, dev
<1>4. ControlOK' /\ ForegroundOK' /\ UdevOK'
  BY DEF ForeignMaster, ControlOK, ForegroundOK, UdevOK, sessions, hasVTs
<1> QED BY <1>2, <1>3, <1>4

-----------------------------------------------------------------------------
\* The daemon starts with the invariant.
LEMMA InitIInv == Init => IInv
<1> SUFFICES ASSUME Init PROVE IInv
  OBVIOUS
<1>1. machine \in Machine /\ MaxVT \in Nat \ {0} /\ MaxSignals \in Nat
  BY SessionDevicesAssumption DEF Init
<1>2. TypeOK
  <2>1. fgVT \in VTs /\ want \in 0 .. MaxVT /\ sigrt \in 0 .. MaxSignals
    BY <1>1 DEF Init, VTs
  <2>2. /\ list \in Seq(Sessions) /\ udev \in [Devices -> Seq({"add", "remove"})]
        /\ vt \in [Sessions -> 0 .. MaxVT]
    BY <1>1 DEF Init
  <2>3. /\ sd \in [Sessions -> [Devices -> {"none", "active", "paused"}]]
        /\ known \subseteq Devices /\ present \subseteq Devices
    BY <1>1 DEF Init, Machine
  <2>4. /\ machine \in Machines /\ stopping \subseteq Sessions
        /\ active \in Sessions \cup {Nil} /\ pending \in Sessions \cup {Nil}
        /\ controller \in [Sessions -> Clients \cup {Nil}]
        /\ track \in [Sessions -> Clients \cup {Nil, "empty"}]
        /\ vtfd \subseteq Sessions /\ fds \subseteq Sessions \X Devices
        /\ told \subseteq Clients \X Sessions \X Devices /\ foreign \subseteq DRM
        /\ console \in BOOLEAN /\ mode \in [VTs -> {"auto", "process"}]
        /\ bus \subseteq Clients /\ gone \subseteq Clients
    BY DEF Init
  <2> QED BY <2>1, <2>2, <2>3, <2>4 DEF TypeOK
<1>3. DevOK(dev, active)
  BY SessionDevicesAssumption DEF Init, DevOK, dev
<1>4. ControlOK
  <2>1. LinkedOnce(list)
    BY DEF Init, LinkedOnce
  <2> QED BY <2>1 DEF Init, ControlOK
<1>5. ForegroundOK
  <2>1. sessions = {}
    BY DEF Init, sessions, Linked
  <2> QED BY <2>1 DEF Init, ForegroundOK
<1>6. UdevOK
  <2>1. \A d \in Devices : Len(udev[d]) = 0
    BY DEF Init
  <2> QED BY <2>1 DEF UdevOK
<1> QED BY <1>2, <1>3, <1>4, <1>5, <1>6 DEF IInv

\* Every step keeps the invariant.
LEMMA NextIInv == IInv /\ [Next]_vars => IInv'
<1> SUFFICES ASSUME IInv, [Next]_vars PROVE IInv'
  OBVIOUS
<1>1. ASSUME NEW s \in Sessions, NEW v \in 0 .. MaxVT, CreateSession(s, v) PROVE IInv'
  BY <1>1, CreateSessionKeeps
<1>2. ASSUME NEW s \in Sessions, StopSession(s) PROVE IInv'
  BY <1>2, StopSessionKeeps
<1>3. ASSUME NEW s \in Sessions, RemoveSession(s) PROVE IInv'
  BY <1>3, RemoveSessionKeeps
<1>4. ASSUME NEW s \in Sessions, EmptyTrack(s) PROVE IInv'
  BY <1>4, EmptyTrackKeeps
<1>5. ASSUME NEW s \in Sessions, Activate(s) PROVE IInv'
  BY <1>5, ActivateKeeps
<1>6. ASSUME NEW c \in Clients, NEW s \in Sessions, ControllerStep(c, s) PROVE IInv'
  <2>1. CASE ReleaseControl(c, s)
    BY <2>1, ReleaseControlKeeps
  <2>2. CASE TakeControl(c, s)
    BY <2>2, TakeControlKeeps
  <2>3. CASE TakeControlVtFails(c, s)
    BY <2>3, TakeControlVtFailsKeeps
  <2>4. CASE TakeControlVanishes(c, s)
    BY <2>4, TakeControlVanishesKeeps
  <2>5. ASSUME NEW d \in Devices, TakeDevice(c, s, d) PROVE IInv'
    BY <2>5, TakeDeviceKeeps
  <2>6. ASSUME NEW d \in Devices, ReleaseDevice(c, s, d) \/ TakeDeviceAgain(c, s, d)
        PROVE  IInv'
    BY <2>6, ReleaseDeviceKeeps
  <2>7. ASSUME NEW d \in Devices, TakeDeviceBusy(c, s, d) PROVE IInv'
    BY <2>7, TakeDeviceBusyKeeps
  <2>8. ASSUME NEW d \in Devices, PauseDeviceComplete(c, s, d) PROVE IInv'
    BY <2>8, PauseDeviceCompleteKeeps
  <2> QED BY <1>6, <2>1, <2>2, <2>3, <2>4, <2>5, <2>6, <2>7, <2>8 DEF ControllerStep
<1>7. ASSUME NEW c \in Clients, Disconnect(c) PROVE IInv'
  BY <1>7, DisconnectKeeps
<1>8. ASSUME NEW c \in Clients, NameOwnerChanged(c) PROVE IInv'
  BY <1>8, NameOwnerChangedKeeps
<1>9. ASSUME NEW d \in Devices, Plug(d) PROVE IInv'
  BY <1>9, PlugKeeps
<1>10. ASSUME NEW d \in Devices, Unplug(d) PROVE IInv'
  BY <1>10, UnplugKeeps
<1>11. ASSUME NEW d \in Devices, UdevEvent(d) PROVE IInv'
  BY <1>11, UdevEventKeeps
<1>12. ASSUME NEW d \in Devices, ForeignMaster(d) PROVE IInv'
  BY <1>12, ForeignMasterKeeps
<1>13. ASSUME NEW v \in VTs, SwitchVT(v) PROVE IInv'
  BY <1>13, SwitchVTKeeps
<1>14. CASE ConsoleEvent
  BY <1>14, ConsoleEventKeeps
<1>15. CASE VtSwitch
  BY <1>15, VtSwitchKeeps
<1>16. CASE UNCHANGED vars
  BY <1>16, StutterKeeps
<1> QED BY <1>1, <1>2, <1>3, <1>4, <1>5, <1>6, <1>7, <1>8, <1>9, <1>10, <1>11, <1>12,
           <1>13, <1>14, <1>15, <1>16 DEF Next

\* The invariant always holds.
LEMMA Invariant == Spec => []IInv
BY InitIInv, NextIInv, PTL DEF Spec

\* The state always has the shape the handlers rely on.
THEOREM TypeCorrect == Spec => []TypeOK
<1>1. IInv => TypeOK
  BY DEF IInv
<1> QED BY <1>1, Invariant, PTL

\* logind-session-device.c: a descriptor works only in the session that has the
\* seat, and nobody else is master of its card.
THEOREM OnlyTheActiveSession == Spec => []OnlyActiveHasDevices
<1>1. IInv => OnlyActiveHasDevices
  BY DEF IInv, DevOK, dev, OnlyActiveHasDevices
<1> QED BY <1>1, Invariant, PTL

\* seat_active_vt_changed(): once the console event is read, the descriptors that
\* work belong to a session on the foreground VT.
THEOREM OnlyTheForeground == Spec => []ForegroundHasDevices
<1>1. IInv => ForegroundHasDevices
  <2> SUFFICES ASSUME IInv, hasVTs, ~ console, NEW s \in Sessions, NEW d \in Devices,
                      <<s, d>> \in fds
               PROVE  vt[s] = fgVT
    BY DEF ForegroundHasDevices
  <2>1. active = s
    BY DEF IInv, DevOK, dev
  <2> QED BY <2>1, SessionDevicesAssumption DEF IInv, ForegroundOK
<1> QED BY <1>1, Invariant, PTL

\* session_release_controller() and session_restore_vt(): a session without a
\* controller has no devices, and every VT in process mode is held.
THEOREM ControllerLeavesNothing == Spec => []NothingLeftBehind
<1>1. IInv => NothingLeftBehind
  <2> SUFFICES ASSUME IInv PROVE NothingLeftBehind
    OBVIOUS
  <2>1. \A s \in Sessions : controller[s] = Nil => \A d \in Devices : sd[s][d] = "none"
    BY DEF IInv, DevOK, dev
  <2> QED BY <2>1 DEF IInv, ControlOK, NothingLeftBehind
<1> QED BY <1>1, Invariant, PTL

\* session_device_notify(): a client in control has been told of every device that
\* runs, and of no other.
THEOREM ControllerIsTold == Spec => []ControllerKnows
<1>1. IInv => ControllerKnows
  BY DEF IInv, DevOK, dev, ControllerKnows
<1> QED BY <1>1, Invariant, PTL

\* device_free(): no session holds a device that the daemon has forgotten.
THEOREM DevicesAreKnown == Spec => []DevicesKnown
<1>1. IInv => DevicesKnown
  BY DEF IInv, DevOK, dev, DevicesKnown
<1> QED BY <1>1, Invariant, PTL

\* Only manager_vt_switch() lets a VT go that is in process mode, and only with the
\* answer of a session that holds it or when no session is on it.
LEMMA LeavesProcessMode ==
    ASSUME IInv, Next, fgVT' # fgVT, mode[fgVT] = "process"
    PROVE  VtSwitch /\ (VtSession(list, fgVT) = Nil \/ VtHolder(VtSession(list, fgVT)) # Nil)
<1>1. ASSUME NEW s \in Sessions, NEW v \in 0 .. MaxVT, CreateSession(s, v) PROVE FALSE
  BY <1>1 DEF CreateSession
<1>2. ASSUME NEW s \in Sessions, StopSession(s) PROVE FALSE
  BY <1>2 DEF StopSession, vtVars
<1>3. ASSUME NEW s \in Sessions, RemoveSession(s) PROVE FALSE
  BY <1>3 DEF RemoveSession
<1>4. ASSUME NEW s \in Sessions, EmptyTrack(s) PROVE FALSE
  BY <1>4 DEF EmptyTrack
<1>5. ASSUME NEW s \in Sessions, Activate(s) PROVE FALSE
  BY <1>5 DEF Activate, chvt, vtVars
<1>6. ASSUME NEW c \in Clients, NEW s \in Sessions, ControllerStep(c, s) PROVE FALSE
  BY <1>6 DEF ControllerStep, ReleaseControl, TakeControl, TakeControlVtFails,
              TakeControlVanishes, TakeDevice, TakeDeviceAgain, TakeDeviceBusy,
              ReleaseDevice, PauseDeviceComplete, vtVars
<1>7. ASSUME NEW c \in Clients, Disconnect(c) \/ NameOwnerChanged(c) PROVE FALSE
  BY <1>7 DEF Disconnect, NameOwnerChanged, vtVars
<1>8. ASSUME NEW d \in Devices, Plug(d) \/ Unplug(d) \/ UdevEvent(d) \/ ForeignMaster(d)
      PROVE  FALSE
  BY <1>8 DEF Plug, Unplug, UdevEvent, ForeignMaster, vtVars
<1>9. ASSUME NEW v \in VTs, SwitchVT(v) PROVE FALSE
  BY <1>9 DEF SwitchVT, chvt
<1>10. ~ ConsoleEvent
  BY DEF ConsoleEvent
<1>11. VtSwitch
  BY <1>1, <1>2, <1>3, <1>4, <1>5, <1>6, <1>7, <1>8, <1>9, <1>10 DEF Next
<1> QED BY <1>11 DEF VtSwitch

\* session_leave_vt(): the devices of a session that holds its VT are paused before
\* the switch is acknowledged.
THEOREM PausesBeforeItLeaves == Spec => PausedBeforeSwitch
<1> DEFINE P == fgVT' # fgVT /\ mode[fgVT] = "process" =>
                  \A s \in vtfd, d \in Devices : vt[s] = fgVT => <<s, d>> \notin fds'
<1>1. IInv /\ IInv' /\ [Next]_vars => [P]_vars
  <2> SUFFICES ASSUME IInv, IInv', Next, fgVT' # fgVT, mode[fgVT] = "process",
                      NEW s \in vtfd, NEW d \in Devices, <<s, d>> \in fds'
               PROVE  FALSE
    OBVIOUS
  <2> DEFINE new  == VtSession(list, fgVT)
             held == VtHolder(new)
             D == seat_set_active(dev, new)
  <2>1. VtSwitch /\ (new = Nil \/ held # Nil)
    BY LeavesProcessMode
  <2>2. s \in Sessions /\ s # Nil
    BY SessionDevicesAssumption DEF IInv, TypeOK
  <2>3. active' = s /\ active' = new
    BY <2>1, <2>2 DEF IInv, DevOK, dev, VtSwitch
  <2>4. held = s
    BY <2>3 DEF VtHolder
  <2>5. DevicesBecome(session_leave_vt(D, s))
    BY <2>1, <2>2, <2>4 DEF VtSwitch
  <2>6. D \in DevType /\ DevOK(D, new)
    BY <2>2, <2>3, DevTyped, SeatSetActive DEF IInv
  <2> HIDE DEF D, new
  <2>7. <<s, d>> \notin session_leave_vt(D, s).fds
    BY <2>2, <2>6, PausedAll DEF IInv, session_leave_vt
  <2> QED BY <2>5, <2>7 DEF DevicesBecome
<1> QED BY <1>1, Invariant, PTL DEF Spec, PausedBeforeSwitch

-----------------------------------------------------------------------------
(***************************************************************************)
(* A switch is answered.  That the answer comes at last is liveness and    *)
(* left to TLC; what it rests on is proved.                                *)
(***************************************************************************)
\* A VT that is asked to make way is in process mode, and the signal that says so is
\* not read yet.
AskedOK == want # 0 => sigrt > 0 /\ mode[fgVT] = "process"

\* A step that leaves the VTs alone, or changes the mode of some with VT_SETMODE.
LEMMA SetModeAsked ==
    ASSUME IInv, AskedOK, sigrt' = sigrt, fgVT' = fgVT,
           \/ UNCHANGED <<mode, want>>
           \/ \E vs \in SUBSET (0 .. MaxVT), m \in {"auto", "process"} : VT_SETMODE(vs, m)
    PROVE  AskedOK'
<1>1. fgVT \in VTs
  BY DEF IInv, TypeOK
<1> QED BY <1>1 DEF AskedOK, VT_SETMODE

\* VT_ACTIVATE asks the VT in the foreground when it is in process mode, and sends
\* the signal.
LEMMA ChvtAsked ==
    ASSUME IInv, AskedOK, NEW v, chvt(v)
    PROVE  AskedOK'
<1>1. sigrt \in Nat /\ MaxSignals \in Nat
  BY SessionDevicesAssumption DEF IInv, TypeOK
<1>2. CASE UNCHANGED vtVars
  BY <1>2 DEF AskedOK, vtVars
<1>3. CASE mode[fgVT] = "process" /\ sigrt' = sigrt + 1 /\ UNCHANGED <<fgVT, console, mode>>
  BY <1>1, <1>3 DEF AskedOK
<1>4. CASE mode[fgVT] = "auto" /\ UNCHANGED <<mode, want, sigrt>>
  BY <1>4 DEF AskedOK
<1> QED BY <1>2, <1>3, <1>4 DEF chvt

\* A VT in process mode is held, so seat_active_vt_changed() and manager_vt_switch()
\* find a session on it and one that answers for it.
LEMMA HolderFound ==
    ASSUME IInv, mode[fgVT] = "process"
    PROVE  VtSession(list, fgVT) # Nil /\ VtHolder(VtSession(list, fgVT)) # Nil
<1> USE SessionDevicesAssumption
<1>1. PICK s \in vtfd : vt[s] = fgVT
  BY DEF IInv, TypeOK, ControlOK
<1>2. s \in Sessions /\ s \in Linked(list)
  BY <1>1 DEF IInv, TypeOK, ControlOK, sessions
<1>3. s \in OnVT(fgVT) /\ s \in OnVT(fgVT) \cap vtfd
  BY <1>1, <1>2 DEF OnVT
<1>4. ASSUME NEW S, s \in S PROVE FirstIn(list, S) # Nil
  <2>1. list \in Seq(Sessions) /\ Linked(list) \cap S # {}
    BY <1>2, <1>4 DEF IInv, TypeOK
  <2>2. FirstIn(list, S) \in Linked(list)
    BY <2>1, FirstInFound
  <2>3. Linked(list) \subseteq Sessions
    BY <2>1 DEF Linked
  <2> QED BY <2>2, <2>3
<1>5. VtSession(list, fgVT) # Nil
  BY <1>3, <1>4 DEF VtSession
<1>6. VtHolder(VtSession(list, fgVT)) # Nil
  BY <1>3, <1>4, <1>5 DEF VtHolder
<1> QED BY <1>5, <1>6

\* manager_vt_switch() leaves no switch unanswered.
LEMMA VtSwitchAnswers ==
    ASSUME IInv, AskedOK, VtSwitch
    PROVE  want' = 0
<1>1. CASE want = 0
  BY <1>1 DEF VtSwitch
<1>2. CASE want # 0
  <2>1. VtHolder(VtSession(list, fgVT)) # Nil
    BY <1>2, HolderFound DEF AskedOK
  <2> QED BY <1>2, <2>1 DEF VtSwitch
<1> QED BY <1>1, <1>2

\* Every step keeps it: the controllers change the mode of VTs with VT_SETMODE, which
\* forgets the switch.
LEMMA NextAsked == IInv /\ AskedOK /\ [Next]_vars => AskedOK'
<1> SUFFICES ASSUME IInv, AskedOK, [Next]_vars PROVE AskedOK'
  OBVIOUS
<1>0. vt \in [Sessions -> 0 .. MaxVT] /\ vtfd \subseteq Sessions
  BY DEF IInv, TypeOK
<1>1. ASSUME NEW s \in Sessions, NEW v \in 0 .. MaxVT, CreateSession(s, v) PROVE AskedOK'
  BY <1>1, SetModeAsked DEF CreateSession
<1>2. ASSUME NEW s \in Sessions, StopSession(s) PROVE AskedOK'
  BY <1>2, SetModeAsked DEF StopSession, vtVars
<1>3. ASSUME NEW ss \in SUBSET Sessions, session_restore_vt(ss), sigrt' = sigrt, fgVT' = fgVT
      PROVE  AskedOK'
  <2>1. {vt[s] : s \in ss \cap vtfd} \in SUBSET (0 .. MaxVT)
    BY <1>0
  <2> QED BY <1>3, <2>1, SetModeAsked DEF session_restore_vt
<1>4. ASSUME NEW s \in Sessions, RemoveSession(s) \/ EmptyTrack(s) PROVE AskedOK'
  BY <1>3, <1>4 DEF RemoveSession, RestoreOnRemoval, EmptyTrack, session_drop_controller
<1>5. ASSUME NEW s \in Sessions, Activate(s) PROVE AskedOK'
  BY <1>5, ChvtAsked, SetModeAsked DEF Activate, vtVars
<1>6. ASSUME NEW c \in Clients, NEW s \in Sessions, ControllerStep(c, s) PROVE AskedOK'
  <2>1. CASE ReleaseControl(c, s)
    BY <1>3, <2>1 DEF ReleaseControl, session_drop_controller
  <2>2. CASE TakeControl(c, s)
    <3>1. {vt[s]} \ {0} \in SUBSET (0 .. MaxVT)
      BY <1>0
    <3> QED BY <2>2, <3>1, SetModeAsked DEF TakeControl, session_prepare_vt
  <2>3. CASE TakeControlVtFails(c, s)
    <3>1. {vt[s]} \in SUBSET (0 .. MaxVT)
      BY <1>0
    <3> QED BY <2>3, <3>1, SetModeAsked DEF TakeControlVtFails
  <2>4. CASE UNCHANGED vtVars
    BY <2>4, SetModeAsked DEF vtVars
  <2> QED BY <1>6, <2>1, <2>2, <2>3, <2>4
          DEF ControllerStep, TakeControlVanishes, TakeDevice, TakeDeviceAgain,
              TakeDeviceBusy, ReleaseDevice, PauseDeviceComplete
<1>7. ASSUME NEW c \in Clients, Disconnect(c) PROVE AskedOK'
  BY <1>7, SetModeAsked DEF Disconnect, vtVars
<1>8. ASSUME NEW c \in Clients, NameOwnerChanged(c) PROVE AskedOK'
  BY <1>3, <1>8 DEF NameOwnerChanged, session_drop_controller
<1>9. ASSUME NEW d \in Devices, Plug(d) \/ Unplug(d) \/ UdevEvent(d) \/ ForeignMaster(d)
      PROVE  AskedOK'
  BY <1>9, SetModeAsked DEF Plug, Unplug, UdevEvent, ForeignMaster, vtVars
<1>10. ASSUME NEW v \in VTs, SwitchVT(v) PROVE AskedOK'
  BY <1>10, ChvtAsked DEF SwitchVT
<1>11. CASE ConsoleEvent
  BY <1>11, SetModeAsked DEF ConsoleEvent
<1>12. CASE VtSwitch
  BY <1>12, VtSwitchAnswers DEF AskedOK
<1>13. CASE UNCHANGED vars
  BY <1>13, SetModeAsked DEF vars, vtVars
<1> QED BY <1>1, <1>2, <1>4, <1>5, <1>6, <1>7, <1>8, <1>9, <1>10, <1>11, <1>12, <1>13
        DEF Next

\* manager_vt_switch(): as long as a VT is asked to make way, a signal that says so
\* waits to be read, and reading the first one answers, whatever the controllers and
\* the sessions do in between: nobody is locked into the foreground VT.
THEOREM AskedIsAnswered ==
    Spec => [](want # 0 => sigrt > 0) /\ [][VtSwitch => want' = 0]_vars
<1>1. Init => AskedOK
  BY DEF Init, AskedOK
<1>2. AskedOK => (want # 0 => sigrt > 0)
  BY DEF AskedOK
<1>3. IInv /\ AskedOK /\ [Next]_vars => [VtSwitch => want' = 0]_vars
  BY VtSwitchAnswers
<1> QED BY <1>1, <1>2, <1>3, NextAsked, Invariant, PTL DEF Spec
=============================================================================
