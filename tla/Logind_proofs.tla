--------------------------- MODULE Logind_proofs ---------------------------
(***************************************************************************)
(* Proofs that no pointer dangles in the daemon's tables of sessions, seats*)
(* and users, for any number of each and every configuration.              *)
(***************************************************************************)
EXTENDS Logind, Lists_proofs

\* The inductive invariant.  PointersValid is not inductive alone: the loops that
\* stop or free the sessions of a seat or a user are interrupted between two of
\* them in the model, and WalksValid says what they have still to do; the kernel
\* reports the cgroups of sessions that exist.
IInv ==
    /\ TypeOK /\ PointersValid /\ WalksValid
    /\ populated \subseteq sessions

\* user_elect_display() returns nothing, the session that is the display already, or
\* a session of the user that runs.
LEMMA ElectedDisplay ==
    ASSUME NEW inf, NEW ord, NEW u, NEW running \in SUBSET SessionIds
    PROVE  LET d == user_elect_display(inf, ord, u, running)
           IN  \/ d = Nil \/ d = display[u]
               \/ d \in running /\ inf[d] # Nil /\ inf[d].user = u
<1> DEFINE C == DisplayCandidates(inf, u, running)
           best == {s \in C : \A t \in C : ~ elect_display_prefers(inf, t, s)}
<1>1. \A s \in C : s \in running /\ inf[s] # Nil /\ inf[s].user = u
  BY DEF DisplayCandidates
<1>2. FirstIn(ord, best) \in best \cup {Nil}
  BY FirstInMember
<1> HIDE DEF C
<1> QED BY <1>1, <1>2 DEF user_elect_display, C

\* Evicting s: nobody else loses a slot, and s holds none.
LEMMA Evicted ==
    ASSUME TypeOK, SlotsPoint, NEW s \in sessions, seat_evict_position(s)
    PROVE  /\ position' \in [SessionIds -> 0 .. MaxPos]
           /\ positions' \in [Seats \X Positions -> SessionIds \cup {Nil}]
           /\ \A e \in Seats, p \in Positions :
                positions'[<<e, p>>] # Nil =>
                    /\ positions'[<<e, p>>] \in SessionsOfSeat(e) \ {s}
                    /\ position'[positions'[<<e, p>>]] = p
<1>1. s \in SessionIds /\ info[s] \in SessionInfo
  BY DEF TypeOK, SessionTypeOK, sessions
<1>2. position' \in [SessionIds -> 0 .. MaxPos]
  BY <1>1, LogindAssumption DEF seat_evict_position, TypeOK, SessionTypeOK
<1> DEFINE h == FirstIn(order, Heirs(s))
<1>3. h \in Heirs(s) \cup {Nil}
  BY FirstInMember
<1>4. Heirs(s) \subseteq SessionIds
  BY DEF Heirs, SessionsOfSeat, sessions
<1> HIDE DEF h
<1>5. positions' = IF HoldsPosition(s)
                   THEN [positions EXCEPT ![<<info[s].seat, position[s]>>] = h]
                   ELSE positions
  BY DEF seat_evict_position, h
<1>6. positions' \in [Seats \X Positions -> SessionIds \cup {Nil}]
  BY <1>3, <1>4, <1>5 DEF TypeOK, SeatTypeOK
<1>7. ASSUME NEW e \in Seats, NEW p \in Positions, positions'[<<e, p>>] # Nil
      PROVE  /\ positions'[<<e, p>>] \in SessionsOfSeat(e) \ {s}
             /\ position'[positions'[<<e, p>>]] = p
  <2>1. CASE HoldsPosition(s) /\ e = info[s].seat /\ p = position[s]
    <3>1. positions'[<<e, p>>] = h
      BY <2>1, <1>5 DEF TypeOK, SeatTypeOK
    <3>2. h \in Heirs(s)
      BY <3>1, <1>3, <1>7
    <3> QED
      BY <3>1, <3>2, <2>1, <1>1 
         DEF Heirs, seat_evict_position, TypeOK, SessionTypeOK, SessionsOfSeat, sessions
  <2>2. CASE ~ (HoldsPosition(s) /\ e = info[s].seat /\ p = position[s])
    <3>1. positions'[<<e, p>>] = positions[<<e, p>>]
      BY <2>2, <1>5 DEF TypeOK, SeatTypeOK
    <3>2. /\ positions[<<e, p>>] \in SessionsOfSeat(e)
          /\ position[positions[<<e, p>>]] = p
      BY <3>1, <1>7 DEF SlotsPoint
    <3>3. positions[<<e, p>>] # s
      <4> SUFFICES ASSUME positions[<<e, p>>] = s PROVE FALSE
        OBVIOUS
      <4>1. info[s].seat = e /\ position[s] = p
        BY <3>2 DEF SessionsOfSeat
      <4>2. HoldsPosition(s)
        BY <4>1, LogindAssumption DEF HoldsPosition, Positions
      <4> QED BY <4>1, <4>2, <2>2
    <3> QED
      BY <3>1, <3>2, <3>3, <1>1 
         DEF seat_evict_position, TypeOK, SessionTypeOK, SessionsOfSeat, sessions
  <2> QED BY <2>1, <2>2
<1> QED BY <1>2, <1>6, <1>7

\* What session_stop() is never left with: a step that stops s and leaves the
\* other variables alone keeps the types and every pointer of sessions, seats,
\* slots, users and event sources valid.
LEMMA SessionStopped ==
    ASSUME IInv, NEW s \in sessions, session_stop(s),
           UNCHANGED <<procVars, seats, master, active, pending, vtVars, users,
                       uStarted, uStopping, byPin, stamped, uTimer, linger,
                       runtimeDir>>
    PROVE  /\ SessionTypeOK' /\ SeatTypeOK' /\ UserTypeOK'
           /\ SessionsPoint' /\ SeatsPoint' /\ SlotsPoint' /\ UsersPoint'
           /\ info' = info
           /\ started' \cup stopping' \cup timer' \cup watch' \cup cgEvent'
                \subseteq sessions
<1> USE DEF procVars, vtVars
<1>1. TypeOK /\ SessionsPoint /\ SeatsPoint /\ SlotsPoint /\ UsersPoint
      /\ SourcesPoint
  BY DEF IInv, PointersValid
<1>2. CASE s \notin started \ stopping
  BY <1>1, <1>2 DEF session_stop, sessVars, TypeOK, SessionTypeOK, SeatTypeOK,
     UserTypeOK, SessionsPoint, SeatsPoint, SlotsPoint, UsersPoint, SourcesPoint,
     SessionsOfSeat, SessionsOfUser, sessions
<1>3. CASE s \in started \ stopping
  <2>1. session_stop_running(s) /\ UNCHANGED <<info, order, started>>
    BY <1>3 DEF session_stop
  <2>2. seat_evict_position(s)
    BY <2>1 DEF session_stop_running
  <2>3. s \in SessionIds /\ info[s].user \in Uids
    BY <1>1 DEF TypeOK, SessionTypeOK, sessions, SessionInfo
  <2>4. SessionTypeOK'
    BY <1>1, <2>1, <2>2, <2>3, Evicted
       DEF session_stop_running, TypeOK, SessionTypeOK
  <2>5. SeatTypeOK'
    BY <1>1, <2>2, Evicted DEF TypeOK, SeatTypeOK
  <2> DEFINE u == info[s].user
             d == user_elect_display(info, order, u, started \ stopping')
  <2>6. d = Nil \/ d \in SessionsOfUser(u)
    <3>1. started \ stopping' \in SUBSET SessionIds
      BY <1>1 DEF TypeOK, SessionTypeOK
    <3> QED BY <1>1, <2>3, <3>1, ElectedDisplay
       DEF UsersPoint, SessionsOfUser, sessions
  <2>7. display' = [display EXCEPT ![u] = d]
    BY <2>1 DEF session_stop_running
  <2> HIDE DEF d
  <2>8. UserTypeOK' /\ UsersPoint'
    BY <1>1, <2>1, <2>3, <2>6, <2>7
       DEF TypeOK, UserTypeOK, UsersPoint, SessionsOfUser, sessions
  <2>9. SlotsPoint'
    BY <1>1, <2>1, <2>2, Evicted DEF SlotsPoint, SessionsOfSeat, sessions
  <2>10. SessionsPoint' /\ SeatsPoint'
    BY <1>1, <2>1 DEF SessionsPoint, SeatsPoint, SessionsOfSeat, sessions
  <2>11. started' \cup stopping' \cup timer' \cup watch' \cup cgEvent' \subseteq sessions
    BY <1>1, <2>1 DEF session_stop_running, SourcesPoint
  <2> QED BY <2>1, <2>4, <2>5, <2>8, <2>9, <2>10, <2>11
<1> QED BY <1>2, <1>3

\* A freed session leaves no pointer to it behind.
LEMMA SessionFreed ==
    ASSUME IInv, NEW s \in sessions, session_free(s)
    PROVE  /\ SessionTypeOK' /\ SeatTypeOK' /\ UserTypeOK'
           /\ SessionsPoint' /\ SeatsPoint' /\ SlotsPoint' /\ UsersPoint'
           /\ info' = [info EXCEPT ![s] = Nil]
           /\ sessions' = sessions \ {s}
           /\ started' \cup stopping' \cup timer' \cup watch' \cup cgEvent'
                \cup sessGc' \subseteq sessions \ {s}
           /\ sessGc' \subseteq SessionIds
           /\ populated' \subseteq sessions \ {s}
           /\ UNCHANGED <<seats, master, users, seatGc>>
<1>1. TypeOK /\ SessionsPoint /\ SeatsPoint /\ SlotsPoint /\ UsersPoint
      /\ SourcesPoint /\ QueuesPoint
  BY DEF IInv, PointersValid
<1>2. s \in SessionIds /\ info[s] \in SessionInfo /\ info[s].user \in Uids
  BY <1>1 DEF TypeOK, SessionTypeOK, sessions, SessionInfo
<1>3. seat_evict_position(s) /\ info' = [info EXCEPT ![s] = Nil]
      /\ UNCHANGED <<seats, master, vtVars, users, uStarted, uStopping, byPin,
                     linger, runtimeDir, seatGc>>
  BY DEF session_free
<1>4. sessions' = sessions \ {s}
  BY <1>1, <1>2, <1>3 DEF sessions, TypeOK, SessionTypeOK
<1>5. SessionTypeOK'
  BY <1>1, <1>2, <1>3, Evicted DEF session_free, TypeOK, SessionTypeOK
<1>6. SeatTypeOK'
  BY <1>1, <1>3, Evicted DEF session_free, TypeOK, SeatTypeOK, unset, vtVars
<1> DEFINE u == info[s].user
           pinned == user_pinned_by(u, sessions \ {s})
<1>7. user_update_last_session_timer(u, pinned)
  BY DEF session_free
<1> HIDE DEF pinned
<1>8. UserTypeOK'
  BY <1>1, <1>2, <1>3, <1>7
     DEF session_free, TypeOK, UserTypeOK, unset, user_update_last_session_timer
<1>9. SessionsPoint'
  BY <1>1, <1>2, <1>3, <1>4 DEF SessionsPoint, TypeOK, SessionTypeOK, sessions
<1>10. SeatsPoint'
  BY <1>1, <1>2, <1>3, <1>4
     DEF session_free, SeatsPoint, SessionsOfSeat, unset, TypeOK, SessionTypeOK,
         SeatTypeOK, sessions
<1>11. SlotsPoint'
  BY <1>1, <1>2, <1>3, <1>4, Evicted
     DEF SlotsPoint, SessionsOfSeat, TypeOK, SessionTypeOK, sessions
<1>12. UsersPoint'
  <2>1. \A v \in Uids : display'[v] # Nil => display'[v] \in SessionsOfUser(v)'
    BY <1>1, <1>2, <1>3, <1>4
       DEF session_free, UsersPoint, SessionsOfUser, unset, TypeOK, SessionTypeOK,
           UserTypeOK, sessions
  <2>2. \A v \in Uids : uTimer'[v] # "off" => v \in users'
    BY <1>1, <1>2, <1>3, <1>7
       DEF UsersPoint, SessionsPoint, user_update_last_session_timer, TypeOK,
           UserTypeOK
  <2> QED BY <2>1, <2>2 DEF UsersPoint
<1>13. started' \cup stopping' \cup timer' \cup watch' \cup cgEvent' \cup sessGc'
         \subseteq sessions \ {s}
  BY <1>1 DEF session_free, SourcesPoint, QueuesPoint
<1>14. sessGc' \subseteq SessionIds /\ populated' \subseteq sessions \ {s}
  BY <1>13 DEF sessions, session_free, IInv
<1> QED BY <1>3, <1>4, <1>5, <1>6, <1>8, <1>9, <1>10, <1>11, <1>12, <1>13, <1>14
-----------------------------------------------------------------------------
(***************************************************************************)
(* One lemma per action: it keeps the invariant                            *)
(***************************************************************************)
\* The handlers that end in session_stop().
LEMMA StopHandlerKeeps ==
    ASSUME IInv, NEW s \in SessionIds, StopHandler(s),
           sessGc' = sessGc \/ sessGc' = sessGc \cup {s}
    PROVE  IInv'
<1>1. s \in sessions /\ session_stop(s)
  BY DEF StopHandler
<1>2. /\ UNCHANGED <<procVars, seats, master, active, pending, vtVars, users,
                     uStarted, uStopping, byPin, stamped, uTimer, linger,
                     runtimeDir, seatGc, userGc, cur, todo>>
      /\ pc = "event" /\ pc' = "gc"
  BY DEF StopHandler
<1>3. /\ SessionTypeOK' /\ SeatTypeOK' /\ UserTypeOK'
      /\ SessionsPoint' /\ SeatsPoint' /\ SlotsPoint' /\ UsersPoint'
      /\ info' = info
      /\ started' \cup stopping' \cup timer' \cup watch' \cup cgEvent' \subseteq sessions
  BY <1>1, <1>2, SessionStopped
<1>4. sessions' = sessions
  BY <1>3 DEF sessions
<1> QED
  BY <1>1, <1>2, <1>3, <1>4
     DEF procVars, IInv, TypeOK, WalkTypeOK, PCs, PointersValid, SourcesPoint,
         QueuesPoint, WalksValid, SessionsOfSeat, SessionsOfUser

\* One round of the loop of seat_stop_sessions() or user_stop() keeps the invariant.
LEMMA StopNextKeeps ==
    ASSUME IInv, StopNext
    PROVE  IInv'
<1>1. PICK s \in todo : session_stop(s) /\ todo' = todo \ {s}
  BY DEF StopNext
<1>2. /\ UNCHANGED <<procVars, seats, master, active, pending, vtVars, users,
                     uStarted, uStopping, byPin, stamped, uTimer, linger,
                     runtimeDir, gcVars, pc, cur>>
      /\ pc \in {"user_stop", "user_gc_stop", "seat_stop", "seat_gc_stop"}
  BY DEF StopNext
<1>3. s \in sessions
  BY DEF IInv, PointersValid, SourcesPoint
<1>4. /\ SessionTypeOK' /\ SeatTypeOK' /\ UserTypeOK'
      /\ SessionsPoint' /\ SeatsPoint' /\ SlotsPoint' /\ UsersPoint'
      /\ info' = info
      /\ started' \cup stopping' \cup timer' \cup watch' \cup cgEvent' \subseteq sessions
  BY <1>1, <1>2, <1>3, SessionStopped
<1>5. sessions' = sessions
  BY <1>4 DEF sessions
<1> QED
  BY <1>1, <1>2, <1>4, <1>5
     DEF procVars, gcVars, IInv, TypeOK, WalkTypeOK, PointersValid, SourcesPoint,
         QueuesPoint, WalksValid

\* manager_gc() takes a session off its queue and stops it if it may go.
LEMMA GcSessionKeeps ==
    ASSUME IInv, NEW s \in SessionIds, GcSession(s)
    PROVE  IInv'
<1>1. /\ UNCHANGED <<procVars, seats, master, active, pending, vtVars, users,
                     uStarted, uStopping, byPin, stamped, uTimer, linger,
                     runtimeDir, seatGc, userGc, todo>>
      /\ pc = "gc" /\ pc' = "session_gc" /\ cur' = s
      /\ s \in sessGc /\ sessGc' = sessGc \ {s}
  BY DEF GcSession
<1>2. s \in sessions
  BY <1>1 DEF IInv, PointersValid, QueuesPoint
<1>3. /\ SessionTypeOK' /\ SeatTypeOK' /\ UserTypeOK'
      /\ SessionsPoint' /\ SeatsPoint' /\ SlotsPoint' /\ UsersPoint'
      /\ info' = info
      /\ started' \cup stopping' \cup timer' \cup watch' \cup cgEvent' \subseteq sessions
  <2>1. CASE session_stop(s)
    BY <1>1, <1>2, <2>1, SessionStopped
  <2>2. CASE UNCHANGED <<sessVars, positions, display>>
    BY <1>1, <2>2 DEF sessVars, procVars, vtVars, IInv, TypeOK, SessionTypeOK,
       SeatTypeOK, UserTypeOK, PointersValid, SessionsPoint, SeatsPoint,
       SlotsPoint, UsersPoint, SourcesPoint, SessionsOfSeat, SessionsOfUser, sessions
  <2> QED BY <2>1, <2>2 DEF GcSession
<1>4. sessions' = sessions
  BY <1>3 DEF sessions
<1> QED
  BY <1>1, <1>2, <1>3, <1>4
     DEF procVars, IInv, TypeOK, WalkTypeOK, PCs, PointersValid, SourcesPoint,
         QueuesPoint, WalksValid

\* One round of the loop of seat_free().
LEMMA SeatFreeSessionKeeps ==
    ASSUME IInv, NEW s \in todo, pc = "seat_free", seat_free_session(s),
           todo' = todo \ {s}, UNCHANGED <<pc, cur>>
    PROVE  IInv'
<1>1. session_free(s) /\ UNCHANGED userGc
  BY DEF seat_free_session
<1>2. s \in sessions /\ todo = SessionsOfSeat(cur)
  BY DEF IInv, PointersValid, SourcesPoint, WalksValid
<1>3. SessionsOfSeat(cur)' = SessionsOfSeat(cur) \ {s}
  BY <1>1, <1>2, SessionFreed DEF SessionsOfSeat, sessions, IInv, TypeOK,
     SessionTypeOK
<1> QED
  BY <1>1, <1>2, <1>3, SessionFreed
     DEF IInv, TypeOK, WalkTypeOK, PointersValid, SourcesPoint, QueuesPoint,
         WalksValid

\* One round of the loop of user_finalize(): the session that is freed queues its user.
LEMMA UserFreeSessionKeeps ==
    ASSUME IInv, NEW s \in todo, pc = "user_free", session_finalize_and_free(s),
           todo' = todo \ {s}, UNCHANGED <<pc, cur>>
    PROVE  IInv'
<1>1. session_free(s) /\ userGc' = userGc \cup {info[s].user}
  BY DEF session_finalize_and_free
<1>2. s \in sessions /\ todo = SessionsOfUser(cur)
  BY DEF IInv, PointersValid, SourcesPoint, WalksValid
<1>3. SessionsOfUser(cur)' = SessionsOfUser(cur) \ {s}
  BY <1>1, <1>2, SessionFreed DEF SessionsOfUser, sessions, IInv, TypeOK,
     SessionTypeOK
<1>4. info[s].user \in users
  BY <1>2 DEF IInv, PointersValid, SessionsPoint
<1> QED
  BY <1>1, <1>2, <1>3, <1>4, SessionFreed
     DEF IInv, TypeOK, UserTypeOK, WalkTypeOK, PointersValid, SourcesPoint,
         QueuesPoint, WalksValid

\* The loops that free the sessions of a seat or of a user.
LEMMA FreeNextKeeps ==
    ASSUME IInv, FreeNext
    PROVE  IInv'
<1>1. PICK s \in todo : /\ todo' = todo \ {s}
                        /\ \/ pc = "seat_free" /\ seat_free_session(s)
                           \/ pc = "user_free" /\ session_finalize_and_free(s)
  BY DEF FreeNext
<1>2. UNCHANGED <<pc, cur>>
  BY DEF FreeNext
<1> QED
  BY <1>1, <1>2, SeatFreeSessionKeeps, UserFreeSessionKeeps

\* manager_gc() frees the session it stopped, unless it may not go after all.
LEMMA GcSessionFinishKeeps ==
    ASSUME IInv, GcSessionFinish
    PROVE  IInv'
<1>1. pc = "session_gc" /\ pc' = "gc" /\ cur' = Nil /\ UNCHANGED todo
      /\ todo = {} /\ cur \in sessions
  BY DEF GcSessionFinish, IInv, WalksValid
<1>2. CASE session_finalize_and_free(cur)
  <2>1. session_free(cur) /\ userGc' = userGc \cup {info[cur].user}
    BY <1>2 DEF session_finalize_and_free
  <2>2. info[cur].user \in users
    BY <1>1 DEF IInv, PointersValid, SessionsPoint
  <2> QED
    BY <1>1, <2>1, <2>2, SessionFreed
       DEF IInv, TypeOK, UserTypeOK, WalkTypeOK, PCs, PointersValid, SourcesPoint,
           QueuesPoint, WalksValid
<1>3. CASE UNCHANGED <<sessVars, procVars, seatVars, vtVars, userVars, gcVars>>
  BY <1>1, <1>3
     DEF sessVars, procVars, seatVars, vtVars, userVars, gcVars, IInv, TypeOK,
         SessionTypeOK, SeatTypeOK, UserTypeOK, WalkTypeOK, PCs, PointersValid,
         SessionsPoint, SeatsPoint, SlotsPoint, UsersPoint, SourcesPoint,
         QueuesPoint, WalksValid, SessionsOfSeat, SessionsOfUser, sessions
<1> QED BY <1>2, <1>3 DEF GcSessionFinish

\* What a session is changes in type and class only.
Retypes(s) == SetClass(s) \/ \E t \in Types : SetType(s, t)

\* session_set_type() and session_set_class() leave a session with its user, seat and VT,
\* and if it pins its user it goes on to.
LEMMA Retyped ==
    ASSUME IInv, NEW s \in SessionIds, Retypes(s)
    PROVE  /\ pc = "event" /\ pc' = "gc" /\ s \in sessions
           /\ info' \in [SessionIds -> SessionInfo \cup {Nil}] /\ sessions' = sessions
           /\ \A x \in SessionIds \ {s} : info'[x] = info[x]
           /\ \A x \in sessions :
                /\ info'[x].user = info[x].user /\ info'[x].seat = info[x].seat
                /\ info'[x].vtnr = info[x].vtnr
                /\ SESSION_CLASS_PIN_USER(info'[x].class) =
                     SESSION_CLASS_PIN_USER(info[x].class)
           /\ UNCHANGED <<order, position, started, stopping, timer, watch, fifo, procVars,
                          seatVars, vtVars, userVars, gcVars, cur, todo>>
<1>1. s \in sessions
  BY DEF Retypes, SetClass, SetType
<1>2. info \in [SessionIds -> SessionInfo \cup {Nil}] /\ info[s] \in SessionInfo
  BY <1>1 DEF IInv, TypeOK, SessionTypeOK, sessions
<1>3. PICK new \in SessionInfo :
         /\ SessionChanges(s, new)
         /\ new.user = info[s].user /\ new.seat = info[s].seat /\ new.vtnr = info[s].vtnr
         /\ SESSION_CLASS_PIN_USER(new.class) = SESSION_CLASS_PIN_USER(info[s].class)
  <2>1. CASE SetClass(s)
    <3> DEFINE new == [info[s] EXCEPT !.class = "user"]
    <3>1. new \in SessionInfo
      BY <1>2, <2>1 DEF SetClass, SessionInfo
    <3>2. SessionChanges(s, new) /\ info[s].class = "user-incomplete"
      BY <2>1 DEF SetClass
    <3>3. /\ new.user = info[s].user /\ new.seat = info[s].seat
          /\ new.vtnr = info[s].vtnr /\ new.class = "user"
      BY <1>2 DEF SessionInfo
    <3> QED BY <3>1, <3>2, <3>3 DEF SESSION_CLASS_PIN_USER
  <2>2. ASSUME NEW t \in Types, SetType(s, t)
        PROVE  \E new \in SessionInfo :
                 /\ SessionChanges(s, new)
                 /\ new.user = info[s].user /\ new.seat = info[s].seat
                 /\ new.vtnr = info[s].vtnr
                 /\ SESSION_CLASS_PIN_USER(new.class) =
                      SESSION_CLASS_PIN_USER(info[s].class)
    <3> DEFINE new == [info[s] EXCEPT !.type = t]
    <3>1. new \in SessionInfo
      BY <1>2, <2>2 DEF SessionInfo
    <3>2. SessionChanges(s, new)
      BY <2>2 DEF SetType
    <3>3. /\ new.user = info[s].user /\ new.seat = info[s].seat
          /\ new.vtnr = info[s].vtnr /\ new.class = info[s].class
      BY <1>2 DEF SessionInfo
    <3> QED BY <3>1, <3>2, <3>3
  <2> QED BY <2>1, <2>2 DEF Retypes
<1>4. info' = [info EXCEPT ![s] = new] /\ new # Nil
  BY <1>3, LogindAssumption DEF SessionChanges
<1>5. /\ info' \in [SessionIds -> SessionInfo \cup {Nil}]
      /\ \A x \in SessionIds \ {s} : info'[x] = info[x]
      /\ info'[s] = new
  BY <1>2, <1>3, <1>4
<1>6. sessions' = sessions
  BY <1>1, <1>4, <1>5 DEF sessions
<1>7. \A x \in sessions :
         /\ info'[x].user = info[x].user /\ info'[x].seat = info[x].seat
         /\ info'[x].vtnr = info[x].vtnr
         /\ SESSION_CLASS_PIN_USER(info'[x].class) = SESSION_CLASS_PIN_USER(info[x].class)
  BY <1>3, <1>5 DEF sessions
<1>8. /\ pc = "event" /\ pc' = "gc"
      /\ UNCHANGED <<order, position, started, stopping, timer, watch, fifo, procVars,
                     seatVars, vtVars, userVars, gcVars, cur, todo>>
  BY <1>3 DEF SessionChanges
<1> QED BY <1>1, <1>5, <1>6, <1>7, <1>8

\* A session that changes its type or its class is pointed to as before.
LEMMA RetypesKeeps ==
    ASSUME IInv, NEW s \in SessionIds, Retypes(s)
    PROVE  IInv'
<1> DEFINE Rest == <<position, started, stopping, timer, watch, fifo, procVars, seatVars,
                     vtVars, userVars, gcVars, cur, todo>>
<1>1. /\ pc = "event" /\ pc' = "gc" /\ UNCHANGED Rest
      /\ info' \in [SessionIds -> SessionInfo \cup {Nil}] /\ sessions' = sessions
      /\ \A x \in sessions : info'[x].user = info[x].user /\ info'[x].seat = info[x].seat
  BY Retyped
<1> USE DEF procVars, seatVars, vtVars, userVars, gcVars
<1>2. TypeOK'
  BY <1>1 DEF IInv, TypeOK, SessionTypeOK, SeatTypeOK, UserTypeOK, WalkTypeOK, PCs
<1>3. \A e : SessionsOfSeat(e)' = SessionsOfSeat(e)
  BY <1>1 DEF SessionsOfSeat
<1>4. \A u : SessionsOfUser(u)' = SessionsOfUser(u)
  BY <1>1 DEF SessionsOfUser
<1>5. SessionsPoint'
  BY <1>1 DEF IInv, PointersValid, SessionsPoint
<1>6. SeatsPoint' /\ SlotsPoint' /\ UsersPoint'
  BY <1>1, <1>3, <1>4 DEF IInv, PointersValid, SeatsPoint, SlotsPoint, UsersPoint
<1>7. SourcesPoint' /\ QueuesPoint' /\ (populated \subseteq sessions)'
  BY <1>1 DEF IInv, PointersValid, SourcesPoint, QueuesPoint
<1>8. WalksValid'
  BY <1>1 DEF IInv, WalksValid
<1> QED BY <1>2, <1>5, <1>6, <1>7, <1>8 DEF IInv, PointersValid

\* The steps that follow change few variables each, and follow from the
\* definitions of the invariant's parts alone.
USE DEF sessVars, procVars, seatVars, vtVars, userVars, gcVars, walkVars
USE DEF IInv, TypeOK, SessionTypeOK, SeatTypeOK, UserTypeOK, WalkTypeOK,
        PointersValid, SessionsPoint, SeatsPoint, SlotsPoint, UsersPoint,
        SourcesPoint, QueuesPoint, WalksValid, SessionsOfSeat, SessionsOfUser,
        sessions, PCs

\* method_release_session() arms the release timer of a session that exists.
LEMMA ReleaseSessionKeeps ==
    ASSUME IInv, NEW s \in SessionIds, ReleaseSession(s)
    PROVE  IInv'
BY LogindAssumption DEF ReleaseSession, session_release

\* session_check_cgroup_events() is about a session that exists.
LEMMA CgroupEventKeeps ==
    ASSUME IInv, NEW s \in SessionIds, CgroupEvent(s)
    PROVE  IInv'
BY LogindAssumption DEF CgroupEvent, session_release

\* user_stop() begins with the sessions of a user that exists.
LEMMA TerminateUserKeeps ==
    ASSUME IInv, NEW u \in Uids, TerminateUser(u)
    PROVE  IInv'
BY LogindAssumption DEF TerminateUser

\* bus_seat_method_terminate() begins with the sessions of a seat that exists.
LEMMA TerminateSeatKeeps ==
    ASSUME IInv, NEW e \in Seats, TerminateSeat(e)
    PROVE  IInv'
BY LogindAssumption DEF TerminateSeat

\* seat_complete_switch() makes the pending session, which exists, the active one.
LEMMA CompleteSwitchKeeps ==
    ASSUME IInv, NEW e \in Seats, CompleteSwitch(e)
    PROVE  IInv'
BY LogindAssumption DEF CompleteSwitch, SeatHandler, complete_switch

\* user_stop_timeout_callback() queues a user that exists.
LEMMA UserStopTimeoutKeeps ==
    ASSUME IInv, NEW u \in Uids, UserStopTimeout(u)
    PROVE  IInv'
BY LogindAssumption DEF UserStopTimeout

\* method_set_user_linger() adds the user, or starts one that exists.
LEMMA EnableLingerKeeps ==
    ASSUME IInv, NEW u \in Uids, EnableLinger(u)
    PROVE  IInv'
BY LogindAssumption DEF EnableLinger, user_start_ok, user_start_failed

\* method_set_user_linger() queues a user that exists, if it does.
LEMMA DisableLingerKeeps ==
    ASSUME IInv, NEW u \in Uids, DisableLinger(u)
    PROVE  IInv'
BY LogindAssumption DEF DisableLinger

\* manager_process_seat_device() adds a seat without sessions.
LEMMA SeatDeviceAddedKeeps ==
    ASSUME IInv, NEW e \in Seats, SeatDeviceAdded(e)
    PROVE  IInv'
BY LogindAssumption DEF SeatDeviceAdded

\* device_free() queues a seat that exists.
LEMMA SeatDeviceRemovedKeeps ==
    ASSUME IInv, NEW e \in Seats, SeatDeviceRemoved(e)
    PROVE  IInv'
BY LogindAssumption DEF SeatDeviceRemoved

\* user_stop() ends with all sessions of the user stopped.
LEMMA UserStoppedKeeps ==
    ASSUME IInv, UserStopped
    PROVE  IInv'
BY LogindAssumption DEF UserStopped

\* seat_stop() ends with all sessions of the seat stopped.
LEMMA SeatStoppedKeeps ==
    ASSUME IInv, SeatStopped
    PROVE  IInv'
BY LogindAssumption DEF SeatStopped

\* seat_free() ends when no session is left that points to the seat.
LEMMA SeatFreedKeeps ==
    ASSUME IInv, SeatFreed
    PROVE  IInv'
BY LogindAssumption DEF SeatFreed

\* user_free() runs when no session is left that points to the user.
LEMMA UserFreedKeeps ==
    ASSUME IInv, UserFreed
    PROVE  IInv'
BY LogindAssumption DEF UserFreed

\* manager_gc() takes a seat off its queue and begins to stop it if it may go.
LEMMA GcSeatKeeps ==
    ASSUME IInv, NEW e \in Seats, GcSeat(e)
    PROVE  IInv'
BY LogindAssumption DEF GcSeat

\* manager_gc() takes a user off its queue and begins to stop it if it may go.
LEMMA GcUserKeeps ==
    ASSUME IInv, NEW u \in Uids, GcUser(u)
    PROVE  IInv'
BY LogindAssumption DEF GcUser

\* manager_gc() begins to free the user it stopped, unless it may not go after all.
LEMMA GcUserFinishKeeps ==
    ASSUME IInv, GcUserFinish
    PROVE  IInv'
BY LogindAssumption DEF GcUserFinish

\* manager_gc() returns when its queues are empty.
LEMMA GcDoneKeeps ==
    ASSUME IInv, GcDone
    PROVE  IInv'
BY LogindAssumption DEF GcDone

\* The exit of a leader changes no table of the daemon.
LEMMA LeaderDiesKeeps ==
    ASSUME IInv, NEW s \in SessionIds, LeaderDies(s)
    PROVE  IInv'
BY LogindAssumption DEF LeaderDies, daemonVars

\* The closing of a FIFO changes no table of the daemon.
LEMMA FifoWriterGoneKeeps ==
    ASSUME IInv, NEW s \in SessionIds, FifoWriterGone(s)
    PROVE  IInv'
BY LogindAssumption DEF FifoWriterGone

\* The kernel reports on the cgroup of a session that exists.
LEMMA CgroupChangesKeeps ==
    ASSUME IInv, NEW s \in SessionIds, CgroupChanges(s)
    PROVE  IInv'
BY LogindAssumption DEF CgroupChanges, daemonVars

\* The foreground VT changes behind the daemon's back.
LEMMA VtSwitchKeeps ==
    ASSUME IInv, NEW v \in VTs, VtSwitch(v)
    PROVE  IInv'
BY LogindAssumption DEF VtSwitch, daemonVars

\* The passing of time changes no table of the daemon.
LEMMA StopDelayElapsesKeeps ==
    ASSUME IInv, NEW u \in Uids, StopDelayElapses(u)
    PROVE  IInv'
BY LogindAssumption DEF StopDelayElapses

\* seat_active_vt_changed() makes a session of seat0, or none, the active one.
LEMMA ConsoleEventKeeps ==
    ASSUME IInv, ConsoleEvent
    PROVE  IInv'
<1> DEFINE a == VtSession(info, order, fgVT)
<1>1. a = Nil \/ a \in SessionsOfSeat(Seat0)
  BY FirstInMember DEF VtSession
<1>2. active' = [active EXCEPT ![Seat0] = a]
  BY DEF ConsoleEvent
<1>3. /\ pc = "event" /\ pc' = "gc" /\ console' \in BOOLEAN
      /\ UNCHANGED <<sessVars, procVars, seats, master, positions, userVars, gcVars,
                     cur, todo, pending, fgVT>>
  BY DEF ConsoleEvent, SeatHandler
<1> HIDE DEF a
<1>4. SeatTypeOK' /\ SeatsPoint'
  BY <1>1, <1>2, <1>3, LogindAssumption
<1> QED BY <1>3, <1>4

\* session_activate() switches to a session that exists.
LEMMA session_activateKeeps ==
    ASSUME IInv, NEW s \in sessions, SeatHandler, session_activate(s)
    PROVE  IInv'
<1>1. /\ s \in SessionIds /\ info[s].vtnr \in 0 .. MaxVT
      /\ info[s].seat \in Seats \cup {Nil}
  BY DEF SessionInfo
<1>2. /\ pc = "event" /\ pc' = "gc"
      /\ UNCHANGED <<sessVars, procVars, seats, master, positions, userVars, gcVars,
                     cur, todo>>
  BY DEF SeatHandler
<1>3. fgVT' \in VTs
  BY <1>1, LogindAssumption DEF session_activate, chvt, VTs
<1>4. console' \in BOOLEAN
  BY DEF session_activate, chvt
<1>5. /\ active' \in [Seats -> SessionIds \cup {Nil}]
      /\ pending' \in [Seats -> SessionIds \cup {Nil}]
      /\ SeatsPoint'
  <2> DEFINE e == info[s].seat
  <2>1. CASE UNCHANGED <<active, pending>>
    BY <1>2, <2>1
  <2>2. CASE e # Nil /\ complete_switch(e, s)
    BY <1>1, <1>2, <2>2 DEF complete_switch
  <2>3. CASE e # Nil /\ pending' = [pending EXCEPT ![e] = s] /\ UNCHANGED active
    BY <1>1, <1>2, <2>3
  <2> QED BY <2>1, <2>2, <2>3 DEF session_activate
<1>6. SeatTypeOK'
  BY <1>2, <1>3, <1>4, <1>5
<1> QED BY <1>2, <1>5, <1>6

\* So do the bus calls that end in it.
LEMMA ActivateKeeps ==
    ASSUME IInv, NEW s \in SessionIds, Activate(s)
    PROVE  IInv'
BY session_activateKeeps DEF Activate

\* seat_switch_to() activates the session of a slot, which exists, or changes the VT.
LEMMA SwitchToKeeps ==
    ASSUME IInv, NEW e \in Seats, NEW n \in Positions, SwitchTo(e, n)
    PROVE  IInv'
<1>1. SeatHandler /\ seat_switch_to(e, n)
  BY DEF SwitchTo
<1>2. CASE positions[<<e, n>>] # Nil
  <2>1. positions[<<e, n>>] \in sessions /\ session_activate(positions[<<e, n>>])
    BY <1>1, <1>2 DEF seat_switch_to
  <2> QED BY <1>1, <2>1, session_activateKeeps
<1>3. CASE positions[<<e, n>>] = Nil
  <2>1. /\ pc = "event" /\ pc' = "gc"
        /\ UNCHANGED <<sessVars, procVars, seats, master, positions, userVars,
                       gcVars, cur, todo, active, pending>>
    BY <1>1, <1>3 DEF SeatHandler, seat_switch_to
  <2>2. fgVT' \in VTs
    BY <1>1, <1>3 DEF seat_switch_to, chvt
  <2>3. console' \in BOOLEAN
    BY <1>1, <1>3 DEF seat_switch_to, chvt
  <2>4. SeatTypeOK'
    BY <2>1, <2>2, <2>3
  <2> QED BY <2>1, <2>4
<1> QED BY <1>2, <1>3

\* manager_create_session() links the session, its user, its seat and its slot, whether
\* or not they can be started.
LEMMA CreateSessionKeeps ==
    ASSUME IInv, NEW s \in SessionIds, NEW u \in Uids, NEW c \in Classes,
           NEW t \in Types, NEW e \in Seats \cup {Nil}, NEW v \in 0 .. MaxVT,
           CreateSession(s, u, c, t, e, v)
    PROVE  IInv'
<1>1. /\ pc = "event" /\ pc' = "gc" /\ s \notin sessions
      /\ e \in seats \cup {Nil}
      /\ v \in IF e # Nil /\ seat_has_vts(e) THEN VTs ELSE {0}
      /\ session_register(s, u, c, t, e, v)
      /\ UNCHANGED <<stopping, timer, cgEvent, seats, master, pending, fgVT, linger,
                     seatGc, cur, todo>>
  BY DEF CreateSession
<1>2. /\ info' = [info EXCEPT ![s] = [user |-> u, class |-> c, type |-> t,
                                      seat |-> e, vtnr |-> v]]
      /\ users' = users \cup {u} /\ alive' = alive \cup {s}
      /\ watch' = watch \cup {s}
      /\ user_update_last_session_timer(u, TRUE)
      /\ seat_assign_position(e, s, v)
      /\ byPin' = IF SESSION_CLASS_PIN_USER(c) THEN byPin \cup {u} ELSE byPin
  BY <1>1 DEF session_register
<1> DEFINE r == [user |-> u, class |-> c, type |-> t, seat |-> e, vtnr |-> v]
<1>3. r \in SessionInfo /\ r # Nil /\ r.user = u /\ r.seat = e
  BY LogindAssumption DEF SessionInfo
<1> HIDE DEF r
<1>4. /\ info' = [info EXCEPT ![s] = r]
      /\ info' \in [SessionIds -> SessionInfo \cup {Nil}]
      /\ sessions' = sessions \cup {s}
      /\ \A x \in sessions : info'[x] = info[x] /\ x # s
      /\ info'[s].user = u /\ info'[s].seat = e
  BY <1>1, <1>2, <1>3 DEF r
<1>5. SessionsPoint'
  BY <1>1, <1>2, <1>4
<1>6. /\ position' \in [SessionIds -> 0 .. MaxPos]
      /\ positions' \in [Seats \X Positions -> SessionIds \cup {Nil}]
      /\ SlotsPoint'
  <2>1. CASE e = Nil /\ UNCHANGED <<position, positions>>
    BY <1>4, <2>1
  <2>2. ASSUME NEW p \in Positions, e # Nil,
               position' = [position EXCEPT ![s] = p],
               positions' = [positions EXCEPT ![<<e, p>>] = s]
        PROVE  /\ position' \in [SessionIds -> 0 .. MaxPos]
               /\ positions' \in [Seats \X Positions -> SessionIds \cup {Nil}]
               /\ SlotsPoint'
    <3>1. position' \in [SessionIds -> 0 .. MaxPos]
      BY <2>2, LogindAssumption DEF Positions
    <3>2. positions' \in [Seats \X Positions -> SessionIds \cup {Nil}]
      BY <2>2
    <3>3. ASSUME NEW f \in Seats, NEW q \in Positions, positions'[<<f, q>>] # Nil
          PROVE  /\ positions'[<<f, q>>] \in SessionsOfSeat(f)'
                 /\ position'[positions'[<<f, q>>]] = q
      <4>1. CASE f = e /\ q = p
        BY <1>4, <2>2, <4>1
      <4>2. CASE ~ (f = e /\ q = p)
        <5>1. positions'[<<f, q>>] = positions[<<f, q>>]
          BY <2>2, <4>2
        <5> QED BY <1>1, <1>4, <2>2, <3>3, <5>1
      <4> QED BY <4>1, <4>2
    <3> QED BY <3>1, <3>2, <3>3
  <2> QED BY <1>2, <2>1, <2>2 DEF seat_assign_position
<1>7. /\ uTimer' \in [Uids -> {"off", "armed", "elapsed", "fired"}]
      /\ stamped' \subseteq Uids /\ byPin' \subseteq Uids
      /\ \A w \in Uids : uTimer'[w] # "off" => w \in users'
  BY <1>2 DEF user_update_last_session_timer
<1>8. CASE session_start_ok(s, u, e) /\ user_start_ok(u)
  <2> DEFINE a == VtSession(info', order', fgVT)
             d == user_elect_display(info', order', u, started' \ stopping)
  <2>1. a = Nil \/ (a \in sessions' /\ info'[a].seat = Seat0)
    BY FirstInMember DEF VtSession
  <2>2. started' = started \cup {s} /\ display' = [display EXCEPT ![u] = d]
    BY <1>8 DEF session_start_ok
  <2>3. d = Nil \/ d = display[u] \/ (d \in sessions' /\ info'[d].user = u)
    <3>1. started' \ stopping \in SUBSET SessionIds
      BY <2>2
    <3> QED BY <3>1, ElectedDisplay
  <2>4. active' = IF e = Seat0 THEN [active EXCEPT ![Seat0] = a]
                  ELSE IF e = Nil THEN active ELSE [active EXCEPT ![e] = s]
    BY <1>8 DEF session_start_ok
  <2> HIDE DEF a, d
  <2>5. /\ active' \in [Seats -> SessionIds \cup {Nil}] /\ SeatsPoint'
    BY <1>1, <1>4, <2>1, <2>4, LogindAssumption
  <2>6. console' \in BOOLEAN
    BY <1>8 DEF session_start_ok
  <2>7. SeatTypeOK'
    BY <1>1, <1>6, <2>5, <2>6
  <2>8. display' \in [Uids -> SessionIds \cup {Nil}]
        /\ \A w \in Uids : display'[w] # Nil => display'[w] \in SessionsOfUser(w)'
    BY <1>4, <2>2, <2>3
  <2>9. UserTypeOK' /\ UsersPoint'
    BY <1>1, <1>2, <1>7, <1>8, <2>8 DEF user_start_ok
  <2>10. SessionTypeOK' /\ populated' \subseteq sessions'
    <3>1. populated' \in {populated, populated \cup {s}}
      BY <1>8 DEF session_start_ok
    <3>2. fifo' \in {fifo, [fifo EXCEPT ![s] = "open"]}
      BY <1>8 DEF session_start_ok
    <3>3. populated' \subseteq sessions' /\ populated' \subseteq SessionIds
      BY <1>4, <3>1
    <3>4. fifo' \in [SessionIds -> {"none", "open", "eof"}]
      BY <3>2
    <3> QED BY <1>1, <1>2, <1>4, <1>6, <2>2, <3>3, <3>4
  <2>11. SourcesPoint' /\ QueuesPoint' /\ WalkTypeOK' /\ WalksValid'
    BY <1>1, <1>2, <1>4, <1>8, <2>2 DEF session_start_ok
  <2> QED BY <1>5, <1>6, <2>5, <2>7, <2>9, <2>10, <2>11
<1>9. CASE /\ create_session_failed(s, u, e)
           /\ user_start_ok(u) \/ user_start_failed(u)
           /\ populated' \in {populated, populated \cup {s}}
  <2>1. /\ active' \in [Seats -> SessionIds \cup {Nil}] /\ SeatsPoint'
    BY <1>1, <1>4, <1>9, LogindAssumption DEF create_session_failed
  <2>2. SeatTypeOK'
    BY <1>1, <1>6, <1>9, <2>1 DEF create_session_failed
  <2>3. UserTypeOK' /\ UsersPoint'
    BY <1>1, <1>2, <1>4, <1>7, <1>9
       DEF create_session_failed, user_start_ok, user_start_failed
  <2>4. SessionTypeOK' /\ populated' \subseteq sessions'
    BY <1>1, <1>2, <1>4, <1>6, <1>9 DEF create_session_failed
  <2>5. SourcesPoint' /\ QueuesPoint' /\ WalkTypeOK' /\ WalksValid'
    BY <1>1, <1>2, <1>4, <1>9 DEF create_session_failed
  <2> QED BY <1>5, <1>6, <2>1, <2>2, <2>3, <2>4, <2>5
<1> QED BY <1>8, <1>9 DEF CreateSession

HIDE DEF sessVars, procVars, seatVars, vtVars, userVars, gcVars, walkVars
HIDE DEF IInv, TypeOK, SessionTypeOK, SeatTypeOK, UserTypeOK, WalkTypeOK,
         PointersValid, SessionsPoint, SeatsPoint, SlotsPoint, UsersPoint,
         SourcesPoint, QueuesPoint, WalksValid, SessionsOfSeat, SessionsOfUser,
         sessions, PCs

\* The daemon starts with seat0 alone.
LEMMA InitIInv == Init => IInv
<1> SUFFICES ASSUME Init PROVE IInv
  OBVIOUS
<1>1. SessionTypeOK /\ UserTypeOK /\ WalkTypeOK
  BY LogindAssumption DEF Init, SessionTypeOK, UserTypeOK, WalkTypeOK, PCs
<1>2. SeatTypeOK
  <2>1. fgVT \in VTs
    BY LogindAssumption DEF Init, VTs
  <2>2. console \in BOOLEAN
    BY DEF Init
  <2> QED BY <2>1, <2>2, LogindAssumption DEF Init, SeatTypeOK
<1>3. sessions = {}
  BY DEF Init, sessions
<1>4. PointersValid
  BY <1>3 DEF Init, PointersValid, SessionsPoint, SeatsPoint, SlotsPoint, UsersPoint,
     SourcesPoint, QueuesPoint
<1>5. WalksValid /\ populated \subseteq sessions
  BY DEF Init, WalksValid
<1> QED BY <1>1, <1>2, <1>4, <1>5 DEF IInv, TypeOK

\* Every step keeps the invariant.
LEMMA NextIInv == IInv /\ [Next]_vars => IInv'
<1> SUFFICES ASSUME IInv, [Next]_vars PROVE IInv'
  OBVIOUS
<1>1. CASE SessionHandler
  <2>1. ASSUME NEW s \in SessionIds, NEW u \in Uids, NEW c \in Classes,
               NEW t \in Types, NEW e \in Seats \cup {Nil}, NEW v \in 0 .. MaxVT,
               CreateSession(s, u, c, t, e, v)
        PROVE  IInv'
    BY <2>1, CreateSessionKeeps
  <2>2. ASSUME NEW s \in SessionIds,
               \/ ReleaseTimeout(s) \/ LeaderExit(s) \/ FifoEof(s)
               \/ TerminateSession(s) \/ StopOnIdle(s)
        PROVE  IInv'
    BY <2>2, StopHandlerKeeps
       DEF ReleaseTimeout, LeaderExit, FifoEof, TerminateSession, StopOnIdle
  <2>3. ASSUME NEW s \in SessionIds,
               ReleaseSession(s) \/ CgroupEvent(s) \/ Activate(s)
        PROVE  IInv'
    BY <2>3, ReleaseSessionKeeps, CgroupEventKeeps, ActivateKeeps
  <2>4. ASSUME NEW s \in SessionIds, Retypes(s)
        PROVE  IInv'
    BY <2>4, RetypesKeeps
  <2> QED BY <1>1, <2>1, <2>2, <2>3, <2>4 DEF SessionHandler, Retypes
<1>2. CASE SeatOrUserHandler
  <2>1. ASSUME NEW e \in Seats,
               \/ TerminateSeat(e) \/ CompleteSwitch(e)
               \/ SeatDeviceAdded(e) \/ SeatDeviceRemoved(e)
        PROVE  IInv'
    BY <2>1, TerminateSeatKeeps, CompleteSwitchKeeps, SeatDeviceAddedKeeps,
       SeatDeviceRemovedKeeps
  <2>2. ASSUME NEW e \in Seats,
               \/ \E n \in Positions : SwitchTo(e, n)
               \/ SwitchToNext(e) \/ SwitchToPrevious(e)
        PROVE  IInv'
    BY <2>2, SwitchToKeeps DEF SwitchToNext, SwitchToPrevious, Occupied
  <2>3. ASSUME NEW u \in Uids,
               \/ TerminateUser(u) \/ UserStopTimeout(u)
               \/ EnableLinger(u) \/ DisableLinger(u)
        PROVE  IInv'
    BY <2>3, TerminateUserKeeps, UserStopTimeoutKeeps, EnableLingerKeeps,
       DisableLingerKeeps
  <2> QED BY <1>2, <2>1, <2>2, <2>3, ConsoleEventKeeps DEF SeatOrUserHandler
<1>3. CASE Collect
  BY <1>3, StopNextKeeps, UserStoppedKeeps, SeatStoppedKeeps, FreeNextKeeps,
     SeatFreedKeeps, UserFreedKeeps, GcSeatKeeps, GcSessionKeeps,
     GcUserKeeps, GcSessionFinishKeeps, GcUserFinishKeeps, GcDoneKeeps DEF Collect
<1>4. CASE Environment
  BY <1>4, LeaderDiesKeeps, FifoWriterGoneKeeps, CgroupChangesKeeps, VtSwitchKeeps,
     StopDelayElapsesKeeps DEF Environment
<1>5. CASE UNCHANGED vars
  BY <1>5 DEF vars, sessVars, procVars, seatVars, vtVars, userVars, gcVars, walkVars,
     IInv, TypeOK, SessionTypeOK, SeatTypeOK, UserTypeOK, WalkTypeOK, PointersValid,
     SessionsPoint, SeatsPoint, SlotsPoint, UsersPoint, SourcesPoint, QueuesPoint,
     WalksValid, SessionsOfSeat, SessionsOfUser, sessions
<1> QED BY <1>1, <1>2, <1>3, <1>4, <1>5 DEF Next

\* Every reachable state is well typed: the positions, VTs and program counters that the
\* handlers of logind-seat.c compute stay in their ranges.
THEOREM TypeCorrect == Spec => []TypeOK
<1>1. IInv => TypeOK
  BY DEF IInv
<1> QED BY <1>1, InitIInv, NextIInv, PTL DEF Spec

\* In every order in which sessions, seats and users are created, stopped, collected and
\* freed (session_free(), seat_free(), user_free()), no pointer, slot, list, queue or event
\* source is left that names an object which was freed.
THEOREM NoDanglingPointer == Spec => []PointersValid
<1>1. IInv => PointersValid
  BY DEF IInv
<1> QED BY <1>1, InitIInv, NextIInv, PTL DEF Spec

=============================================================================
