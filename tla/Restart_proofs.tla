-------------------------- MODULE Restart_proofs ----------------------------
(***************************************************************************)
(* Proofs that what the daemon promised is on disk when it may die, and is *)
(* taken up when it starts again, for any sessions, users, clients and     *)
(* locks, and any number of crashes.                                       *)
(***************************************************************************)
EXTENDS Restart, TLAPS

-----------------------------------------------------------------------------
(***************************************************************************)
(* The invariant                                                           *)
(***************************************************************************)
\* What holds of session s in a world in which the daemon may die, when al are the
\* leaders that live, ak the sessions that somebody asked to end and b the clients on
\* the bus.  The file has a user with a file, its session was not announced as removed,
\* and it says what its client was told.
FileOK(w, s, al, ak, b) ==
    LET f == w.sessionFile[s]
    IN  /\ f # Nil => w.userFile[f.user] # Nil /\ w.told[s] # "removed"
        /\ s \in al /\ w.told[s] = "created" =>
             /\ f # Nil
             /\ f.fifo \/ f.closing
             /\ s \notin ak /\ w.fifo[s] = "held" => f.fifo /\ ~ f.closing
        /\ w.control[s] \in Clients =>
             /\ w.control[s] \in b
             /\ f # Nil
             /\ f.closing \/ f.controller = w.control[s]

LockOK(w, l) == w.lockFifo[l] = "held" => w.lockFile[l]

Good(w, al, ak, b) ==
    /\ w \in World
    /\ \A s \in Sessions : FileOK(w, s, al, ak, b)
    /\ \A l \in Locks : LockOK(w, l)

\* A session that was started, or was closing when it was loaded, and its file.
SessionKnown(s) ==
    LET r == session[s]
        f == world.sessionFile[s]
    IN  /\ f # Nil
        /\ f.user = r.user
        /\ user[r.user] # Nil
        /\ r.timer => s \in asked
        /\ r.stopping => f.closing
        /\ ~ r.started => r.stopping
        /\ r.started /\ r.stopping => ~ r.fifo
        /\ r.started => /\ f.fifo = r.fifo /\ f.controller = r.controller
                        /\ f.closing => session_closing(r)
                        /\ world.runtimeDir[r.user]
                        /\ world.control[s] \in Clients => r.controller = world.control[s]

\* A session in manager_startup() and its file.
SessionLoaded(s) ==
    LET r == session[s]
        f == world.sessionFile[s]
    IN  /\ f # Nil
        /\ f.user = r.user /\ f.fifo = r.fifo
        /\ user[r.user] # Nil
        /\ ~ r.timer
        /\ r.stopping = f.closing
        /\ ~ r.started => r.controller = load_controller(f.controller)
        /\ r.started => /\ ~ r.stopping /\ f.controller = r.controller
                        /\ user[r.user].started

\* What is in memory, depending on where the daemon is.
MemoryOK ==
    /\ pc = "down" =>
         /\ \A s \in Sessions : session[s] = Nil
         /\ \A u \in Users : user[u] = Nil
         /\ lock = {}
    /\ pc = "starting" =>
         /\ \A s \in Sessions : IF session[s] = Nil THEN world.sessionFile[s] = Nil
                                ELSE SessionLoaded(s)
         /\ \A u \in Users : /\ user[u] = Nil => world.userFile[u] = Nil
                             /\ user[u] # Nil /\ user[u].started =>
                                  /\ ~ user[u].stopping
                                  /\ world.userFile[u] # Nil /\ world.runtimeDir[u]
         /\ \A l \in lock : world.lockFile[l]
    /\ pc \in {"event", "user_stop"} =>
         /\ \A s \in Sessions : session[s] = Nil => world.sessionFile[s] = Nil
         /\ \A u \in Users : IF user[u] = Nil THEN world.userFile[u] = Nil
                             ELSE /\ user[u].started
                                  /\ world.userFile[u] # Nil /\ world.runtimeDir[u]
         /\ \A l \in Locks : world.lockFile[l] = (l \in lock)
    /\ pc \in {"event", "user_stop", "exiting"} =>
         \A s \in Sessions : session[s] # Nil => SessionKnown(s)

\* The garbage queues name what is there, and are empty but in manager_gc(); user_stop()
\* is called for a user whose sessions were asked to end.
QueuesOK ==
    /\ \A s \in sessGc : session[s] # Nil
    /\ \A u \in userGc : user[u] # Nil
    /\ pc # "event" => sessGc = {} /\ userGc = {}
    /\ pc = "user_stop" => /\ cur \in Users /\ user[cur] # Nil
                           /\ sessionsOf(cur) \subseteq asked

IInv == TypeOK /\ Good(world, Owed, asked, bus) /\ MemoryOK /\ QueuesOK

-----------------------------------------------------------------------------
(***************************************************************************)
(* Changes to the world                                                    *)
(***************************************************************************)
\* Two worlds differ in the tables K only.
Only(x, w, K) ==
    \A j \in {"sessionFile", "userFile", "lockFile", "fifo", "lockFifo", "runtimeDir",
              "muted", "told", "control"} \ K : x[j] = w[j]

\* Every world of a trace is good.
TraceOK(t, al, ak, b) ==
    /\ \A w \in t.past : Good(w, al, ak, b)
    /\ Good(t.now, al, ak, b)

\* A change of an entry of sessionFile changes nothing else.
LEMMA SetSessionFile ==
    ASSUME NEW w \in World, NEW s \in Sessions, NEW v \in SessionFile \cup {Nil}
    PROVE  LET x == [w EXCEPT !.sessionFile[s] = v]
           IN  /\ x \in World /\ Only(x, w, {"sessionFile"})
               /\ x.sessionFile = [w.sessionFile EXCEPT ![s] = v]
BY DEF World, Only

\* A change of an entry of userFile changes nothing else.
LEMMA SetUserFile ==
    ASSUME NEW w \in World, NEW u \in Users, NEW v \in UserFile \cup {Nil}
    PROVE  LET x == [w EXCEPT !.userFile[u] = v]
           IN  /\ x \in World /\ Only(x, w, {"userFile"})
               /\ x.userFile = [w.userFile EXCEPT ![u] = v]
BY DEF World, Only

\* A change of an entry of fifo changes nothing else.
LEMMA SetFifo ==
    ASSUME NEW w \in World, NEW s \in Sessions, NEW v \in Fifo
    PROVE  LET x == [w EXCEPT !.fifo[s] = v]
           IN  /\ x \in World /\ Only(x, w, {"fifo"})
               /\ x.fifo = [w.fifo EXCEPT ![s] = v]
BY DEF World, Only

\* A change of an entry of runtimeDir changes nothing else.
LEMMA SetRuntimeDir ==
    ASSUME NEW w \in World, NEW u \in Users, NEW v \in BOOLEAN
    PROVE  LET x == [w EXCEPT !.runtimeDir[u] = v]
           IN  /\ x \in World /\ Only(x, w, {"runtimeDir"})
               /\ x.runtimeDir = [w.runtimeDir EXCEPT ![u] = v]
BY DEF World, Only

\* The entries of a good world have their types.
LEMMA GoodTyped ==
    ASSUME NEW al, NEW ak, NEW b, NEW w, Good(w, al, ak, b)
    PROVE  /\ w \in World
           /\ w.sessionFile \in [Sessions -> SessionFile \cup {Nil}]
           /\ w.userFile \in [Users -> UserFile \cup {Nil}]
           /\ w.lockFile \in [Locks -> BOOLEAN]
           /\ w.fifo \in [Sessions -> Fifo]
           /\ w.lockFifo \in [Locks -> Fifo]
           /\ w.runtimeDir \in [Users -> BOOLEAN]
           /\ w.muted \in [Sessions -> BOOLEAN]
           /\ w.told \in [Sessions -> {"nothing", "created", "removed"}]
           /\ w.control \in [Sessions -> Clients \cup {Nil, "forgotten"}]
BY DEF Good, World

\* What is good about a session stays so as long as its file does and, if it has one,
\* that of its user, and no more is promised to its clients.
LEMMA FileKept ==
    ASSUME NEW al, NEW ak, NEW b, NEW w, NEW x, NEW s \in Sessions,
           FileOK(w, s, al, ak, b),
           x.sessionFile[s] = w.sessionFile[s], x.told[s] = w.told[s],
           x.fifo[s] = "held" => w.fifo[s] = "held",
           x.control[s] \in {w.control[s], Nil, "forgotten"},
           x.sessionFile[s] # Nil /\ w.userFile[x.sessionFile[s].user] # Nil
             => x.userFile[x.sessionFile[s].user] # Nil
    PROVE  FileOK(x, s, al, ak, b)
BY RestartAssumption DEF FileOK

\* What session_save() writes.
FileOf(r) == [user |-> r.user, closing |-> session_closing(r), fifo |-> r.fifo,
              controller |-> r.controller]

\* A session may be written when its user is, and the file says what its client knows.
Saveable(w, s, r, al, ak, b) ==
    /\ w.userFile[r.user] # Nil /\ w.told[s] # "removed"
    /\ s \in al /\ w.told[s] = "created" =>
         /\ r.fifo \/ session_closing(r)
         /\ s \notin ak /\ w.fifo[s] = "held" => r.fifo /\ ~ session_closing(r)
    /\ w.control[s] \in Clients => session_closing(r) \/ r.controller = w.control[s]

\* session_save() writes a session that is started.
LEMMA SessionSaved ==
    ASSUME NEW al, NEW ak, NEW b, NEW t, TraceOK(t, al, ak, b), NEW s \in Sessions,
           NEW r \in Session, r.started => Saveable(t.now, s, r, al, ak, b)
    PROVE  LET e == session_save(t, s, r)
           IN  /\ TraceOK(e, al, ak, b) /\ Only(e.now, t.now, {"sessionFile"})
               /\ e.now.sessionFile =
                    IF r.started THEN [t.now.sessionFile EXCEPT ![s] = FileOf(r)]
                    ELSE t.now.sessionFile
<1>1. CASE ~ r.started
  BY <1>1 DEF session_save, Only
<1>2. CASE r.started
  <2> DEFINE x == [t.now EXCEPT !.sessionFile[s] = FileOf(r)]
  <2>1. Good(t.now, al, ak, b) /\ t.now \in World
    BY DEF TraceOK, Good
  <2>2. FileOf(r) \in SessionFile /\ FileOf(r) # Nil
    BY RestartAssumption DEF FileOf, SessionFile, Session, session_closing
  <2>3. /\ x \in World /\ Only(x, t.now, {"sessionFile"})
        /\ x.sessionFile = [t.now.sessionFile EXCEPT ![s] = FileOf(r)]
    BY <2>1, <2>2, SetSessionFile
  <2>4. session_save(t, s, r) = Change(t, x)
    BY <1>2 DEF session_save, FileOf
  <2> HIDE DEF x
  <2>5. /\ x.userFile = t.now.userFile /\ x.told = t.now.told /\ x.fifo = t.now.fifo
        /\ x.control = t.now.control /\ x.lockFile = t.now.lockFile
        /\ x.lockFifo = t.now.lockFifo
    BY <2>3 DEF Only
  <2>6. FileOK(x, s, al, ak, b)
    <3>1. x.sessionFile[s] = FileOf(r)
      BY <2>1, <2>3, GoodTyped
    <3>2. /\ FileOf(r).user = r.user /\ FileOf(r).closing = session_closing(r)
          /\ FileOf(r).fifo = r.fifo /\ FileOf(r).controller = r.controller
      BY DEF FileOf
    <3>3. t.now.control[s] \in Clients => t.now.control[s] \in b
      BY <2>1 DEF Good, FileOK
    <3> HIDE DEF FileOf
    <3> QED BY <1>2, <2>2, <2>5, <3>1, <3>2, <3>3 DEF FileOK, Saveable
  <2>7. \A y \in Sessions : FileOK(x, y, al, ak, b)
    <3>1. \A y \in Sessions \ {s} : x.sessionFile[y] = t.now.sessionFile[y]
      BY <2>1, <2>3, GoodTyped
    <3>2. \A y \in Sessions \ {s} : FileOK(t.now, y, al, ak, b)
      BY <2>1 DEF Good
    <3>3. \A y \in Sessions \ {s} : FileOK(x, y, al, ak, b)
      BY <2>5, <3>1, <3>2, FileKept
    <3> QED BY <2>6, <3>3
  <2>8. Good(x, al, ak, b)
    BY <2>1, <2>3, <2>5, <2>7 DEF Good, LockOK
  <2>9. TraceOK(Change(t, x), al, ak, b) /\ Change(t, x).now = x
    BY <2>8 DEF TraceOK, Change
  <2> QED BY <1>2, <2>3, <2>4, <2>9
<1> QED BY <1>1, <1>2

\* user_save_internal() writes a user.
LEMMA UserWritten ==
    ASSUME NEW al, NEW ak, NEW b, NEW t, TraceOK(t, al, ak, b), NEW u \in Users,
           NEW r \in User
    PROVE  LET e == user_save_internal(t, u, r)
           IN  /\ TraceOK(e, al, ak, b) /\ Only(e.now, t.now, {"userFile"})
               /\ \A x \in Users : (e.now.userFile[x] # Nil) =
                                     (x = u \/ t.now.userFile[x] # Nil)
<1> DEFINE v == [stopping |-> r.stopping]
           x == [t.now EXCEPT !.userFile[u] = v]
<1>1. Good(t.now, al, ak, b) /\ t.now \in World
  BY DEF TraceOK, Good
<1>2. v \in UserFile /\ v # Nil
  BY RestartAssumption DEF User, UserFile
<1>3. /\ x \in World /\ Only(x, t.now, {"userFile"})
      /\ x.userFile = [t.now.userFile EXCEPT ![u] = v]
  BY <1>1, <1>2, SetUserFile
<1>4. user_save_internal(t, u, r) = Change(t, x)
  BY DEF user_save_internal
<1> HIDE DEF x, v
<1>5. /\ x.sessionFile = t.now.sessionFile /\ x.told = t.now.told /\ x.fifo = t.now.fifo
      /\ x.control = t.now.control /\ x.lockFile = t.now.lockFile
      /\ x.lockFifo = t.now.lockFifo
  BY <1>3 DEF Only
<1>6. \A y \in Users : (x.userFile[y] # Nil) = (y = u \/ t.now.userFile[y] # Nil)
  BY <1>1, <1>2, <1>3, GoodTyped
<1>7. \A s \in Sessions : x.sessionFile[s] # Nil => x.sessionFile[s].user \in Users
  BY <1>3 DEF World, SessionFile
<1>8. \A s \in Sessions : FileOK(x, s, al, ak, b)
  <2>1. \A s \in Sessions : FileOK(t.now, s, al, ak, b)
    BY <1>1 DEF Good
  <2> QED BY <1>5, <1>6, <1>7, <2>1, FileKept
<1>9. Good(x, al, ak, b)
  BY <1>1, <1>3, <1>5, <1>8 DEF Good, LockOK
<1>10. TraceOK(Change(t, x), al, ak, b) /\ Change(t, x).now = x
  BY <1>9 DEF TraceOK, Change
<1> QED BY <1>3, <1>4, <1>6, <1>10

\* user_save() writes a user that is started.
LEMMA UserSaved ==
    ASSUME NEW al, NEW ak, NEW b, NEW t, TraceOK(t, al, ak, b), NEW u \in Users,
           NEW r \in User
    PROVE  LET e == user_save(t, u, r)
           IN  /\ TraceOK(e, al, ak, b) /\ Only(e.now, t.now, {"userFile"})
               /\ \A x \in Users : (e.now.userFile[x] # Nil) =
                                     ((x = u /\ r.started) \/ t.now.userFile[x] # Nil)
<1>1. CASE r.started
  BY <1>1, UserWritten DEF user_save
<1>2. CASE ~ r.started
  BY <1>2 DEF user_save, Only
<1> QED BY <1>1, <1>2

\* A change that leaves files, FIFOs and promises alone keeps a trace good.
LEMMA Unpromised ==
    ASSUME NEW al, NEW ak, NEW b, NEW t, TraceOK(t, al, ak, b), NEW x \in World,
           Only(x, t.now, {"runtimeDir", "muted"})
    PROVE  TraceOK(Change(t, x), al, ak, b) /\ Change(t, x).now = x
<1>1. Good(t.now, al, ak, b)
  BY DEF TraceOK
<1>2. /\ x.sessionFile = t.now.sessionFile /\ x.told = t.now.told /\ x.fifo = t.now.fifo
      /\ x.control = t.now.control /\ x.lockFile = t.now.lockFile
      /\ x.lockFifo = t.now.lockFifo /\ x.userFile = t.now.userFile
  BY DEF Only
<1>3. \A s \in Sessions : FileOK(x, s, al, ak, b)
  BY <1>1, <1>2 DEF Good, FileOK
<1>4. Good(x, al, ak, b)
  BY <1>1, <1>2, <1>3 DEF Good, LockOK
<1> QED BY <1>4 DEF TraceOK, Change

\* The user that user_start() was called for is written, and has a runtime directory
\* unless it was running already.
LEMMA UserStarted ==
    ASSUME NEW al, NEW ak, NEW b, NEW t, TraceOK(t, al, ak, b), NEW u \in Users,
           NEW r \in User \cup {Nil}
    PROVE  LET e == user_start(t, u, r)
           IN  /\ TraceOK(e, al, ak, b) /\ Only(e.now, t.now, {"userFile", "runtimeDir"})
               /\ \A x \in Users : (e.now.userFile[x] # Nil) =
                                     (x = u \/ t.now.userFile[x] # Nil)
               /\ \A x \in Users : x # u \/ (r # Nil /\ r.started /\ ~ r.stopping) =>
                                     e.now.runtimeDir[x] = t.now.runtimeDir[x]
               /\ r = Nil \/ ~ r.started \/ r.stopping => e.now.runtimeDir[u]
<1>1. CASE ~ (r = Nil \/ ~ r.started \/ r.stopping)
  <2>1. user_start(t, u, r) = user_save(t, u, r) /\ r \in User /\ r.started
    BY <1>1 DEF user_start
  <2> DEFINE e == user_save(t, u, r)
  <2>2. /\ TraceOK(e, al, ak, b) /\ Only(e.now, t.now, {"userFile"})
        /\ \A x \in Users : (e.now.userFile[x] # Nil) = (x = u \/ t.now.userFile[x] # Nil)
    BY <2>1, UserSaved
  <2> HIDE DEF e
  <2>3. e.now.runtimeDir = t.now.runtimeDir /\ Only(e.now, t.now, {"userFile", "runtimeDir"})
    BY <2>2 DEF Only
  <2> QED BY <1>1, <2>1, <2>2, <2>3 DEF e
<1>2. CASE r = Nil \/ ~ r.started \/ r.stopping
  <2> DEFINE c == user_save_internal(t, u, Running)
             x == [c.now EXCEPT !.runtimeDir[u] = TRUE]
             m == Change(c, x)
             e == user_save(m, u, Running)
  <2>0. Running \in User /\ Running.started
    BY DEF Running, User
  <2>1. user_start(t, u, r) = e
    BY <1>2 DEF user_start
  <2>2. /\ TraceOK(c, al, ak, b) /\ Only(c.now, t.now, {"userFile"})
        /\ \A y \in Users : (c.now.userFile[y] # Nil) = (y = u \/ t.now.userFile[y] # Nil)
    BY <2>0, UserWritten
  <2> HIDE DEF c
  <2>3. c.now \in World /\ c.now.runtimeDir = t.now.runtimeDir
        /\ t.now.runtimeDir \in [Users -> BOOLEAN]
    BY <2>2, GoodTyped DEF TraceOK, Only
  <2>4. /\ x \in World /\ Only(x, c.now, {"runtimeDir"})
        /\ x.runtimeDir = [c.now.runtimeDir EXCEPT ![u] = TRUE]
    BY <2>3, SetRuntimeDir
  <2> HIDE DEF x
  <2>5. Only(x, c.now, {"runtimeDir", "muted"}) /\ x.userFile = c.now.userFile
    BY <2>4 DEF Only
  <2>6. TraceOK(m, al, ak, b) /\ m.now = x
    BY <2>2, <2>4, <2>5, Unpromised
  <2> HIDE DEF m
  <2>7. /\ TraceOK(e, al, ak, b) /\ Only(e.now, m.now, {"userFile"})
        /\ \A y \in Users : (e.now.userFile[y] # Nil) = (y = u \/ m.now.userFile[y] # Nil)
    <3>1. e = user_save_internal(m, u, Running)
      BY <2>0 DEF user_save
    <3> QED BY <2>0, <2>6, <3>1, UserWritten
  <2> HIDE DEF e
  <2>8. /\ Only(e.now, t.now, {"userFile", "runtimeDir"})
        /\ e.now.runtimeDir = x.runtimeDir
    BY <2>2, <2>4, <2>6, <2>7 DEF Only
  <2>9. \A y \in Users : (e.now.userFile[y] # Nil) = (y = u \/ t.now.userFile[y] # Nil)
    BY <2>2, <2>5, <2>6, <2>7
  <2>10. /\ \A y \in Users : y # u => e.now.runtimeDir[y] = t.now.runtimeDir[y]
         /\ e.now.runtimeDir[u]
    BY <2>3, <2>4, <2>8
  <2> QED BY <1>2, <2>1, <2>7, <2>8, <2>9, <2>10
<1> QED BY <1>1, <1>2

\* A FIFO may change, but for one that is given to somebody.
LEMMA FifoChanged ==
    ASSUME NEW al, NEW ak, NEW b, NEW t, TraceOK(t, al, ak, b), NEW x \in World,
           Only(x, t.now, {"fifo"}),
           \A y \in Sessions : x.fifo[y] = "held" => t.now.fifo[y] = "held"
    PROVE  TraceOK(Change(t, x), al, ak, b) /\ Change(t, x).now = x
<1>1. Good(t.now, al, ak, b)
  BY DEF TraceOK
<1>3. /\ x.sessionFile = t.now.sessionFile /\ x.told = t.now.told
      /\ x.control = t.now.control /\ x.lockFile = t.now.lockFile
      /\ x.lockFifo = t.now.lockFifo /\ x.userFile = t.now.userFile
  BY DEF Only
<1>5. \A y \in Sessions : FileOK(t.now, y, al, ak, b)
  BY <1>1 DEF Good
<1>6. \A y \in Sessions : FileOK(x, y, al, ak, b)
  BY <1>3, <1>5, FileKept
<1>7. Good(x, al, ak, b)
  BY <1>1, <1>3, <1>6 DEF Good, LockOK
<1> QED BY <1>7 DEF TraceOK, Change

\* session_create_fifo() makes a FIFO that nobody has.
LEMMA FifoCreated ==
    ASSUME NEW al, NEW ak, NEW b, NEW t, TraceOK(t, al, ak, b), NEW s \in Sessions
    PROVE  LET e == session_create_fifo(t, s)
           IN  /\ TraceOK(e, al, ak, b) /\ Only(e.now, t.now, {"fifo"})
               /\ \A y \in Sessions : y # s => e.now.fifo[y] = t.now.fifo[y]
               /\ e.now.fifo[s] = "held" => t.now.fifo[s] = "held"
<1> DEFINE x == [t.now EXCEPT !.fifo[s] = "idle"]
<1>1. t.now \in World /\ t.now.fifo \in [Sessions -> Fifo]
  BY GoodTyped DEF TraceOK
<1>2. /\ x \in World /\ Only(x, t.now, {"fifo"}) /\ x.fifo = [t.now.fifo EXCEPT ![s] = "idle"]
  BY <1>1 DEF World, Only, Fifo
<1>3. CASE t.now.fifo[s] = "none"
  <2>1. session_create_fifo(t, s) = Change(t, x)
    BY <1>3 DEF session_create_fifo
  <2> HIDE DEF x
  <2>2. TraceOK(Change(t, x), al, ak, b) /\ Change(t, x).now = x
    BY <1>1, <1>2, FifoChanged
  <2> QED BY <1>1, <1>2, <2>1, <2>2
<1>4. CASE t.now.fifo[s] # "none"
  BY <1>4 DEF session_create_fifo, Only
<1> QED BY <1>3, <1>4

\* session_remove_fifo() removes a FIFO.
LEMMA FifoRemoved ==
    ASSUME NEW al, NEW ak, NEW b, NEW t, TraceOK(t, al, ak, b), NEW s \in Sessions, NEW r
    PROVE  LET e == session_remove_fifo(t, s, r)
           IN  /\ TraceOK(e, al, ak, b) /\ Only(e.now, t.now, {"fifo"})
               /\ \A y \in Sessions : y # s => e.now.fifo[y] = t.now.fifo[y]
               /\ e.now.fifo[s] = "held" => t.now.fifo[s] = "held"
<1> DEFINE x == [t.now EXCEPT !.fifo[s] = "none"]
<1>1. t.now \in World /\ t.now.fifo \in [Sessions -> Fifo]
  BY GoodTyped DEF TraceOK
<1>2. /\ x \in World /\ Only(x, t.now, {"fifo"}) /\ x.fifo = [t.now.fifo EXCEPT ![s] = "none"]
  BY <1>1 DEF World, Only, Fifo
<1>3. CASE r.fifo
  <2>1. session_remove_fifo(t, s, r) = Change(t, x)
    BY <1>3 DEF session_remove_fifo
  <2> HIDE DEF x
  <2>2. TraceOK(Change(t, x), al, ak, b) /\ Change(t, x).now = x
    BY <1>1, <1>2, FifoChanged
  <2> QED BY <1>1, <1>2, <2>1, <2>2
<1>4. CASE ~ r.fifo
  BY <1>4 DEF session_remove_fifo, Only
<1> QED BY <1>3, <1>4

\* The answer of CreateSession() is good once the file says so.
LEMMA Replied ==
    ASSUME NEW al, NEW ak, NEW b, NEW t, TraceOK(t, al, ak, b), NEW s \in Sessions,
           t.now.sessionFile[s] # Nil, t.now.sessionFile[s].fifo,
           ~ t.now.sessionFile[s].closing, t.now.told[s] # "removed"
    PROVE  LET e == CreateReply(t, s)
           IN  /\ TraceOK(e, al, ak, b) /\ Only(e.now, t.now, {"fifo", "told"})
               /\ e.now.told = [t.now.told EXCEPT ![s] = "created"]
               /\ \A y \in Sessions : y # s => e.now.fifo[y] = t.now.fifo[y]
<1> DEFINE x == [t.now EXCEPT !.fifo[s] = "held"]
           h == Change(t, x)
           z == [h.now EXCEPT !.told[s] = "created"]
<1>1. Good(t.now, al, ak, b) /\ t.now \in World /\ "held" \in Fifo
  BY DEF TraceOK, Good, Fifo
<1>2. /\ x \in World /\ Only(x, t.now, {"fifo"})
      /\ x.fifo = [t.now.fifo EXCEPT ![s] = "held"]
  BY <1>1, SetFifo
<1>3. h.now = x
  BY DEF Change
<1> HIDE DEF x, h
<1>4. /\ z \in World /\ Only(z, x, {"told"})
      /\ z.told = [x.told EXCEPT ![s] = "created"]
  BY <1>2, <1>3 DEF World, Only
<1>5. CreateReply(t, s) = Change(h, z)
  BY DEF CreateReply, h, x
<1> HIDE DEF z
<1>6. /\ x.sessionFile = t.now.sessionFile /\ x.told = t.now.told
      /\ x.control = t.now.control /\ x.lockFile = t.now.lockFile
      /\ x.lockFifo = t.now.lockFifo /\ x.userFile = t.now.userFile
  BY <1>2 DEF Only
<1>7. /\ z.sessionFile = x.sessionFile /\ z.fifo = x.fifo
      /\ z.control = x.control /\ z.lockFile = x.lockFile
      /\ z.lockFifo = x.lockFifo /\ z.userFile = x.userFile
  BY <1>4 DEF Only
<1>8. \A y \in Sessions : FileOK(t.now, y, al, ak, b)
  BY <1>1 DEF Good
<1>9. \A y \in Sessions \ {s} : x.fifo[y] = t.now.fifo[y] /\ z.told[y] = x.told[y]
  BY <1>1, <1>2, <1>4, <1>6, GoodTyped
<1>10. z.told[s] = "created"
  BY <1>1, <1>4, <1>6, GoodTyped
<1>11. FileOK(x, s, al, ak, b) /\ FileOK(z, s, al, ak, b)
  BY <1>6, <1>7, <1>8, <1>10 DEF FileOK
<1>12. \A y \in Sessions \ {s} : FileOK(x, y, al, ak, b)
  BY <1>6, <1>8, <1>9, FileKept
<1>13. \A y \in Sessions \ {s} : FileOK(z, y, al, ak, b)
  BY <1>7, <1>9, <1>12, FileKept
<1>14. Good(x, al, ak, b) /\ Good(z, al, ak, b)
  BY <1>1, <1>2, <1>4, <1>6, <1>7, <1>11, <1>12, <1>13 DEF Good, LockOK
<1>15. TraceOK(Change(h, z), al, ak, b) /\ Change(h, z).now = z
  BY <1>14 DEF TraceOK, Change, h
<1>16. Only(z, t.now, {"fifo", "told"})
  BY <1>2, <1>4 DEF Only
<1> QED BY <1>4, <1>5, <1>6, <1>7, <1>9, <1>15, <1>16

\* What session_stop() leaves of the session object is one.
LEMMA StoppedTyped ==
    ASSUME NEW r \in Session
    PROVE  /\ session_stopped(r) \in Session
           /\ session_stopped(r).user = r.user
           /\ session_stopped(r).started = r.started
           /\ session_stopped(r).controller = r.controller
           /\ session_stopped(r).vtfd = r.vtfd
           /\ session_stopped(r).timer => r.timer
           /\ r.started => session_stopped(r).stopping
           /\ r.started /\ ~ r.stopping =>
                ~ session_stopped(r).timer /\ ~ session_stopped(r).fifo
           /\ ~ (r.started /\ ~ r.stopping) => session_stopped(r) = r
BY DEF Session, session_stopped

\* session_stop() writes the session as closing, unless somebody still counts on it.
LEMMA SessionStopped ==
    ASSUME NEW al, NEW ak, NEW b, NEW t, TraceOK(t, al, ak, b), NEW s \in Sessions,
           NEW r \in Session, user[r.user] \in User, user[r.user].started,
           t.now.userFile[r.user] # Nil, t.now.told[s] # "removed",
           \/ s \notin al \/ s \in ak
           \/ t.now.fifo[s] # "held" \/ t.now.told[s] # "created"
    PROVE  LET e == session_stop(t, s, r)
           IN  /\ TraceOK(e, al, ak, b)
               /\ Only(e.now, t.now, {"fifo", "sessionFile", "userFile"})
               /\ e.now.sessionFile = IF r.started /\ ~ r.stopping
                    THEN [t.now.sessionFile EXCEPT ![s] = FileOf(session_stopped(r))]
                    ELSE t.now.sessionFile
               /\ \A x \in Users : (e.now.userFile[x] # Nil) = (t.now.userFile[x] # Nil)
               /\ \A y \in Sessions \ {s} : e.now.fifo[y] = t.now.fifo[y]
<1>1. CASE ~ (r.started /\ ~ r.stopping)
  BY <1>1 DEF session_stop, Only
<1>2. CASE r.started /\ ~ r.stopping
  <2> DEFINE f == session_remove_fifo(t, s, r)
             p == session_stopped(r)
             g == session_save(f, s, p)
             e == user_save(g, r.user, user[r.user])
  <2>1. session_stop(t, s, r) = e
    BY <1>2 DEF session_stop
  <2>2. /\ TraceOK(f, al, ak, b) /\ Only(f.now, t.now, {"fifo"})
        /\ \A y \in Sessions \ {s} : f.now.fifo[y] = t.now.fifo[y]
        /\ f.now.fifo[s] = "held" => t.now.fifo[s] = "held"
    BY FifoRemoved
  <2> HIDE DEF f
  <2>3. /\ f.now.userFile = t.now.userFile /\ f.now.told = t.now.told
        /\ f.now.sessionFile = t.now.sessionFile
    BY <2>2 DEF Only
  <2>4. p \in Session /\ p.user = r.user /\ p.stopping /\ p.started
    BY <1>2, StoppedTyped
  <2> HIDE DEF p
  <2>5. Saveable(f.now, s, p, al, ak, b)
    BY <2>2, <2>3, <2>4 DEF Saveable, session_closing
  <2>6. /\ TraceOK(g, al, ak, b) /\ Only(g.now, f.now, {"sessionFile"})
        /\ g.now.sessionFile = [f.now.sessionFile EXCEPT ![s] = FileOf(p)]
    BY <2>2, <2>4, <2>5, SessionSaved
  <2> HIDE DEF g
  <2>7. g.now.userFile = t.now.userFile /\ g.now.fifo = f.now.fifo
    BY <2>3, <2>6 DEF Only
  <2>8. /\ TraceOK(e, al, ak, b) /\ Only(e.now, g.now, {"userFile"})
        /\ \A x \in Users : (e.now.userFile[x] # Nil) =
                              ((x = r.user /\ user[r.user].started) \/ g.now.userFile[x] # Nil)
    <3>1. r.user \in Users
      BY DEF Session
    <3> QED BY <2>6, <3>1, UserSaved
  <2> HIDE DEF e
  <2>9. \A x \in Users : (e.now.userFile[x] # Nil) = (t.now.userFile[x] # Nil)
    BY <2>7, <2>8
  <2>10. Only(e.now, t.now, {"fifo", "sessionFile", "userFile"})
    BY <2>2, <2>6, <2>8 DEF Only
  <2>11. e.now.fifo = f.now.fifo /\ e.now.sessionFile = g.now.sessionFile
    BY <2>7, <2>8 DEF Only
  <2> QED BY <1>2, <2>1, <2>2, <2>3, <2>6, <2>8, <2>9, <2>10, <2>11 DEF p
<1> QED BY <1>1, <1>2

\* session_restore_vt() changes the VT only.
LEMMA VtRestored ==
    ASSUME NEW al, NEW ak, NEW b, NEW t, TraceOK(t, al, ak, b), NEW s \in Sessions, NEW r
    PROVE  LET e == session_restore_vt(t, s, r)
           IN  TraceOK(e, al, ak, b) /\ Only(e.now, t.now, {"muted"})
<1> DEFINE x == [t.now EXCEPT !.muted[s] = FALSE]
<1>1. t.now \in World
  BY GoodTyped DEF TraceOK
<1>2. x \in World /\ Only(x, t.now, {"muted"}) /\ Only(x, t.now, {"runtimeDir", "muted"})
  BY <1>1 DEF World, Only
<1>3. CASE r.vtfd
  <2>1. session_restore_vt(t, s, r) = Change(t, x)
    BY <1>3 DEF session_restore_vt
  <2> HIDE DEF x
  <2>2. TraceOK(Change(t, x), al, ak, b) /\ Change(t, x).now = x
    BY <1>2, Unpromised
  <2> QED BY <1>2, <2>1, <2>2
<1>4. CASE ~ r.vtfd
  BY <1>4 DEF session_restore_vt, Only
<1> QED BY <1>3, <1>4

\* What control says of a session that no client claims.
Unclaimed(v) == v \in {Nil, "forgotten"}

\* The claim of a controller to its session may end.
LEMMA ControlLost ==
    ASSUME NEW al, NEW ak, NEW b, NEW t, TraceOK(t, al, ak, b), NEW s \in Sessions,
           NEW v, Unclaimed(v)
    PROVE  LET e == Change(t, [t.now EXCEPT !.control[s] = v])
           IN  /\ TraceOK(e, al, ak, b) /\ Only(e.now, t.now, {"control"})
               /\ e.now.control = [t.now.control EXCEPT ![s] = v]
<1> DEFINE x == [t.now EXCEPT !.control[s] = v]
<1>1. Good(t.now, al, ak, b) /\ t.now \in World
  BY DEF TraceOK, Good
<1>2. /\ x \in World /\ Only(x, t.now, {"control"})
      /\ x.control = [t.now.control EXCEPT ![s] = v]
  BY <1>1 DEF World, Only, Unclaimed
<1> HIDE DEF x
<1>3. /\ x.sessionFile = t.now.sessionFile /\ x.told = t.now.told /\ x.fifo = t.now.fifo
      /\ x.lockFile = t.now.lockFile
      /\ x.lockFifo = t.now.lockFifo /\ x.userFile = t.now.userFile
  BY <1>2 DEF Only
<1>4. \A y \in Sessions : x.control[y] \in {t.now.control[y], Nil, "forgotten"}
  BY <1>1, <1>2, GoodTyped DEF Unclaimed
<1>5. \A y \in Sessions : FileOK(t.now, y, al, ak, b)
  BY <1>1 DEF Good
<1>6. \A y \in Sessions : FileOK(x, y, al, ak, b)
  BY <1>3, <1>4, <1>5, FileKept
<1>7. Good(x, al, ak, b)
  BY <1>1, <1>2, <1>3, <1>6 DEF Good, LockOK
<1>8. TraceOK(Change(t, x), al, ak, b) /\ Change(t, x).now = x
  BY <1>7 DEF TraceOK, Change
<1> QED BY <1>2, <1>8 DEF x

\* A session without its controller.
LEMMA DroppedTyped ==
    ASSUME NEW r \in Session
    PROVE  /\ controller_dropped(r) \in Session
           /\ controller_dropped(r).controller = Nil
           /\ controller_dropped(r).user = r.user
           /\ controller_dropped(r).started = r.started
           /\ controller_dropped(r).stopping = r.stopping
           /\ controller_dropped(r).timer = r.timer
           /\ controller_dropped(r).fifo = r.fifo
BY DEF Session, controller_dropped

\* session_drop_controller() writes a session that nobody claims and restores its VT.
LEMMA ControllerDropped ==
    ASSUME NEW al, NEW ak, NEW b, NEW t, TraceOK(t, al, ak, b), NEW s \in Sessions,
           NEW r \in Session, t.now.control[s] \notin Clients,
           t.now.userFile[r.user] # Nil, t.now.told[s] # "removed",
           r.started /\ s \in al /\ t.now.told[s] = "created" =>
             /\ r.fifo \/ session_closing(r)
             /\ s \notin ak /\ t.now.fifo[s] = "held" => r.fifo /\ ~ session_closing(r)
    PROVE  LET e == session_drop_controller(t, s, r)
           IN  /\ TraceOK(e, al, ak, b) /\ Only(e.now, t.now, {"sessionFile", "muted"})
               /\ e.now.sessionFile = IF r.started /\ r.controller # Nil
                    THEN [t.now.sessionFile EXCEPT ![s] = FileOf(controller_dropped(r))]
                    ELSE t.now.sessionFile
<1>1. CASE r.controller = Nil
  BY <1>1 DEF session_drop_controller, Only
<1>2. CASE r.controller # Nil
  <2> DEFINE p == controller_dropped(r)
             g == session_save(t, s, p)
             e == session_restore_vt(g, s, r)
  <2>1. session_drop_controller(t, s, r) = e
    BY <1>2 DEF session_drop_controller
  <2>2. /\ p \in Session /\ p.user = r.user /\ p.started = r.started /\ p.fifo = r.fifo
        /\ session_closing(p) = session_closing(r)
    BY DroppedTyped DEF session_closing
  <2> HIDE DEF p
  <2>3. p.started => Saveable(t.now, s, p, al, ak, b)
    BY <2>2 DEF Saveable
  <2>4. /\ TraceOK(g, al, ak, b) /\ Only(g.now, t.now, {"sessionFile"})
        /\ g.now.sessionFile = IF p.started THEN [t.now.sessionFile EXCEPT ![s] = FileOf(p)]
                               ELSE t.now.sessionFile
    BY <2>2, <2>3, SessionSaved
  <2> HIDE DEF g
  <2>5. TraceOK(e, al, ak, b) /\ Only(e.now, g.now, {"muted"})
    BY <2>4, VtRestored
  <2> HIDE DEF e
  <2>6. e.now.sessionFile = g.now.sessionFile
    BY <2>5 DEF Only
  <2>7. Only(e.now, t.now, {"sessionFile", "muted"})
    BY <2>4, <2>5 DEF Only
  <2> QED BY <1>2, <2>1, <2>2, <2>4, <2>5, <2>6, <2>7 DEF p
<1> QED BY <1>1, <1>2

\* A session that nobody counts on may be removed from disk.
LEMMA SessionUnlinked ==
    ASSUME NEW al, NEW ak, NEW b, NEW t, TraceOK(t, al, ak, b), NEW s \in Sessions,
           s \notin al
    PROVE  LET e == session_unlink(t, s)
           IN  /\ TraceOK(e, al, ak, b) /\ Only(e.now, t.now, {"control", "sessionFile"})
               /\ e.now.sessionFile = [t.now.sessionFile EXCEPT ![s] = Nil]
               /\ e.now.control = [t.now.control EXCEPT ![s] = Nil]
<1> DEFINE f == Change(t, [t.now EXCEPT !.control[s] = Nil])
           x == [f.now EXCEPT !.sessionFile[s] = Nil]
<1>1. session_unlink(t, s) = Change(f, x)
  BY DEF session_unlink
<1>2. /\ TraceOK(f, al, ak, b) /\ Only(f.now, t.now, {"control"})
      /\ f.now.control = [t.now.control EXCEPT ![s] = Nil]
  <2>1. Unclaimed(Nil)
    BY DEF Unclaimed
  <2> QED BY <2>1, ControlLost
<1> HIDE DEF f
<1>3. f.now.sessionFile = t.now.sessionFile
  BY <1>2 DEF Only
<1>4. Good(f.now, al, ak, b) /\ f.now \in World
  BY <1>2 DEF TraceOK, Good
<1>5. /\ x \in World /\ Only(x, f.now, {"sessionFile"})
      /\ x.sessionFile = [f.now.sessionFile EXCEPT ![s] = Nil]
  BY <1>4 DEF World, Only
<1> HIDE DEF x
<1>6. /\ x.control = f.now.control /\ x.told = f.now.told /\ x.fifo = f.now.fifo
      /\ x.lockFile = f.now.lockFile
      /\ x.lockFifo = f.now.lockFifo /\ x.userFile = f.now.userFile
  BY <1>5 DEF Only
<1>7. /\ \A y \in Sessions \ {s} : x.sessionFile[y] = f.now.sessionFile[y]
      /\ x.sessionFile[s] = Nil
  BY <1>4, <1>5, GoodTyped
<1>8. x.control[s] = Nil
  BY <1>2, <1>6, GoodTyped DEF TraceOK
<1>9. FileOK(x, s, al, ak, b)
  BY <1>7, <1>8, RestartAssumption DEF FileOK
<1>10. \A y \in Sessions \ {s} : FileOK(f.now, y, al, ak, b)
  BY <1>4 DEF Good
<1>11. \A y \in Sessions \ {s} : FileOK(x, y, al, ak, b)
  BY <1>6, <1>7, <1>10, FileKept
<1>12. Good(x, al, ak, b)
  BY <1>4, <1>5, <1>6, <1>9, <1>11 DEF Good, LockOK
<1>13. TraceOK(Change(f, x), al, ak, b) /\ Change(f, x).now = x
  BY <1>2, <1>12 DEF TraceOK, Change
<1>14. Only(x, t.now, {"control", "sessionFile"})
  BY <1>2, <1>5 DEF Only
<1> QED BY <1>1, <1>2, <1>3, <1>5, <1>6, <1>13, <1>14

\* SessionRemoved may be sent once the file is gone.
LEMMA RemovedSent ==
    ASSUME NEW al, NEW ak, NEW b, NEW t, TraceOK(t, al, ak, b), NEW s \in Sessions,
           NEW r, t.now.sessionFile[s] = Nil
    PROVE  LET e == session_send_removed(t, s, r)
           IN  /\ TraceOK(e, al, ak, b) /\ Only(e.now, t.now, {"told"})
               /\ \A y \in Sessions : y # s => e.now.told[y] = t.now.told[y]
<1> DEFINE x == [t.now EXCEPT !.told[s] = "removed"]
<1>1. Good(t.now, al, ak, b) /\ t.now \in World
  BY DEF TraceOK, Good
<1>2. /\ x \in World /\ Only(x, t.now, {"told"})
      /\ x.told = [t.now.told EXCEPT ![s] = "removed"]
  BY <1>1 DEF World, Only
<1>3. CASE r.started
  <2>1. session_send_removed(t, s, r) = Change(t, x)
    BY <1>3 DEF session_send_removed
  <2> HIDE DEF x
  <2>2. /\ x.sessionFile = t.now.sessionFile /\ x.fifo = t.now.fifo
        /\ x.control = t.now.control /\ x.lockFile = t.now.lockFile
        /\ x.lockFifo = t.now.lockFifo /\ x.userFile = t.now.userFile
    BY <1>2 DEF Only
  <2>3. x.told[s] = "removed" /\ \A y \in Sessions \ {s} : x.told[y] = t.now.told[y]
    BY <1>1, <1>2, GoodTyped
  <2>4. \A y \in Sessions : FileOK(t.now, y, al, ak, b)
    BY <1>1 DEF Good
  <2>5. FileOK(x, s, al, ak, b)
    BY <2>2, <2>3, <2>4 DEF FileOK
  <2>6. \A y \in Sessions \ {s} : FileOK(x, y, al, ak, b)
    BY <2>2, <2>3, <2>4, FileKept
  <2>7. Good(x, al, ak, b)
    BY <1>1, <1>2, <2>2, <2>5, <2>6 DEF Good, LockOK
  <2>8. TraceOK(Change(t, x), al, ak, b) /\ Change(t, x).now = x
    BY <2>7 DEF TraceOK, Change
  <2> QED BY <1>2, <2>1, <2>3, <2>8
<1>4. CASE ~ r.started
  BY <1>4 DEF session_send_removed, Only
<1> QED BY <1>3, <1>4

\* session_finalize() and session_free() of a session that nobody counts on.
LEMMA SessionFinalized ==
    ASSUME NEW al, NEW ak, NEW b, NEW t, TraceOK(t, al, ak, b), NEW s \in Sessions,
           NEW r \in Session, NEW u \in User, s \notin al
    PROVE  LET e == session_finalize_and_free(t, s, r, u)
           IN  /\ TraceOK(e, al, ak, b)
               /\ Only(e.now, t.now, {"control", "sessionFile", "told", "userFile", "muted"})
               /\ e.now.sessionFile = [t.now.sessionFile EXCEPT ![s] = Nil]
               /\ e.now.control = [t.now.control EXCEPT ![s] = Nil]
               /\ \A y \in Sessions : y # s => e.now.told[y] = t.now.told[y]
               /\ \A x \in Users : (e.now.userFile[x] # Nil) =
                                     ((x = r.user /\ u.started) \/ t.now.userFile[x] # Nil)
<1> DEFINE f == session_unlink(t, s)
           g == session_send_removed(f, s, r)
           h == user_save(g, r.user, u)
           e == FreeFinalized(h, s, r)
<1>1. session_finalize_and_free(t, s, r, u) = e /\ r.user \in Users
  BY DEF session_finalize_and_free, Session
<1>2. /\ TraceOK(f, al, ak, b) /\ Only(f.now, t.now, {"control", "sessionFile"})
      /\ f.now.sessionFile = [t.now.sessionFile EXCEPT ![s] = Nil]
      /\ f.now.control = [t.now.control EXCEPT ![s] = Nil]
  BY SessionUnlinked
<1> HIDE DEF f
<1>3. TraceOK(f, al, ak, b) /\ f.now.sessionFile[s] = Nil
  BY <1>2, GoodTyped DEF TraceOK
<1>4. /\ TraceOK(g, al, ak, b) /\ Only(g.now, f.now, {"told"})
      /\ \A y \in Sessions : y # s => g.now.told[y] = f.now.told[y]
  BY <1>3, RemovedSent
<1> HIDE DEF g
<1>5. /\ TraceOK(h, al, ak, b) /\ Only(h.now, g.now, {"userFile"})
      /\ \A x \in Users : (h.now.userFile[x] # Nil) =
                            ((x = r.user /\ u.started) \/ g.now.userFile[x] # Nil)
  BY <1>1, <1>4, UserSaved
<1> HIDE DEF h
<1>6. TraceOK(e, al, ak, b) /\ Only(e.now, h.now, {"muted"})
  <2>1. CASE r.controller # Nil
    BY <1>5, <2>1, VtRestored DEF FreeFinalized
  <2>2. CASE r.controller = Nil
    BY <1>5, <2>2 DEF FreeFinalized, Only
  <2> QED BY <2>1, <2>2
<1> HIDE DEF e
<1>7. Only(e.now, t.now, {"control", "sessionFile", "told", "userFile", "muted"})
  BY <1>2, <1>4, <1>5, <1>6 DEF Only
<1>8. /\ e.now.sessionFile = f.now.sessionFile /\ e.now.control = f.now.control
      /\ e.now.told = g.now.told /\ f.now.told = t.now.told
      /\ e.now.userFile = h.now.userFile /\ g.now.userFile = t.now.userFile
  BY <1>2, <1>4, <1>5, <1>6 DEF Only
<1> QED BY <1>1, <1>2, <1>4, <1>5, <1>6, <1>7, <1>8

\* user_finalize() and user_free() of a user without a session on disk.
LEMMA UserFinalized ==
    ASSUME NEW al, NEW ak, NEW b, NEW t, TraceOK(t, al, ak, b), NEW u \in Users,
           \A s \in Sessions : t.now.sessionFile[s] # Nil => t.now.sessionFile[s].user # u
    PROVE  LET e == user_finalize_and_free(t, u)
           IN  /\ TraceOK(e, al, ak, b) /\ Only(e.now, t.now, {"userFile", "runtimeDir"})
               /\ e.now.userFile = [t.now.userFile EXCEPT ![u] = Nil]
               /\ e.now.runtimeDir = [t.now.runtimeDir EXCEPT ![u] = FALSE]
<1> DEFINE x == [t.now EXCEPT !.userFile[u] = Nil]
           f == Change(t, x)
           z == [f.now EXCEPT !.runtimeDir[u] = FALSE]
<1>1. user_finalize_and_free(t, u) = Change(f, z)
  BY DEF user_finalize_and_free
<1>2. Good(t.now, al, ak, b) /\ t.now \in World
  BY DEF TraceOK, Good
<1>3. /\ x \in World /\ Only(x, t.now, {"userFile"})
      /\ x.userFile = [t.now.userFile EXCEPT ![u] = Nil]
  BY <1>2 DEF World, Only
<1>4. f.now = x
  BY DEF Change
<1> HIDE DEF x
<1>5. /\ x.sessionFile = t.now.sessionFile /\ x.fifo = t.now.fifo /\ x.told = t.now.told
      /\ x.control = t.now.control /\ x.lockFile = t.now.lockFile
      /\ x.lockFifo = t.now.lockFifo
  BY <1>3 DEF Only
<1>6. \A s \in Sessions : t.now.sessionFile[s] # Nil =>
         x.userFile[t.now.sessionFile[s].user] = t.now.userFile[t.now.sessionFile[s].user]
  <2>1. \A y \in Users : y # u => x.userFile[y] = t.now.userFile[y]
    BY <1>2, <1>3, GoodTyped
  <2>2. \A s \in Sessions : t.now.sessionFile[s] # Nil => t.now.sessionFile[s].user \in Users
    BY <1>2 DEF World, SessionFile
  <2> QED BY <2>1, <2>2
<1>7. \A s \in Sessions : FileOK(t.now, s, al, ak, b)
  BY <1>2 DEF Good
<1>8. \A s \in Sessions : FileOK(x, s, al, ak, b)
  BY <1>5, <1>6, <1>7, FileKept
<1>9. Good(x, al, ak, b)
  BY <1>2, <1>3, <1>5, <1>8 DEF Good, LockOK
<1>10. TraceOK(f, al, ak, b)
  BY <1>9 DEF TraceOK, Change
<1> HIDE DEF f
<1>11. /\ z \in World /\ Only(z, x, {"runtimeDir"}) /\ Only(z, x, {"runtimeDir", "muted"})
       /\ z.runtimeDir = [x.runtimeDir EXCEPT ![u] = FALSE]
  BY <1>3, <1>4 DEF World, Only
<1> HIDE DEF z
<1>12. TraceOK(Change(f, z), al, ak, b) /\ Change(f, z).now = z
  BY <1>4, <1>10, <1>11, Unpromised
<1>13. /\ Only(z, t.now, {"userFile", "runtimeDir"}) /\ z.userFile = x.userFile
       /\ x.runtimeDir = t.now.runtimeDir
  BY <1>3, <1>11 DEF Only
<1> QED BY <1>1, <1>3, <1>11, <1>12, <1>13

\* A change that concerns locks only keeps a trace good if a lock that is held is on
\* disk.
LEMMA LockChanged ==
    ASSUME NEW al, NEW ak, NEW b, NEW t, TraceOK(t, al, ak, b), NEW x \in World,
           Only(x, t.now, {"lockFile", "lockFifo"}), \A l \in Locks : LockOK(x, l)
    PROVE  TraceOK(Change(t, x), al, ak, b) /\ Change(t, x).now = x
<1>1. Good(t.now, al, ak, b)
  BY DEF TraceOK
<1>2. /\ x.sessionFile = t.now.sessionFile /\ x.told = t.now.told /\ x.fifo = t.now.fifo
      /\ x.control = t.now.control /\ x.userFile = t.now.userFile
  BY DEF Only
<1>3. \A s \in Sessions : FileOK(x, s, al, ak, b)
  BY <1>1, <1>2 DEF Good, FileOK
<1>4. Good(x, al, ak, b)
  BY <1>3 DEF Good
<1> QED BY <1>4 DEF TraceOK, Change

\* inhibitor_create_fifo() makes a FIFO that nobody has.
LEMMA LockCreated ==
    ASSUME NEW al, NEW ak, NEW b, NEW t, TraceOK(t, al, ak, b), NEW l \in Locks
    PROVE  LET e == inhibitor_create_fifo(t, l)
           IN  TraceOK(e, al, ak, b) /\ Only(e.now, t.now, {"lockFifo"})
<1> DEFINE x == [t.now EXCEPT !.lockFifo[l] = "idle"]
<1>1. Good(t.now, al, ak, b) /\ t.now \in World
  BY DEF TraceOK, Good
<1>2. /\ x \in World /\ Only(x, t.now, {"lockFifo"}) /\ x.lockFile = t.now.lockFile
      /\ Only(x, t.now, {"lockFile", "lockFifo"})
      /\ x.lockFifo = [t.now.lockFifo EXCEPT ![l] = "idle"]
  BY <1>1 DEF World, Only, Fifo
<1>3. CASE t.now.lockFifo[l] = "none"
  <2>1. inhibitor_create_fifo(t, l) = Change(t, x)
    BY <1>3 DEF inhibitor_create_fifo
  <2> HIDE DEF x
  <2>2. \A k \in Locks : LockOK(x, k)
    BY <1>1, <1>2, GoodTyped DEF Good, LockOK
  <2>3. TraceOK(Change(t, x), al, ak, b) /\ Change(t, x).now = x
    BY <1>2, <2>2, LockChanged
  <2> QED BY <1>2, <2>1, <2>3
<1>4. CASE t.now.lockFifo[l] # "none"
  BY <1>4 DEF inhibitor_create_fifo, Only
<1> QED BY <1>3, <1>4

\* inhibitor_save() writes a lock.
LEMMA LockSaved ==
    ASSUME NEW al, NEW ak, NEW b, NEW t, TraceOK(t, al, ak, b), NEW l \in Locks
    PROVE  LET e == inhibitor_save(t, l)
           IN  /\ TraceOK(e, al, ak, b) /\ Only(e.now, t.now, {"lockFile"})
               /\ e.now.lockFile = [t.now.lockFile EXCEPT ![l] = TRUE]
<1> DEFINE x == [t.now EXCEPT !.lockFile[l] = TRUE]
<1>1. Good(t.now, al, ak, b) /\ t.now \in World
  BY DEF TraceOK, Good
<1>2. /\ x \in World /\ Only(x, t.now, {"lockFile"}) /\ x.lockFifo = t.now.lockFifo
      /\ Only(x, t.now, {"lockFile", "lockFifo"})
      /\ x.lockFile = [t.now.lockFile EXCEPT ![l] = TRUE]
  BY <1>1 DEF World, Only
<1>3. inhibitor_save(t, l) = Change(t, x)
  BY DEF inhibitor_save
<1> HIDE DEF x
<1>4. \A k \in Locks : LockOK(x, k)
  BY <1>1, <1>2, GoodTyped DEF Good, LockOK
<1>5. TraceOK(Change(t, x), al, ak, b) /\ Change(t, x).now = x
  BY <1>2, <1>4, LockChanged
<1> QED BY <1>2, <1>3, <1>5

\* inhibitor_stop() removes a lock that nobody holds.
LEMMA LockStopped ==
    ASSUME NEW al, NEW ak, NEW b, NEW t, TraceOK(t, al, ak, b), NEW l \in Locks
    PROVE  LET e == inhibitor_stop(t, l)
           IN  /\ TraceOK(e, al, ak, b) /\ Only(e.now, t.now, {"lockFile", "lockFifo"})
               /\ e.now.lockFile = [t.now.lockFile EXCEPT ![l] = FALSE]
<1> DEFINE x == [t.now EXCEPT !.lockFifo[l] = "none"]
           f == Change(t, x)
           z == [f.now EXCEPT !.lockFile[l] = FALSE]
<1>1. Good(t.now, al, ak, b) /\ t.now \in World
  BY DEF TraceOK, Good
<1>2. /\ x \in World /\ x.lockFile = t.now.lockFile
      /\ Only(x, t.now, {"lockFile", "lockFifo"})
      /\ x.lockFifo = [t.now.lockFifo EXCEPT ![l] = "none"]
  BY <1>1 DEF World, Only, Fifo
<1>3. inhibitor_stop(t, l) = Change(f, z)
  BY DEF inhibitor_stop
<1>4. f.now = x
  BY DEF Change
<1> HIDE DEF x
<1>5. (\A k \in Locks : LockOK(x, k)) /\ x.lockFifo[l] = "none"
  <2>1. t.now.lockFifo \in [Locks -> Fifo] /\ \A k \in Locks : LockOK(t.now, k)
    BY <1>1, GoodTyped DEF Good
  <2> QED BY <1>2, <2>1 DEF LockOK
<1>6. TraceOK(f, al, ak, b)
  BY <1>2, <1>5, LockChanged
<1> HIDE DEF f
<1>7. /\ z \in World /\ Only(z, x, {"lockFile", "lockFifo"}) /\ z.lockFifo = x.lockFifo
      /\ z.lockFile = [x.lockFile EXCEPT ![l] = FALSE]
  BY <1>2, <1>4 DEF World, Only
<1> HIDE DEF z
<1>8. x.lockFile \in [Locks -> BOOLEAN]
  BY <1>2 DEF World
<1>9. \A k \in Locks : LockOK(z, k)
  BY <1>5, <1>7, <1>8 DEF LockOK
<1>10. TraceOK(Change(f, z), al, ak, b) /\ Change(f, z).now = z
  BY <1>4, <1>6, <1>7, <1>9, LockChanged
<1>11. Only(z, t.now, {"lockFile", "lockFifo"})
  BY <1>2, <1>7 DEF Only
<1> QED BY <1>2, <1>3, <1>7, <1>10, <1>11

-----------------------------------------------------------------------------
(***************************************************************************)
(* The end of a handler                                                    *)
(***************************************************************************)
\* A world that is good for the processes of the next state is good there.
LEMMA GoodNext ==
    ASSUME machine' = machine, Good(world', Owed', asked', bus')
    PROVE  Good(world, Owed, asked, bus)'
BY DEF Good, FileOK, LockOK

\* The trace of a handler that has not changed anything.
LEMMA BeginOK ==
    ASSUME NEW al, NEW ak, NEW b, Good(world, al, ak, b)
    PROVE  TraceOK(Begin, al, ak, b) /\ Begin.now = world
BY DEF TraceOK, Begin

\* The processes that there can be.
ProcsOK ==
    /\ alive \subseteq Sessions /\ bus \subseteq Clients
    /\ asked \subseteq Sessions /\ dropped \subseteq Sessions

\* Without memory a good world is enough.
LEMMA DownKeeps ==
    ASSUME IInv, Down, machine' = machine, ProcsOK', Good(world', Owed', asked', bus')
    PROVE  IInv'
<1>1. Good(world, Owed, asked, bus)'
  BY GoodNext
<1>2. TypeOK'
  BY <1>1 DEF IInv, TypeOK, Down, NoMemory, ProcsOK, Good
<1>3. MemoryOK' /\ QueuesOK'
  BY DEF Down, NoMemory, MemoryOK, QueuesOK
<1> QED BY <1>1, <1>2, <1>3 DEF IInv

\* The daemon may crash in a handler with a good trace.
LEMMA CrashKeeps ==
    ASSUME IInv, NEW t, TraceOK(t, Owed', asked', bus'), CrashIn(t), machine' = machine,
           ProcsOK'
    PROVE  IInv'
BY DownKeeps DEF CrashIn, TraceOK

\* A handler with a good trace crashes, or leaves a good world.
LEMMA RunKeeps ==
    ASSUME IInv, NEW t, TraceOK(t, Owed', asked', bus'), machine' = machine, ProcsOK',
           NEW ss, NEW uu, NEW ll, NEW sg, NEW ug, Run(t, ss, uu, ll, sg, ug)
    PROVE  \/ IInv'
           \/ /\ Good(world, Owed, asked, bus)' /\ world' = t.now
              /\ UNCHANGED thread /\ session' = ss /\ user' = uu /\ lock' = ll
              /\ sessGc' = sg /\ userGc' = ug
<1>1. CASE CrashIn(t)
  BY <1>1, CrashKeeps
<1>2. CASE ~ CrashIn(t)
  <2>1. world' = t.now
    BY <1>2 DEF Run
  <2>2. Good(world', Owed', asked', bus')
    BY <2>1 DEF TraceOK
  <2> QED BY <1>2, <2>1, <2>2, GoodNext DEF Run
<1> QED BY <1>1, <1>2

\* Of the sessions that clients were told of, those in x are in y.
Within(w, x, y) == \A s \in Sessions : s \in x /\ w.told[s] = "created" => s \in y

\* A good world stays good when leaders die, sessions are asked to end, and a session
\* that nobody was told of yet gets a leader.
LEMMA ProcsChanged ==
    ASSUME NEW al, NEW ak, NEW b, NEW w, Good(w, al, ak, b), NEW aa, NEW kk,
           Within(w, aa, al), Within(w, ak, kk)
    PROVE  Good(w, aa, kk, b)
<1>1. \A s \in Sessions : FileOK(w, s, al, ak, b)
  BY Zenon DEF Good
<1>2. \A s \in Sessions : FileOK(w, s, aa, kk, b)
  <2> SUFFICES ASSUME NEW s \in Sessions PROVE FileOK(w, s, aa, kk, b)
    BY Zenon
  <2>1. FileOK(w, s, al, ak, b)
    BY <1>1
  <2>2. /\ s \in aa /\ w.told[s] = "created" => s \in al
        /\ s \in ak /\ w.told[s] = "created" => s \in kk
    BY DEF Within
  <2> QED BY <2>1, <2>2 DEF FileOK
<1> QED BY <1>2 DEF Good

-----------------------------------------------------------------------------
(***************************************************************************)
(* Steps that concern one session                                          *)
(***************************************************************************)
\* What is known of a session stays so as long as the session and its file do.
LEMMA KnownKept ==
    ASSUME NEW s \in Sessions, SessionKnown(s), session'[s] = session[s],
           user'[session[s].user] # Nil, world'.sessionFile[s] = world.sessionFile[s],
           s \in asked => s \in asked',
           world'.control[s] \in {world.control[s], Nil, "forgotten"},
           world.runtimeDir[session[s].user] => world'.runtimeDir[session[s].user]
    PROVE  SessionKnown(s)'
BY RestartAssumption DEF SessionKnown, session_closing

\* A session that was just written is known.
LEMMA WrittenKnown ==
    ASSUME NEW s \in Sessions, NEW p \in Session, session'[s] = p, p.started,
           world'.sessionFile[s] = FileOf(p), user'[p.user] # Nil,
           p.timer => s \in asked', p.stopping => ~ p.fifo, world'.runtimeDir[p.user],
           world'.control[s] \in Clients => p.controller = world'.control[s]
    PROVE  SessionKnown(s)'
<1>1. FileOf(p) # Nil
  BY RestartAssumption DEF FileOf, SessionFile, Session, session_closing
<1>2. /\ FileOf(p).user = p.user /\ FileOf(p).fifo = p.fifo
      /\ FileOf(p).controller = p.controller
      /\ p.stopping => FileOf(p).closing
      /\ FileOf(p).closing => p.stopping \/ p.timer
  BY DEF FileOf, session_closing
<1> HIDE DEF FileOf
<1> QED BY <1>1, <1>2 DEF SessionKnown, session_closing

\* The parts of the invariant that concern session s, when it is known.
LEMMA KnownFacts ==
    ASSUME IInv, pc \in {"event", "user_stop", "exiting"}, NEW s \in Sessions,
           session[s] # Nil
    PROVE  /\ session[s] \in Session /\ session[s].user \in Users
           /\ SessionKnown(s)
           /\ user[session[s].user] \in User
           /\ world.userFile[session[s].user] # Nil
           /\ world.told[s] # "removed"
           /\ FileOK(world, s, Owed, asked, bus)
           /\ world.sessionFile[s] # Nil /\ world.sessionFile[s].user = session[s].user
           /\ pc # "exiting" => user[session[s].user].started
<1>1. /\ session \in [Sessions -> Session \cup {Nil}]
      /\ user \in [Users -> User \cup {Nil}]
  BY DEF IInv, TypeOK
<1>2. session[s] \in Session /\ session[s].user \in Users
  BY <1>1 DEF Session
<1>3. SessionKnown(s)
  BY DEF IInv, MemoryOK
<1>4. FileOK(world, s, Owed, asked, bus)
  BY DEF IInv, Good
<1>5. /\ world.sessionFile[s] # Nil /\ world.sessionFile[s].user = session[s].user
      /\ user[session[s].user] # Nil
  BY <1>3 DEF SessionKnown
<1>6. world.userFile[session[s].user] # Nil /\ world.told[s] # "removed"
  BY <1>4, <1>5 DEF FileOK
<1>7. pc # "exiting" => user[session[s].user].started
  BY <1>2, <1>5 DEF IInv, MemoryOK
<1> QED BY <1>1, <1>2, <1>3, <1>4, <1>5, <1>6, <1>7

\* A step that changes session s to r and nothing but its file in the world, while the
\* daemon serves its clients, keeps the invariant if session and file agree again.
LEMMA SessionStep ==
    ASSUME IInv, pc \in {"event", "user_stop"}, machine' = machine,
           UNCHANGED <<thread, user, lock>>, ProcsOK', asked \subseteq asked',
           Good(world, Owed, asked, bus)',
           NEW s \in Sessions, session[s] # Nil, NEW r \in Session \cup {Nil},
           session' = [session EXCEPT ![s] = r],
           r # Nil => r.user = session[s].user /\ SessionKnown(s)',
           r = Nil => world'.sessionFile[s] = Nil /\ s \notin sessGc',
           \A y \in Sessions \ {s} : world'.sessionFile[y] = world.sessionFile[y],
           \A y \in Sessions \ {s} : world'.control[y] \in {world.control[y], Nil, "forgotten"},
           \A x \in Users : (world'.userFile[x] # Nil) = (world.userFile[x] # Nil),
           world'.runtimeDir = world.runtimeDir, world'.lockFile = world.lockFile,
           sessGc' \subseteq (sessGc \cup {s}),
           userGc' \subseteq (userGc \cup {session[s].user}),
           pc = "user_stop" => sessGc' = sessGc /\ userGc' = userGc
    PROVE  IInv'
<1>1. /\ session \in [Sessions -> Session \cup {Nil}] /\ session'[s] = r
      /\ \A y \in Sessions \ {s} : session'[y] = session[y]
  BY DEF IInv, TypeOK
<1>2. /\ pc' = pc /\ cur' = cur /\ user' = user /\ lock' = lock
  BY DEF thread
<1>3. session[s].user \in Users /\ user[session[s].user] # Nil
  BY KnownFacts DEF SessionKnown
<1>4. TypeOK'
  BY <1>1, <1>2, <1>3 DEF IInv, TypeOK, ProcsOK, Good
<1>5. MemoryOK'
  <2>1. \A y \in Sessions : session'[y] # Nil => SessionKnown(y)'
    <3>1. \A y \in Sessions \ {s} : session[y] # Nil =>
            SessionKnown(y) /\ user[session[y].user] # Nil
      BY DEF IInv, MemoryOK, SessionKnown
    <3>2. \A y \in Sessions \ {s} : session'[y] # Nil => SessionKnown(y)'
      BY <1>1, <1>2, <3>1, KnownKept
    <3> QED BY <1>1, <3>2
  <2>2. \A y \in Sessions : session'[y] = Nil => world'.sessionFile[y] = Nil
    <3>1. \A y \in Sessions : session[y] = Nil => world.sessionFile[y] = Nil
      BY DEF IInv, MemoryOK
    <3> QED BY <1>1, <3>1
  <2>3. /\ \A x \in Users : IF user[x] = Nil THEN world.userFile[x] = Nil
                            ELSE /\ user[x].started
                                 /\ world.userFile[x] # Nil /\ world.runtimeDir[x]
        /\ \A l \in Locks : world.lockFile[l] = (l \in lock)
    BY DEF IInv, MemoryOK
  <2>4. \A x \in Users : IF user'[x] = Nil THEN world'.userFile[x] = Nil
                         ELSE /\ user'[x].started
                              /\ world'.userFile[x] # Nil /\ world'.runtimeDir[x]
    BY <1>2, <2>3
  <2>5. \A l \in Locks : world'.lockFile[l] = (l \in lock')
    BY <1>2, <2>3
  <2> QED BY <1>2, <2>1, <2>2, <2>4, <2>5 DEF MemoryOK
<1>6. QueuesOK'
  <2>1. \A y \in sessGc' : session'[y] # Nil
    BY <1>1 DEF IInv, QueuesOK, TypeOK
  <2>2. \A x \in userGc' : user'[x] # Nil
    BY <1>2, <1>3 DEF IInv, QueuesOK
  <2>3. pc' # "event" => sessGc' = {} /\ userGc' = {}
    BY <1>2 DEF IInv, QueuesOK
  <2>4. pc' = "user_stop" => /\ cur' \in Users /\ user'[cur'] # Nil
                             /\ sessionsOf(cur)' \subseteq asked'
    BY <1>1, <1>2 DEF IInv, QueuesOK, sessionsOf
  <2> QED BY <2>1, <2>2, <2>3, <2>4 DEF QueuesOK
<1> QED BY <1>4, <1>5, <1>6 DEF IInv

\* A handler that stops session s, after removing its FIFO or not.
LEMMA StopStep ==
    ASSUME IInv, pc \in {"event", "user_stop"}, machine' = machine, ProcsOK',
           asked \subseteq asked', NEW s \in Sessions, session[s] # Nil,
           NEW t, TraceOK(t, Owed', asked', bus'), Only(t.now, world, {"fifo"}),
           s \notin Owed' \/ s \in asked' \/ t.now.fifo[s] # "held",
           NEW r \in Session, r.user = session[s].user, r.started = session[s].started,
           r.stopping = session[s].stopping, r.timer = session[s].timer,
           r.controller = session[s].controller,
           r.started /\ r.stopping => r.fifo = session[s].fifo,
           NEW sg, sg \subseteq (sessGc \cup {s}), pc = "user_stop" => sg = sessGc,
           Run(session_stop(t, s, r), [session EXCEPT ![s] = session_stopped(r)],
               user, lock, sg, userGc)
    PROVE  IInv'
<1> DEFINE e == session_stop(t, s, r)
           p == session_stopped(r)
<1>1. /\ session[s].user \in Users /\ user[r.user] \in User /\ user[r.user].started
      /\ world.userFile[r.user] # Nil /\ world.told[s] # "removed"
      /\ SessionKnown(s) /\ world.sessionFile[s].user = session[s].user
  BY KnownFacts
<1>2. /\ t.now.userFile = world.userFile /\ t.now.told = world.told
      /\ t.now.sessionFile = world.sessionFile /\ t.now.control = world.control
      /\ t.now.runtimeDir = world.runtimeDir /\ t.now.lockFile = world.lockFile
  BY DEF Only
<1>3. t.now.userFile[r.user] # Nil /\ t.now.told[s] # "removed"
  BY <1>1, <1>2
<1>4. /\ TraceOK(e, Owed', asked', bus')
      /\ Only(e.now, t.now, {"fifo", "sessionFile", "userFile"})
      /\ e.now.sessionFile = IF r.started /\ ~ r.stopping
           THEN [t.now.sessionFile EXCEPT ![s] = FileOf(p)] ELSE t.now.sessionFile
      /\ \A x \in Users : (e.now.userFile[x] # Nil) = (t.now.userFile[x] # Nil)
  BY <1>1, <1>3, SessionStopped
<1> HIDE DEF e
<1>5. \/ IInv'
      \/ /\ Good(world, Owed, asked, bus)' /\ world' = e.now
         /\ UNCHANGED thread /\ session' = [session EXCEPT ![s] = p] /\ user' = user
         /\ lock' = lock /\ sessGc' = sg /\ userGc' = userGc
  BY <1>4, RunKeeps DEF e
<1>6. /\ p \in Session /\ p.user = r.user /\ p.started = r.started
      /\ p.controller = r.controller
      /\ p.timer => r.timer
      /\ r.started => p.stopping
      /\ r.started /\ ~ r.stopping => ~ p.timer /\ ~ p.fifo
      /\ ~ (r.started /\ ~ r.stopping) => p = r
  BY StoppedTyped
<1> HIDE DEF p
<1> SUFFICES ASSUME Good(world, Owed, asked, bus)', world' = e.now,
                    UNCHANGED thread, session' = [session EXCEPT ![s] = p],
                    user' = user, lock' = lock, sessGc' = sg, userGc' = userGc
             PROVE  IInv'
  BY <1>5
<1>7. /\ e.now.control = world.control /\ e.now.runtimeDir = world.runtimeDir
      /\ e.now.lockFile = world.lockFile
  BY <1>2, <1>4 DEF Only
<1>8. /\ world.sessionFile \in [Sessions -> SessionFile \cup {Nil}]
      /\ session \in [Sessions -> Session \cup {Nil}]
  BY GoodTyped DEF IInv, TypeOK
<1>9. \A y \in Sessions \ {s} : world'.sessionFile[y] = world.sessionFile[y]
  BY <1>2, <1>4, <1>8
<1>10. SessionKnown(s)'
  <2>1. /\ session'[s] = p /\ world'.control[s] = world.control[s]
        /\ world'.runtimeDir = world.runtimeDir
    BY <1>7, <1>8
  <2>2. CASE r.started /\ ~ r.stopping
    <3>1. world'.sessionFile[s] = FileOf(p)
      BY <1>2, <1>4, <1>8, <2>2
    <3>2. p.started /\ ~ p.timer /\ ~ p.fifo
      BY <1>6, <2>2
    <3>3. /\ user'[p.user] # Nil /\ world'.runtimeDir[p.user]
          /\ world'.control[s] \in Clients => p.controller = world'.control[s]
      BY <1>1, <1>6, <2>1, <2>2 DEF SessionKnown
    <3> QED BY <1>6, <2>1, <3>1, <3>2, <3>3, WrittenKnown
  <2>3. CASE ~ (r.started /\ ~ r.stopping)
    <3>1. world'.sessionFile[s] = world.sessionFile[s] /\ p = r
      BY <1>2, <1>4, <1>6, <2>3
    <3> QED BY <1>1, <2>1, <2>3, <3>1 DEF SessionKnown, session_closing
  <2> QED BY <2>2, <2>3
<1>11. /\ \A y \in Sessions \ {s} : world'.control[y] \in {world.control[y], Nil, "forgotten"}
       /\ world'.runtimeDir = world.runtimeDir /\ world'.lockFile = world.lockFile
       /\ \A x \in Users : (world'.userFile[x] # Nil) = (world.userFile[x] # Nil)
  BY <1>2, <1>4, <1>7
<1>12. p # Nil /\ p.user = session[s].user
  BY <1>6, RestartAssumption
<1> QED BY <1>6, <1>9, <1>10, <1>11, <1>12, SessionStep

\* The trace of a handler that starts where nothing but asked grows.
LEMMA BeginAsked ==
    ASSUME IInv, asked \subseteq asked', UNCHANGED <<alive, dropped, Owed>>, bus' = bus
    PROVE  TraceOK(Begin, Owed', asked', bus') /\ Begin.now = world
<1>1. Good(world, Owed, asked, bus)
  BY DEF IInv
<1>2. Within(world, Owed', Owed) /\ Within(world, asked, asked')
  BY DEF Within
<1>3. Good(world, Owed', asked', bus)
  BY <1>1, <1>2, ProcsChanged
<1> QED BY <1>3, BeginOK

\* session_stop() of a session that may be stopped, and nothing else.
LEMMA StopFromBegin ==
    ASSUME IInv, pc \in {"event", "user_stop"}, machine' = machine, ProcsOK',
           asked \subseteq asked', UNCHANGED <<alive, dropped, Owed>>, bus' = bus,
           NEW s \in Sessions, session[s] # Nil,
           s \notin Owed' \/ s \in asked',
           NEW sg, sg \subseteq (sessGc \cup {s}), pc = "user_stop" => sg = sessGc,
           Run(session_stop(Begin, s, session[s]),
               [session EXCEPT ![s] = session_stopped(session[s])],
               user, lock, sg, userGc)
    PROVE  IInv'
<1>1. TraceOK(Begin, Owed', asked', bus') /\ Only(Begin.now, world, {"fifo"})
  BY BeginAsked DEF Only
<1>2. session[s] \in Session
  BY KnownFacts
<1> QED BY <1>1, <1>2, StopStep

\* The timer of a session that is being released fires.
LEMMA ReleaseTimeoutStep ==
    ASSUME IInv, NEW s \in Sessions, ReleaseTimeout(s)
    PROVE  IInv'
<1>1. /\ pc = "event" /\ session[s] # Nil /\ session[s].timer /\ machine' = machine
      /\ UNCHANGED <<alive, dropped, Owed>> /\ bus' = bus /\ asked' = asked
      /\ Run(session_stop(Begin, s, session[s]),
             [session EXCEPT ![s] = session_stopped(session[s])], user, lock,
             sessGc \cup {s}, userGc)
  BY DEF ReleaseTimeout, Idle, procs, Owed
<1>2. s \in asked' /\ ProcsOK'
  BY <1>1, KnownFacts DEF SessionKnown, IInv, TypeOK, ProcsOK
<1> QED BY <1>1, <1>2, StopFromBegin

\* The leader of a session exits.
LEMMA LeaderExitStep ==
    ASSUME IInv, NEW s \in Sessions, LeaderExit(s)
    PROVE  IInv'
<1>1. /\ pc = "event" /\ session[s] # Nil /\ s \notin Owed /\ machine' = machine
      /\ UNCHANGED <<alive, dropped, Owed>> /\ bus' = bus /\ asked' = asked
      /\ Run(session_stop(Begin, s, session[s]),
             [session EXCEPT ![s] = session_stopped(session[s])], user, lock,
             sessGc, userGc)
  BY DEF LeaderExit, Idle, procs, Owed, RunSession
<1>2. ProcsOK'
  BY <1>1 DEF IInv, TypeOK, ProcsOK
<1> QED BY <1>1, <1>2, StopFromBegin

\* TerminateSession()
LEMMA TerminateSessionStep ==
    ASSUME IInv, NEW s \in Sessions, TerminateSession(s)
    PROVE  IInv'
<1>1. /\ pc = "event" /\ session[s] # Nil /\ machine' = machine
      /\ UNCHANGED <<alive, dropped, Owed>> /\ bus' = bus /\ asked' = asked \cup {s}
      /\ Run(session_stop(Begin, s, session[s]),
             [session EXCEPT ![s] = session_stopped(session[s])], user, lock,
             sessGc, userGc)
  BY DEF TerminateSession, Idle, RunSession, Owed
<1>2. ProcsOK' /\ asked \subseteq asked' /\ s \in asked'
  BY <1>1 DEF IInv, TypeOK, ProcsOK
<1> QED BY <1>1, <1>2, StopFromBegin

\* user_stop() stops a session.
LEMMA StopNextStep ==
    ASSUME IInv, NEW s \in Sessions, StopNext(s)
    PROVE  IInv'
<1>1. /\ pc = "user_stop" /\ session[s] # Nil /\ machine' = machine
      /\ s \in sessionsOf(cur)
      /\ UNCHANGED <<alive, dropped, Owed>> /\ bus' = bus /\ asked' = asked
      /\ Run(session_stop(Begin, s, session[s]),
             [session EXCEPT ![s] = session_stopped(session[s])], user, lock,
             sessGc, userGc)
  BY DEF StopNext, procs, Owed, RunSession, RunningOf, sessionsOf
<1>2. ProcsOK' /\ s \in asked'
  BY <1>1 DEF IInv, TypeOK, ProcsOK, QueuesOK
<1> QED BY <1>1, <1>2, StopFromBegin

\* The FIFO of a session has no writer any more.
LEMMA FifoEofStep ==
    ASSUME IInv, NEW s \in Sessions, FifoEof(s)
    PROVE  IInv'
<1> DEFINE r == [session[s] EXCEPT !.fifo = FALSE]
           t == session_remove_fifo(Begin, s, session[s])
<1>1. /\ pc = "event" /\ session[s] # Nil /\ session[s].fifo /\ machine' = machine
      /\ world.fifo[s] # "held"
      /\ UNCHANGED <<alive, dropped, Owed>> /\ bus' = bus /\ asked' = asked
      /\ Run(session_stop(t, s, r), [session EXCEPT ![s] = session_stopped(r)],
             user, lock, sessGc, userGc)
  BY DEF FifoEof, Idle, procs, Owed, RunSession
<1>2. TraceOK(Begin, Owed', asked', bus') /\ Begin.now = world
  BY <1>1, BeginAsked
<1>3. /\ TraceOK(t, Owed', asked', bus') /\ Only(t.now, world, {"fifo"})
      /\ t.now.fifo[s] # "held"
  BY <1>1, <1>2, FifoRemoved
<1> HIDE DEF t
<1>4. session[s] \in Session /\ SessionKnown(s)
  BY <1>1, KnownFacts
<1>5. /\ r \in Session /\ r.user = session[s].user /\ r.started = session[s].started
      /\ r.stopping = session[s].stopping /\ r.timer = session[s].timer
      /\ r.controller = session[s].controller
  BY <1>4 DEF Session
<1> HIDE DEF r
<1>6. ~ (r.started /\ r.stopping)
  BY <1>1, <1>4, <1>5 DEF SessionKnown
<1>7. ProcsOK' /\ asked \subseteq asked'
  BY <1>1 DEF IInv, TypeOK, ProcsOK
<1> QED BY <1>1, <1>3, <1>5, <1>6, <1>7, StopStep

\* What the client of a known session was told is in the session object too.
LEMMA ToldKnown ==
    ASSUME IInv, pc \in {"event", "user_stop", "exiting"}, NEW s \in Sessions,
           session[s] # Nil
    PROVE  session[s].started /\ s \in Owed /\ world.told[s] = "created"
             => /\ session[s].fifo \/ session_closing(session[s])
                /\ s \notin asked /\ world.fifo[s] = "held" =>
                     session[s].fifo /\ ~ session_closing(session[s])
<1>1. SessionKnown(s) /\ FileOK(world, s, Owed, asked, bus)
  BY KnownFacts
<1> QED BY <1>1 DEF SessionKnown, FileOK, session_closing

\* ReleaseSession()
LEMMA ReleaseSessionStep ==
    ASSUME IInv, NEW s \in Sessions, ReleaseSession(s)
    PROVE  IInv'
<1> DEFINE r == [session[s] EXCEPT !.timer = TRUE]
<1>1. /\ pc = "event" /\ session[s] # Nil /\ machine' = machine
      /\ UNCHANGED <<alive, dropped, Owed>>
      /\ bus' = bus /\ asked' = asked \cup {s} /\ world' = world
      /\ UNCHANGED <<thread, user, lock>> /\ session' = [session EXCEPT ![s] = r]
      /\ sessGc' = sessGc /\ userGc' = userGc
  BY DEF ReleaseSession, Idle, Owed
<1>2. TraceOK(Begin, Owed', asked', bus') /\ Begin.now = world
  BY <1>1, BeginAsked
<1>3. Good(world, Owed, asked, bus)'
  <2>1. Good(world', Owed', asked', bus')
    BY <1>1, <1>2 DEF TraceOK
  <2> QED BY <1>1, <2>1, GoodNext
<1>4. session[s] \in Session /\ SessionKnown(s)
  BY <1>1, KnownFacts
<1>5. /\ r \in Session /\ r.user = session[s].user /\ r.started = session[s].started
      /\ r.stopping = session[s].stopping /\ r.timer /\ r.fifo = session[s].fifo
      /\ r.controller = session[s].controller
  BY <1>4 DEF Session
<1> HIDE DEF r
<1>6. session'[s] = r /\ user' = user
  BY <1>1 DEF IInv, TypeOK
<1>7. SessionKnown(s)'
  BY <1>1, <1>4, <1>5, <1>6 DEF SessionKnown, session_closing
<1>8. r # Nil
  BY <1>5, RestartAssumption
<1>9. ProcsOK' /\ asked \subseteq asked'
  BY <1>1 DEF IInv, TypeOK, ProcsOK
<1> QED BY <1>1, <1>3, <1>5, <1>7, <1>8, <1>9, SessionStep

\* session_drop_controller() of a known session whose controller has no claim any more.
LEMMA DropUnclaimed ==
    ASSUME IInv, pc \in {"event", "user_stop", "exiting"}, NEW s \in Sessions,
           session[s] # Nil, NEW t, TraceOK(t, Owed, asked, bus),
           Only(t.now, world, {"control"}), t.now.control[s] \notin Clients
    PROVE  LET e == session_drop_controller(t, s, session[s])
           IN  /\ TraceOK(e, Owed, asked, bus)
               /\ Only(e.now, world, {"control", "sessionFile", "muted"})
               /\ e.now.control = t.now.control
               /\ e.now.sessionFile = IF session[s].started /\ session[s].controller # Nil
                    THEN [world.sessionFile EXCEPT ![s] = FileOf(controller_dropped(session[s]))]
                    ELSE world.sessionFile
<1> DEFINE r == session[s]
<1>1. /\ t.now.userFile = world.userFile /\ t.now.told = world.told
      /\ t.now.fifo = world.fifo /\ t.now.sessionFile = world.sessionFile
  BY DEF Only
<1>2. r \in Session /\ t.now.userFile[r.user] # Nil /\ t.now.told[s] # "removed"
  BY <1>1, KnownFacts
<1>3. r.started /\ s \in Owed /\ t.now.told[s] = "created" =>
        /\ r.fifo \/ session_closing(r)
        /\ s \notin asked /\ t.now.fifo[s] = "held" => r.fifo /\ ~ session_closing(r)
  BY <1>1, ToldKnown
<1> HIDE DEF r
<1> DEFINE e == session_drop_controller(t, s, r)
<1>4. /\ TraceOK(e, Owed, asked, bus) /\ Only(e.now, t.now, {"sessionFile", "muted"})
      /\ e.now.sessionFile = IF r.started /\ r.controller # Nil
           THEN [t.now.sessionFile EXCEPT ![s] = FileOf(controller_dropped(r))]
           ELSE t.now.sessionFile
  BY <1>2, <1>3, ControllerDropped
<1> HIDE DEF e
<1>5. e.now.control = t.now.control
  BY <1>4 DEF Only
<1>6. Only(e.now, world, {"control", "sessionFile", "muted"})
  BY <1>4 DEF Only
<1> QED BY <1>1, <1>4, <1>5, <1>6 DEF e, r

\* session_drop_controller() while the daemon serves its clients.
LEMMA DropControllerStep ==
    ASSUME IInv, NEW s \in Sessions, DropController(s)
    PROVE  IInv'
<1> DEFINE r == controller_dropped(session[s])
           t == Change(Begin, [world EXCEPT !.control[s] = Nil])
           e == session_drop_controller(t, s, session[s])
<1>1. /\ pc = "event" /\ session[s] # Nil /\ session[s].controller # Nil
      /\ machine' = machine
      /\ UNCHANGED <<alive, dropped, Owed>> /\ bus' = bus /\ asked' = asked
      /\ Run(e, [session EXCEPT ![s] = r], user, lock, sessGc, userGc)
  BY DEF DropController, Idle, procs, Owed, RunSession
<1>2. /\ TraceOK(t, Owed, asked, bus) /\ Only(t.now, world, {"control"})
      /\ t.now.control = [world.control EXCEPT ![s] = Nil]
      /\ t.now.control[s] = Nil
  <2>1. TraceOK(Begin, Owed, asked, bus) /\ Begin.now = world
    BY BeginOK DEF IInv
  <2>2. /\ TraceOK(t, Owed, asked, bus) /\ Only(t.now, world, {"control"})
        /\ t.now.control = [world.control EXCEPT ![s] = Nil]
    <3>1. Unclaimed(Nil)
      BY DEF Unclaimed
    <3> QED BY <2>1, <3>1, ControlLost
  <2>3. world.control \in [Sessions -> Clients \cup {Nil, "forgotten"}]
    BY GoodTyped DEF IInv
  <2> HIDE DEF t
  <2> QED BY <2>2, <2>3
<1> HIDE DEF t
<1>3. session[s] \in Session /\ SessionKnown(s)
  BY <1>1, KnownFacts
<1>4. /\ TraceOK(e, Owed', asked', bus')
      /\ Only(e.now, world, {"control", "sessionFile", "muted"})
      /\ e.now.control = [world.control EXCEPT ![s] = Nil]
      /\ e.now.sessionFile = IF session[s].started
           THEN [world.sessionFile EXCEPT ![s] = FileOf(r)] ELSE world.sessionFile
  BY <1>1, <1>2, DropUnclaimed, RestartAssumption
<1> HIDE DEF e
<1>5. ProcsOK' /\ asked \subseteq asked'
  BY <1>1 DEF IInv, TypeOK, ProcsOK
<1>6. \/ IInv'
      \/ /\ Good(world, Owed, asked, bus)' /\ world' = e.now
         /\ UNCHANGED thread /\ session' = [session EXCEPT ![s] = r] /\ user' = user
         /\ lock' = lock /\ sessGc' = sessGc /\ userGc' = userGc
  BY <1>1, <1>4, <1>5, RunKeeps
<1>7. /\ r \in Session /\ r.controller = Nil /\ r.user = session[s].user
      /\ r.started = session[s].started /\ r.stopping = session[s].stopping
      /\ r.timer = session[s].timer /\ r.fifo = session[s].fifo
      /\ session_closing(r) = session_closing(session[s])
  BY <1>3, DroppedTyped DEF session_closing
<1> HIDE DEF r
<1> SUFFICES ASSUME Good(world, Owed, asked, bus)', world' = e.now,
                    UNCHANGED thread, session' = [session EXCEPT ![s] = r],
                    user' = user, lock' = lock, sessGc' = sessGc, userGc' = userGc
             PROVE  IInv'
  BY <1>6
<1>8. /\ world.sessionFile \in [Sessions -> SessionFile \cup {Nil}]
      /\ world.control \in [Sessions -> Clients \cup {Nil, "forgotten"}]
      /\ session \in [Sessions -> Session \cup {Nil}]
  BY GoodTyped DEF IInv, TypeOK
<1>9. /\ session'[s] = r /\ world'.control[s] = Nil
      /\ \A y \in Sessions \ {s} : world'.control[y] \in {world.control[y], Nil, "forgotten"}
      /\ \A y \in Sessions \ {s} : world'.sessionFile[y] = world.sessionFile[y]
  BY <1>4, <1>8
<1>10. /\ world'.runtimeDir = world.runtimeDir /\ world'.lockFile = world.lockFile
       /\ world'.userFile = world.userFile
  BY <1>4 DEF Only
<1>11. SessionKnown(s)'
  <2>1. CASE session[s].started
    <3>1. world'.sessionFile[s] = FileOf(r)
      BY <1>4, <1>8, <2>1
    <3>2. /\ user'[r.user] # Nil /\ world'.runtimeDir[r.user]
          /\ r.timer => s \in asked'
          /\ r.stopping => ~ r.fifo
      BY <1>1, <1>3, <1>7, <1>10, <2>1 DEF SessionKnown
    <3> QED BY <1>7, <1>9, <2>1, <3>1, <3>2, WrittenKnown
  <2>2. CASE ~ session[s].started
    <3>1. world'.sessionFile[s] = world.sessionFile[s]
      BY <1>4, <2>2
    <3> QED BY <1>1, <1>3, <1>7, <1>9, <2>2, <3>1 DEF SessionKnown
  <2> QED BY <2>1, <2>2
<1>12. r # Nil
  BY <1>7, RestartAssumption
<1> QED BY <1>1, <1>5, <1>7, <1>9, <1>10, <1>11, <1>12, SessionStep

\* Control of a session may be given to a client once the file says so.
LEMMA ControlGiven ==
    ASSUME NEW al, NEW ak, NEW b, NEW t, TraceOK(t, al, ak, b), NEW s \in Sessions,
           NEW c \in Clients, {c} \subseteq b, t.now.sessionFile[s] # Nil,
           t.now.sessionFile[s].closing \/ t.now.sessionFile[s].controller = c,
           NEW x \in World, Only(x, t.now, {"control"}),
           x.control[s] = c, \A y \in Sessions \ {s} : x.control[y] = t.now.control[y]
    PROVE  TraceOK(Change(t, x), al, ak, b) /\ Change(t, x).now = x
<1>1. Good(t.now, al, ak, b)
  BY DEF TraceOK
<1>3. /\ x.sessionFile = t.now.sessionFile /\ x.told = t.now.told /\ x.fifo = t.now.fifo
      /\ x.lockFile = t.now.lockFile
      /\ x.lockFifo = t.now.lockFifo /\ x.userFile = t.now.userFile
  BY DEF Only
<1>5. \A y \in Sessions : FileOK(t.now, y, al, ak, b)
  BY Zenon, <1>1 DEF Good
<1>6. FileOK(x, s, al, ak, b)
  <2>1. FileOK(t.now, s, al, ak, b)
    BY <1>5
  <2> QED BY <1>3, <2>1 DEF FileOK
<1>7. \A y \in Sessions \ {s} : FileOK(x, y, al, ak, b)
  <2> SUFFICES ASSUME NEW y \in Sessions \ {s} PROVE FileOK(x, y, al, ak, b)
    BY Zenon
  <2>1. FileOK(t.now, y, al, ak, b)
    BY <1>5
  <2> QED BY <1>3, <2>1, FileKept
<1>8. Good(x, al, ak, b)
  BY <1>1, <1>3, <1>6, <1>7 DEF Good, LockOK
<1> QED BY <1>8 DEF TraceOK, Change

\* TakeControl()
LEMMA TakeControlStep ==
    ASSUME IInv, NEW s \in Sessions, NEW c \in Clients, TakeControl(s, c)
    PROVE  IInv'
<1> DEFINE r == [session[s] EXCEPT !.controller = c, !.vtfd = TRUE]
           x == [world EXCEPT !.muted[s] = TRUE]
           f == Change(Begin, x)
           g == session_save(f, s, r)
           z == [g.now EXCEPT !.control[s] = c]
           e == Change(g, z)
<1>1. /\ pc = "event" /\ session[s] # Nil /\ session[s].controller = Nil /\ c \in bus
      /\ machine' = machine
      /\ UNCHANGED <<alive, dropped, Owed>> /\ bus' = bus /\ asked' = asked
      /\ Run(e, [session EXCEPT ![s] = r], user, lock, sessGc, userGc)
  BY DEF TakeControl, Idle, procs, Owed, RunSession
<1>2. TraceOK(Begin, Owed, asked, bus) /\ Begin.now = world
  BY BeginOK DEF IInv
<1>3. /\ x \in World /\ Only(x, world, {"muted"}) /\ Only(x, world, {"runtimeDir", "muted"})
  <2>1. world \in World
    BY DEF IInv, TypeOK
  <2> QED BY <2>1 DEF World, Only
<1>4. /\ session[s] \in Session /\ SessionKnown(s) /\ FileOK(world, s, Owed, asked, bus)
      /\ world.userFile[session[s].user] # Nil /\ world.told[s] # "removed"
  BY <1>1, KnownFacts
<1>5. /\ r \in Session /\ r.user = session[s].user /\ r.started = session[s].started
      /\ r.stopping = session[s].stopping /\ r.timer = session[s].timer
      /\ r.fifo = session[s].fifo /\ r.controller = c
  BY <1>4 DEF Session
<1> HIDE DEF x, r
<1>6. TraceOK(f, Owed, asked, bus) /\ f.now = x
  BY <1>2, <1>3, Unpromised
<1> HIDE DEF f
<1>7. /\ f.now.userFile = world.userFile /\ f.now.told = world.told
      /\ f.now.fifo = world.fifo /\ f.now.control = world.control
      /\ f.now.sessionFile = world.sessionFile /\ f.now.runtimeDir = world.runtimeDir
      /\ f.now.lockFile = world.lockFile
  BY <1>3, <1>6 DEF Only
<1>8. r.started => Saveable(f.now, s, r, Owed, asked, bus)
  <2> SUFFICES ASSUME r.started PROVE Saveable(f.now, s, r, Owed, asked, bus)
    OBVIOUS
  <2>1. session_closing(r) = session_closing(session[s])
    BY <1>5 DEF session_closing
  <2>2. s \in Owed /\ world.told[s] = "created" =>
          /\ r.fifo \/ session_closing(r)
          /\ s \notin asked /\ world.fifo[s] = "held" => r.fifo /\ ~ session_closing(r)
    BY <1>1, <1>5, <2>1, ToldKnown
  <2>3. world.control[s] \notin Clients
    BY <1>1, <1>4, <1>5, RestartAssumption DEF SessionKnown
  <2> QED BY <1>4, <1>5, <1>7, <2>2, <2>3 DEF Saveable
<1>9. /\ TraceOK(g, Owed, asked, bus) /\ Only(g.now, f.now, {"sessionFile"})
      /\ g.now.sessionFile = IF r.started THEN [f.now.sessionFile EXCEPT ![s] = FileOf(r)]
                             ELSE f.now.sessionFile
  BY <1>5, <1>6, <1>8, SessionSaved
<1> HIDE DEF g
<1>10. world.sessionFile \in [Sessions -> SessionFile \cup {Nil}]
       /\ world.control \in [Sessions -> Clients \cup {Nil, "forgotten"}]
       /\ session \in [Sessions -> Session \cup {Nil}]
  BY GoodTyped DEF IInv, TypeOK
<1>11. /\ g.now.sessionFile[s] # Nil
       /\ g.now.sessionFile[s].closing \/ g.now.sessionFile[s].controller = c
       /\ r.started => g.now.sessionFile[s] = FileOf(r)
       /\ ~ r.started => g.now.sessionFile[s] = world.sessionFile[s]
  <2>1. CASE r.started
    <3>1. g.now.sessionFile[s] = FileOf(r)
      BY <1>7, <1>9, <1>10, <2>1
    <3>2. FileOf(r) # Nil /\ FileOf(r).controller = c
      BY <1>5, RestartAssumption DEF FileOf, SessionFile, Session, session_closing
    <3> QED BY <2>1, <3>1, <3>2
  <2>2. CASE ~ r.started
    BY <1>4, <1>5, <1>7, <1>9, <2>2 DEF SessionKnown
  <2> QED BY <2>1, <2>2
<1>12. /\ TraceOK(e, Owed, asked, bus) /\ Only(e.now, g.now, {"control"})
       /\ e.now.control = [g.now.control EXCEPT ![s] = c]
  <2>1. g.now \in World
    BY <1>9, GoodTyped DEF TraceOK
  <2>2. /\ z \in World /\ Only(z, g.now, {"control"})
        /\ z.control = [g.now.control EXCEPT ![s] = c]
    BY <2>1 DEF World, Only
  <2> HIDE DEF z
  <2>3. {c} \subseteq bus
    BY <1>1
  <2>4. g.now.control \in [Sessions -> Clients \cup {Nil, "forgotten"}] /\ TraceOK(g, Owed, asked, bus)
    BY <1>9, <2>1 DEF World
  <2>5. z.control[s] = c /\ \A y \in Sessions \ {s} : z.control[y] = g.now.control[y]
    BY <2>2, <2>4
  <2>6. z \in World /\ Only(z, g.now, {"control"})
    BY <2>2
  <2>7. TraceOK(e, Owed, asked, bus) /\ e.now = z
    BY <1>11, <2>3, <2>4, <2>5, <2>6, ControlGiven
  <2> QED BY <2>2, <2>7
<1> HIDE DEF e, z
<1>13. ProcsOK' /\ asked \subseteq asked'
  BY <1>1 DEF IInv, TypeOK, ProcsOK
<1>14. \/ IInv'
       \/ /\ Good(world, Owed, asked, bus)' /\ world' = e.now
          /\ UNCHANGED thread /\ session' = [session EXCEPT ![s] = r] /\ user' = user
          /\ lock' = lock /\ sessGc' = sessGc /\ userGc' = userGc
  BY <1>1, <1>12, <1>13, RunKeeps
<1> SUFFICES ASSUME Good(world, Owed, asked, bus)', world' = e.now,
                    UNCHANGED thread, session' = [session EXCEPT ![s] = r],
                    user' = user, lock' = lock, sessGc' = sessGc, userGc' = userGc
             PROVE  IInv'
  BY <1>14
<1>15. /\ world'.runtimeDir = world.runtimeDir /\ world'.lockFile = world.lockFile
       /\ world'.userFile = world.userFile /\ world'.sessionFile = g.now.sessionFile
       /\ g.now.control = world.control
  BY <1>7, <1>9, <1>12 DEF Only
<1>16. /\ session'[s] = r /\ world'.control[s] = c
       /\ \A y \in Sessions \ {s} : world'.control[y] \in {world.control[y], Nil, "forgotten"}
  BY <1>10, <1>12, <1>15
<1>17. \A y \in Sessions \ {s} : world'.sessionFile[y] = world.sessionFile[y]
  BY <1>7, <1>9, <1>10, <1>15
<1>18. SessionKnown(s)'
  <2>1. CASE r.started
    <3>1. world'.sessionFile[s] = FileOf(r)
      BY <1>11, <1>15, <2>1
    <3>2. /\ user'[r.user] # Nil /\ world'.runtimeDir[r.user]
          /\ r.timer => s \in asked'
          /\ r.stopping => ~ r.fifo
      BY <1>1, <1>4, <1>5, <1>15, <2>1 DEF SessionKnown
    <3> QED BY <1>5, <1>16, <2>1, <3>1, <3>2, WrittenKnown
  <2>2. CASE ~ r.started
    <3>1. world'.sessionFile[s] = world.sessionFile[s]
      BY <1>11, <1>15, <2>2
    <3> QED BY <1>1, <1>4, <1>5, <1>16, <2>2, <3>1 DEF SessionKnown
  <2> QED BY <2>1, <2>2
<1>19. r # Nil
  BY <1>5, RestartAssumption
<1> QED BY <1>1, <1>5, <1>13, <1>15, <1>16, <1>17, <1>18, <1>19, SessionStep

\* manager_gc() of a session: it is not there any more, or stays.
LEMMA GcSessionStep ==
    ASSUME IInv, NEW s \in Sessions, GcSession(s)
    PROVE  IInv'
<1> DEFINE r == session[s]
           f == IF session_closing(r) THEN Begin ELSE session_stop(Begin, s, r)
           e == session_finalize_and_free(f, s, r, user[r.user])
<1>1. /\ pc = "event" /\ s \in sessGc /\ machine' = machine
      /\ UNCHANGED <<alive, dropped, Owed>> /\ bus' = bus /\ asked' = asked
      /\ session_may_gc(s) =>
           Run(e, [session EXCEPT ![s] = Nil], user, lock, sessGc \ {s},
               userGc \cup {r.user})
      /\ ~ session_may_gc(s) => Run(Begin, session, user, lock, sessGc \ {s}, userGc)
  BY DEF GcSession, procs, Owed
<1>2. session[s] # Nil
  BY <1>1 DEF IInv, QueuesOK
<1>3. /\ r \in Session /\ r.user \in Users /\ SessionKnown(s) /\ user[r.user] \in User
      /\ user[r.user].started /\ world.userFile[r.user] # Nil /\ world.told[s] # "removed"
  BY <1>1, <1>2, KnownFacts
<1>4. TraceOK(Begin, Owed, asked, bus) /\ Begin.now = world
  BY BeginOK DEF IInv
<1>5. ProcsOK' /\ asked \subseteq asked'
  BY <1>1 DEF IInv, TypeOK, ProcsOK
<1>6. /\ world.sessionFile \in [Sessions -> SessionFile \cup {Nil}]
      /\ world.control \in [Sessions -> Clients \cup {Nil, "forgotten"}]
      /\ session \in [Sessions -> Session \cup {Nil}]
  BY GoodTyped DEF IInv, TypeOK
<1>7. CASE session_may_gc(s)
  <2>1. s \notin Owed
    BY <1>7 DEF session_may_gc, Unheld, Owed
  <2>2. /\ TraceOK(f, Owed, asked, bus)
        /\ Only(f.now, world, {"fifo", "sessionFile", "userFile"})
        /\ \A y \in Sessions \ {s} : f.now.sessionFile[y] = world.sessionFile[y]
        /\ \A x \in Users : (f.now.userFile[x] # Nil) = (world.userFile[x] # Nil)
    <3>1. CASE session_closing(r)
      BY <1>4, <3>1 DEF Only
    <3>2. CASE ~ session_closing(r)
      <4> DEFINE t == Begin
                 g == session_stop(t, s, r)
      <4>1. TraceOK(t, Owed, asked, bus) /\ t.now = world
        BY <1>4
      <4> HIDE DEF t
      <4>2. t.now.userFile[r.user] # Nil /\ t.now.told[s] # "removed"
        BY <1>3, <4>1
      <4>3. /\ TraceOK(g, Owed, asked, bus)
            /\ Only(g.now, t.now, {"fifo", "sessionFile", "userFile"})
            /\ g.now.sessionFile = IF r.started /\ ~ r.stopping
                 THEN [t.now.sessionFile EXCEPT ![s] = FileOf(session_stopped(r))]
                 ELSE t.now.sessionFile
            /\ \A x \in Users : (g.now.userFile[x] # Nil) = (t.now.userFile[x] # Nil)
        BY <1>3, <2>1, <4>1, <4>2, SessionStopped
      <4>4. f = g
        BY <3>2 DEF t
      <4> HIDE DEF f, g
      <4>5. \A y \in Sessions \ {s} : g.now.sessionFile[y] = world.sessionFile[y]
        BY <1>6, <4>1, <4>3
      <4> QED BY <4>1, <4>3, <4>4, <4>5
    <3> QED BY <3>1, <3>2
  <2> HIDE DEF f
  <2>3. /\ TraceOK(e, Owed, asked, bus)
        /\ Only(e.now, f.now, {"control", "sessionFile", "told", "userFile", "muted"})
        /\ e.now.sessionFile = [f.now.sessionFile EXCEPT ![s] = Nil]
        /\ e.now.control = [f.now.control EXCEPT ![s] = Nil]
        /\ \A x \in Users : (e.now.userFile[x] # Nil) =
             ((x = r.user /\ user[r.user].started) \/ f.now.userFile[x] # Nil)
    BY <1>3, <2>1, <2>2, SessionFinalized
  <2> HIDE DEF e
  <2>4. /\ f.now.control = world.control /\ e.now.runtimeDir = world.runtimeDir
        /\ e.now.lockFile = world.lockFile
    BY <2>2, <2>3 DEF Only
  <2>5. \/ IInv'
        \/ /\ Good(world, Owed, asked, bus)' /\ world' = e.now
           /\ UNCHANGED thread /\ session' = [session EXCEPT ![s] = Nil] /\ user' = user
           /\ lock' = lock /\ sessGc' = sessGc \ {s} /\ userGc' = userGc \cup {r.user}
    BY <1>1, <1>5, <1>7, <2>3, RunKeeps
  <2> SUFFICES ASSUME Good(world, Owed, asked, bus)', world' = e.now,
                      UNCHANGED thread, session' = [session EXCEPT ![s] = Nil],
                      user' = user, lock' = lock, sessGc' = sessGc \ {s},
                      userGc' = userGc \cup {r.user}
               PROVE  IInv'
    BY <2>5
  <2>6. f.now.sessionFile \in [Sessions -> SessionFile \cup {Nil}]
    BY <2>2, GoodTyped DEF TraceOK
  <2>7. /\ world'.sessionFile[s] = Nil
        /\ \A y \in Sessions \ {s} : world'.sessionFile[y] = world.sessionFile[y]
    BY <2>2, <2>3, <2>6
  <2>8. \A y \in Sessions \ {s} : world'.control[y] \in {world.control[y], Nil, "forgotten"}
    BY <1>6, <2>3, <2>4
  <2>9. \A x \in Users : (world'.userFile[x] # Nil) = (world.userFile[x] # Nil)
    BY <1>3, <2>2, <2>3
  <2>10. /\ world'.runtimeDir = world.runtimeDir /\ world'.lockFile = world.lockFile
    BY <2>4
  <2> QED BY <1>1, <1>2, <1>5, <2>7, <2>8, <2>9, <2>10, SessionStep
<1>8. CASE ~ session_may_gc(s)
  <2>1. \/ IInv'
        \/ /\ Good(world, Owed, asked, bus)' /\ world' = world
           /\ UNCHANGED thread /\ session' = session /\ user' = user
           /\ lock' = lock /\ sessGc' = sessGc \ {s} /\ userGc' = userGc
    BY <1>1, <1>4, <1>5, <1>8, RunKeeps
  <2> SUFFICES ASSUME Good(world, Owed, asked, bus)', world' = world,
                      UNCHANGED thread, session' = session,
                      user' = user, lock' = lock, sessGc' = sessGc \ {s},
                      userGc' = userGc
               PROVE  IInv'
    BY <2>1
  <2>2. session' = [session EXCEPT ![s] = r] /\ r # Nil
    BY <1>2, <1>6
  <2>3. SessionKnown(s)'
    BY <1>1, <1>3 DEF SessionKnown, session_closing
  <2> HIDE DEF r
  <2> QED BY <1>1, <1>2, <1>3, <1>5, <2>2, <2>3, SessionStep DEF r
<1> QED BY <1>7, <1>8

-----------------------------------------------------------------------------
(***************************************************************************)
(* Steps that concern one user                                             *)
(***************************************************************************)
\* A step that changes user u to v and nothing but its file and its directory in the
\* world keeps the invariant if they agree again, and no session is left without a user.
LEMMA UserStep ==
    ASSUME IInv, pc \in {"event", "user_stop"}, pc' = "event", cur' \in Users \cup {Nil},
           machine' = machine, UNCHANGED <<session, lock, sessGc>>,
           UNCHANGED <<alive, dropped, Owed>>, bus' = bus, asked' = asked,
           Good(world, Owed, asked, bus)',
           NEW u \in Users, NEW v \in User \cup {Nil}, user' = [user EXCEPT ![u] = v],
           v # Nil => v.started /\ world'.userFile[u] # Nil /\ world'.runtimeDir[u],
           v = Nil => world'.userFile[u] = Nil /\ sessionsOf(u) = {} /\ u \notin userGc',
           \A x \in Users \ {u} : (world'.userFile[x] # Nil) = (world.userFile[x] # Nil),
           \A x \in Users \ {u} : world'.runtimeDir[x] = world.runtimeDir[x],
           world'.sessionFile = world.sessionFile, world'.control = world.control,
           world'.lockFile = world.lockFile, userGc' \subseteq (userGc \cup {u})
    PROVE  IInv'
<1>1. /\ user \in [Users -> User \cup {Nil}] /\ user'[u] = v
      /\ \A x \in Users \ {u} : user'[x] = user[x]
  BY DEF IInv, TypeOK
<1>2. TypeOK'
  BY <1>1 DEF IInv, TypeOK, Good
<1>3. MemoryOK'
  <2>1. \A y \in Sessions : session'[y] # Nil => SessionKnown(y)'
    <3> SUFFICES ASSUME NEW y \in Sessions, session[y] # Nil
                 PROVE  SessionKnown(y)'
      BY Zenon
    <3>1. SessionKnown(y) /\ session[y].user \in Users /\ user[session[y].user] # Nil
      BY KnownFacts DEF SessionKnown
    <3>2. user'[session[y].user] # Nil
      BY <1>1, <3>1 DEF sessionsOf
    <3>3. world.runtimeDir[session[y].user] => world'.runtimeDir[session[y].user]
      BY <1>1, <3>1, <3>2
    <3> QED BY <3>1, <3>2, <3>3, KnownKept
  <2>2. \A y \in Sessions : session'[y] = Nil => world'.sessionFile[y] = Nil
    BY DEF IInv, MemoryOK
  <2>3. /\ \A x \in Users : IF user[x] = Nil THEN world.userFile[x] = Nil
                            ELSE /\ user[x].started
                                 /\ world.userFile[x] # Nil /\ world.runtimeDir[x]
        /\ \A l \in Locks : world.lockFile[l] = (l \in lock)
    BY DEF IInv, MemoryOK
  <2>4. \A x \in Users : IF user'[x] = Nil THEN world'.userFile[x] = Nil
                         ELSE /\ user'[x].started
                              /\ world'.userFile[x] # Nil /\ world'.runtimeDir[x]
    BY <1>1, <2>3
  <2>5. \A l \in Locks : world'.lockFile[l] = (l \in lock')
    BY <2>3
  <2> QED BY <2>1, <2>2, <2>4, <2>5 DEF MemoryOK
<1>4. QueuesOK'
  <2>1. \A y \in sessGc' : session'[y] # Nil
    BY DEF IInv, QueuesOK
  <2>2. \A x \in userGc' : user'[x] # Nil
    BY <1>1 DEF IInv, QueuesOK, TypeOK
  <2> QED BY <2>1, <2>2 DEF QueuesOK
<1> QED BY <1>2, <1>3, <1>4 DEF IInv

\* TerminateUser()
LEMMA TerminateUserStep ==
    ASSUME IInv, NEW u \in Users, TerminateUser(u)
    PROVE  IInv'
<1>1. /\ pc = "event" /\ sessGc = {} /\ userGc = {} /\ user[u] # Nil
      /\ pc' = "user_stop" /\ cur' = u /\ asked' = asked \cup sessionsOf(u)
      /\ machine' = machine /\ session' = session /\ user' = user /\ lock' = lock
      /\ sessGc' = sessGc /\ userGc' = userGc /\ world' = world
      /\ UNCHANGED <<alive, dropped, Owed>> /\ bus' = bus
  BY DEF TerminateUser, Idle, memory, Owed
<1>2. asked \subseteq asked' /\ asked' \subseteq Sessions
  BY <1>1 DEF IInv, TypeOK, sessionsOf
<1>3. Good(world, Owed, asked, bus)'
  <2>1. TraceOK(Begin, Owed', asked', bus') /\ Begin.now = world
    BY <1>1, <1>2, BeginAsked
  <2>2. Good(world', Owed', asked', bus')
    BY <1>1, <2>1 DEF TraceOK
  <2> QED BY <1>1, <2>2, GoodNext
<1>4. TypeOK'
  BY <1>1, <1>2 DEF IInv, TypeOK
<1>5. MemoryOK'
  <2>1. \A y \in Sessions : session'[y] # Nil => SessionKnown(y)'
    <3> SUFFICES ASSUME NEW y \in Sessions, session[y] # Nil
                 PROVE  SessionKnown(y)'
      BY <1>1, Zenon
    <3>1. SessionKnown(y) /\ user[session[y].user] # Nil
      BY <1>1, KnownFacts DEF SessionKnown
    <3> QED BY <1>1, <1>2, <3>1, KnownKept
  <2> QED BY <1>1, <2>1 DEF IInv, MemoryOK
<1>6. QueuesOK'
  BY <1>1 DEF QueuesOK, sessionsOf
<1> QED BY <1>3, <1>4, <1>5, <1>6 DEF IInv

\* user_stop() is done with the sessions.
LEMMA UserStoppedStep ==
    ASSUME IInv, UserStopped
    PROVE  IInv'
<1> DEFINE v == [user[cur] EXCEPT !.stopping = TRUE]
           e == user_save(Begin, cur, v)
<1>1. /\ pc = "user_stop" /\ machine' = machine
      /\ UNCHANGED <<alive, dropped, Owed>> /\ bus' = bus /\ asked' = asked
      /\ \/ /\ world' = e.now /\ pc' = "event" /\ cur' = Nil
            /\ user' = [user EXCEPT ![cur] = v] /\ userGc' = userGc \cup {cur}
            /\ UNCHANGED <<session, lock, sessGc>>
         \/ CrashIn(e)
  BY DEF UserStopped, procs, Owed
<1>2. cur \in Users /\ user[cur] # Nil
  BY <1>1 DEF IInv, QueuesOK
<1>3. /\ user[cur] \in User /\ user[cur].started /\ world.userFile[cur] # Nil
      /\ world.runtimeDir[cur]
  BY <1>1, <1>2 DEF IInv, TypeOK, MemoryOK
<1>4. v \in User /\ v.started /\ v # Nil
  BY <1>3, RestartAssumption DEF User
<1> HIDE DEF v
<1>5. TraceOK(Begin, Owed, asked, bus) /\ Begin.now = world
  BY BeginOK DEF IInv
<1>6. /\ TraceOK(e, Owed, asked, bus) /\ Only(e.now, world, {"userFile"})
      /\ \A x \in Users : (e.now.userFile[x] # Nil) =
                            ((x = cur /\ v.started) \/ world.userFile[x] # Nil)
  BY <1>2, <1>4, <1>5, UserSaved
<1> HIDE DEF e
<1>7. ProcsOK'
  BY <1>1 DEF IInv, TypeOK, ProcsOK
<1>8. CASE CrashIn(e)
  BY <1>1, <1>6, <1>7, <1>8, CrashKeeps
<1>9. CASE ~ CrashIn(e)
  <2>1. /\ world' = e.now /\ pc' = "event" /\ cur' = Nil
        /\ user' = [user EXCEPT ![cur] = v] /\ userGc' = userGc \cup {cur}
        /\ UNCHANGED <<session, lock, sessGc>>
    BY <1>1, <1>9
  <2>2. /\ world'.sessionFile = world.sessionFile /\ world'.control = world.control
        /\ world'.lockFile = world.lockFile /\ world'.runtimeDir = world.runtimeDir
    BY <1>6, <2>1 DEF Only
  <2>3. Good(world, Owed, asked, bus)'
    <3>1. Good(world', Owed', asked', bus')
      BY <1>1, <1>6, <2>1 DEF TraceOK
    <3> QED BY <1>1, <3>1, GoodNext
  <2>4. /\ world'.userFile[cur] # Nil
        /\ \A x \in Users : (world'.userFile[x] # Nil) = (world.userFile[x] # Nil)
    BY <1>2, <1>3, <1>6, <2>1
  <2> QED BY <1>1, <1>2, <1>3, <1>4, <2>1, <2>2, <2>3, <2>4, UserStep
<1> QED BY <1>8, <1>9

\* manager_gc() of a user: it is not there any more, or stays.
LEMMA GcUserStep ==
    ASSUME IInv, NEW u \in Users, GcUser(u)
    PROVE  IInv'
<1> DEFINE v == [user[u] EXCEPT !.stopping = TRUE]
           f == user_save(Begin, u, v)
           e == user_finalize_and_free(f, u)
           gone == sessionsOf(u) = {} /\ u \notin Lingerers
<1>1. /\ pc = "event" /\ u \in userGc /\ machine' = machine
      /\ UNCHANGED <<alive, dropped, Owed>> /\ bus' = bus /\ asked' = asked
      /\ gone => Run(e, session, [user EXCEPT ![u] = Nil], lock, sessGc, userGc \ {u})
      /\ ~ gone => Run(Begin, session, user, lock, sessGc, userGc \ {u})
  BY DEF GcUser, procs, Owed
<1>2. user[u] # Nil
  BY <1>1 DEF IInv, QueuesOK
<1>3. /\ user \in [Users -> User \cup {Nil}] /\ user[u] \in User /\ user[u].started
      /\ world.userFile[u] # Nil /\ world.runtimeDir[u]
  BY <1>1, <1>2 DEF IInv, TypeOK, MemoryOK
<1>4. v \in User
  BY <1>3 DEF User
<1>5. TraceOK(Begin, Owed, asked, bus) /\ Begin.now = world
  BY BeginOK DEF IInv
<1>6. ProcsOK'
  BY <1>1 DEF IInv, TypeOK, ProcsOK
<1>7. cur \in Users \cup {Nil} /\ world.runtimeDir \in [Users -> BOOLEAN]
  BY GoodTyped DEF IInv, TypeOK
<1>8. CASE gone
  <2> HIDE DEF v
  <2>1. /\ TraceOK(f, Owed, asked, bus) /\ Only(f.now, world, {"userFile"})
        /\ \A x \in Users : (f.now.userFile[x] # Nil) =
                              ((x = u /\ v.started) \/ world.userFile[x] # Nil)
    BY <1>4, <1>5, UserSaved
  <2> HIDE DEF f
  <2>2. /\ f.now.sessionFile = world.sessionFile /\ f.now.runtimeDir = world.runtimeDir
    BY <2>1 DEF Only
  <2>3. \A s \in Sessions : f.now.sessionFile[s] # Nil => f.now.sessionFile[s].user # u
    <3> SUFFICES ASSUME NEW s \in Sessions, world.sessionFile[s] # Nil
                 PROVE  world.sessionFile[s].user # u
      BY <2>2
    <3>1. session[s] # Nil
      BY <1>1 DEF IInv, MemoryOK
    <3>2. world.sessionFile[s].user = session[s].user
      BY <1>1, <3>1, KnownFacts
    <3> QED BY <1>8, <3>1, <3>2 DEF sessionsOf
  <2>4. /\ TraceOK(e, Owed, asked, bus) /\ Only(e.now, f.now, {"userFile", "runtimeDir"})
        /\ e.now.userFile = [f.now.userFile EXCEPT ![u] = Nil]
        /\ e.now.runtimeDir = [f.now.runtimeDir EXCEPT ![u] = FALSE]
    BY <2>1, <2>3, UserFinalized
  <2> HIDE DEF e
  <2>5. \/ IInv'
        \/ /\ Good(world, Owed, asked, bus)' /\ world' = e.now
           /\ UNCHANGED thread /\ session' = session /\ user' = [user EXCEPT ![u] = Nil]
           /\ lock' = lock /\ sessGc' = sessGc /\ userGc' = userGc \ {u}
    BY <1>1, <1>6, <1>8, <2>4, RunKeeps
  <2> SUFFICES ASSUME Good(world, Owed, asked, bus)', world' = e.now,
                      UNCHANGED thread, session' = session,
                      user' = [user EXCEPT ![u] = Nil], lock' = lock, sessGc' = sessGc,
                      userGc' = userGc \ {u}
               PROVE  IInv'
    BY <2>5
  <2>6. f.now.userFile \in [Users -> UserFile \cup {Nil}]
    BY <2>1, GoodTyped DEF TraceOK
  <2>7. /\ world'.sessionFile = world.sessionFile /\ world'.control = world.control
        /\ world'.lockFile = world.lockFile
    BY <2>1, <2>4 DEF Only
  <2>8. /\ world'.userFile[u] = Nil
        /\ \A x \in Users \ {u} : world'.userFile[x] = f.now.userFile[x]
        /\ \A x \in Users \ {u} : world'.runtimeDir[x] = world.runtimeDir[x]
    BY <1>7, <2>2, <2>4, <2>6
  <2>9. \A x \in Users \ {u} : (world'.userFile[x] # Nil) = (world.userFile[x] # Nil)
    BY <2>1, <2>8
  <2>10. pc' = "event" /\ cur' = cur
    BY <1>1 DEF thread
  <2> QED BY <1>1, <1>7, <1>8, <2>7, <2>8, <2>9, <2>10, UserStep
<1>9. CASE ~ gone
  <2>1. \/ IInv'
        \/ /\ Good(world, Owed, asked, bus)' /\ world' = world
           /\ UNCHANGED thread /\ session' = session /\ user' = user
           /\ lock' = lock /\ sessGc' = sessGc /\ userGc' = userGc \ {u}
    BY <1>1, <1>5, <1>6, <1>9, RunKeeps
  <2> SUFFICES ASSUME Good(world, Owed, asked, bus)', world' = world,
                      UNCHANGED thread, session' = session,
                      user' = user, lock' = lock, sessGc' = sessGc,
                      userGc' = userGc \ {u}
               PROVE  IInv'
    BY <2>1
  <2> DEFINE w == user[u]
  <2>2. w \in User /\ w # Nil /\ w.started /\ user' = [user EXCEPT ![u] = w]
    BY <1>2, <1>3
  <2> HIDE DEF w
  <2>3. pc' = "event" /\ cur' = cur
    BY <1>1 DEF thread
  <2> QED BY <1>1, <1>3, <1>7, <2>2, <2>3, UserStep
<1> QED BY <1>8, <1>9

\* The trace of CreateSession(): the user, the session, the FIFO, the files again, and
\* the answer.
LEMMA SessionCreated ==
    ASSUME NEW al, NEW ak, NEW b, NEW t, TraceOK(t, al, ak, b), NEW s \in Sessions,
           NEW u \in Users, NEW r \in User \cup {Nil}, NEW new \in Session,
           NEW full \in Session, new.user = u, new.started, full.user = u, full.started,
           full.fifo, ~ session_closing(full), t.now.told[s] = "nothing",
           t.now.control[s] \notin Clients
    PROVE  LET c == user_save(session_save(user_start(t, u, r), s, new), u, Running)
               e == session_send_create_reply(c, s, full)
           IN  /\ TraceOK(e, al, ak, b)
               /\ Only(e.now, t.now, {"userFile", "runtimeDir", "sessionFile", "fifo", "told"})
               /\ \A x \in Users : (e.now.userFile[x] # Nil) =
                                     (x = u \/ t.now.userFile[x] # Nil)
               /\ \A x \in Users : x # u \/ (r # Nil /\ r.started /\ ~ r.stopping) =>
                                     e.now.runtimeDir[x] = t.now.runtimeDir[x]
               /\ r = Nil \/ ~ r.started \/ r.stopping => e.now.runtimeDir[u]
               /\ e.now.sessionFile[s] = FileOf(full)
               /\ \A y \in Sessions \ {s} : e.now.sessionFile[y] = t.now.sessionFile[y]
<1> DEFINE a1 == user_start(t, u, r)
           a2 == session_save(a1, s, new)
           a3 == user_save(a2, u, Running)
           a4 == session_create_fifo(a3, s)
           a5 == session_save(a4, s, full)
           a6 == user_save(a5, u, Running)
           a7 == CreateReply(a6, s)
<1>0. Running \in User /\ Running.started
  BY DEF Running, User
<1>1. session_send_create_reply(a3, s, full) = a7
  BY DEF session_send_create_reply
<1>2. /\ TraceOK(a1, al, ak, b) /\ Only(a1.now, t.now, {"userFile", "runtimeDir"})
      /\ \A x \in Users : (a1.now.userFile[x] # Nil) = (x = u \/ t.now.userFile[x] # Nil)
      /\ \A x \in Users : x # u \/ (r # Nil /\ r.started /\ ~ r.stopping) =>
                            a1.now.runtimeDir[x] = t.now.runtimeDir[x]
      /\ r = Nil \/ ~ r.started \/ r.stopping => a1.now.runtimeDir[u]
  BY UserStarted
<1> HIDE DEF a1
<1>3. /\ a1.now.told = t.now.told /\ a1.now.control = t.now.control
      /\ a1.now.sessionFile = t.now.sessionFile
  BY <1>2 DEF Only
<1>4. Saveable(a1.now, s, new, al, ak, b)
  BY <1>2, <1>3 DEF Saveable
<1>5. /\ TraceOK(a2, al, ak, b) /\ Only(a2.now, a1.now, {"sessionFile"})
      /\ a2.now.sessionFile = [a1.now.sessionFile EXCEPT ![s] = FileOf(new)]
  BY <1>2, <1>4, SessionSaved
<1> HIDE DEF a2
<1>6. /\ TraceOK(a3, al, ak, b) /\ Only(a3.now, a2.now, {"userFile"})
      /\ \A x \in Users : (a3.now.userFile[x] # Nil) =
                            (x = u \/ a2.now.userFile[x] # Nil)
  <2>1. TraceOK(a2, al, ak, b)
    BY <1>5
  <2>2. a3 = user_save_internal(a2, u, Running)
    BY <1>0 DEF user_save
  <2> QED BY <1>0, <2>1, <2>2, UserWritten
<1> HIDE DEF a3
<1>7. TraceOK(a4, al, ak, b) /\ Only(a4.now, a3.now, {"fifo"})
  BY <1>6, FifoCreated
<1> HIDE DEF a4
<1>8. /\ a4.now.told = t.now.told /\ a4.now.control = t.now.control
      /\ a4.now.userFile = a3.now.userFile /\ a2.now.userFile = a1.now.userFile
      /\ a4.now.sessionFile = a2.now.sessionFile
      /\ a4.now.runtimeDir = a1.now.runtimeDir
  BY <1>3, <1>5, <1>6, <1>7 DEF Only
<1>9. \A x \in Users : (a4.now.userFile[x] # Nil) = (x = u \/ t.now.userFile[x] # Nil)
  BY <1>2, <1>6, <1>8
<1>10. Saveable(a4.now, s, full, al, ak, b)
  BY <1>8, <1>9 DEF Saveable
<1>11. /\ TraceOK(a5, al, ak, b) /\ Only(a5.now, a4.now, {"sessionFile"})
       /\ a5.now.sessionFile = [a4.now.sessionFile EXCEPT ![s] = FileOf(full)]
  <2>1. TraceOK(a4, al, ak, b)
    BY <1>7
  <2> QED BY <1>10, <2>1, SessionSaved
<1> HIDE DEF a5
<1>12. /\ TraceOK(a6, al, ak, b) /\ Only(a6.now, a5.now, {"userFile"})
       /\ \A x \in Users : (a6.now.userFile[x] # Nil) =
                             (x = u \/ a5.now.userFile[x] # Nil)
  <2>1. TraceOK(a5, al, ak, b)
    BY <1>11
  <2>2. a6 = user_save_internal(a5, u, Running)
    BY <1>0 DEF user_save
  <2> QED BY <1>0, <2>1, <2>2, UserWritten
<1> HIDE DEF a6
<1>13. /\ a6.now.told = t.now.told /\ a6.now.sessionFile = a5.now.sessionFile
       /\ a6.now.runtimeDir = a1.now.runtimeDir /\ a5.now.userFile = a4.now.userFile
  BY <1>8, <1>11, <1>12 DEF Only
<1>14. \A x \in Users : (a6.now.userFile[x] # Nil) = (x = u \/ t.now.userFile[x] # Nil)
  BY <1>9, <1>12, <1>13
<1>15. /\ t.now.sessionFile \in [Sessions -> SessionFile \cup {Nil}]
       /\ a4.now.sessionFile \in [Sessions -> SessionFile \cup {Nil}]
  BY <1>7, GoodTyped DEF TraceOK
<1>16. /\ a6.now.sessionFile[s] = FileOf(full)
       /\ \A y \in Sessions \ {s} : a6.now.sessionFile[y] = t.now.sessionFile[y]
  BY <1>3, <1>5, <1>8, <1>11, <1>13, <1>15
<1>17. FileOf(full) # Nil /\ FileOf(full).fifo /\ ~ FileOf(full).closing
  <2>1. FileOf(full) \in SessionFile
    BY DEF FileOf, SessionFile, Session, session_closing
  <2> QED BY <2>1, RestartAssumption DEF FileOf
<1>18. /\ TraceOK(a7, al, ak, b) /\ Only(a7.now, a6.now, {"fifo", "told"})
  BY <1>12, <1>13, <1>16, <1>17, Replied
<1> HIDE DEF a7
<1>19. Only(a7.now, t.now, {"userFile", "runtimeDir", "sessionFile", "fifo", "told"})
  BY <1>2, <1>5, <1>6, <1>7, <1>11, <1>12, <1>18 DEF Only
<1>20. /\ a7.now.userFile = a6.now.userFile /\ a7.now.runtimeDir = a1.now.runtimeDir
       /\ a7.now.sessionFile = a6.now.sessionFile
  BY <1>13, <1>18 DEF Only
<1>21. session_send_create_reply(
         user_save(session_save(user_start(t, u, r), s, new), u, Running), s, full) = a7
  BY <1>1 DEF a1, a2, a3
<1> QED BY <1>2, <1>14, <1>16, <1>18, <1>19, <1>20, <1>21

\* CreateSession()
LEMMA CreateSessionStep ==
    ASSUME IInv, NEW s \in Sessions, NEW u \in Users, CreateSession(s, u)
    PROVE  IInv'
<1> DEFINE new  == [user |-> u, started |-> TRUE, stopping |-> FALSE, timer |-> FALSE,
                    fifo |-> FALSE, controller |-> Nil, vtfd |-> FALSE]
           full == [new EXCEPT !.fifo = TRUE]
           t    == Begin
           r    == user[u]
           e    == session_send_create_reply(
                     user_save(session_save(user_start(t, u, r), s, new), u, Running),
                     s, full)
<1>1. /\ pc = "event" /\ sessGc = {} /\ userGc = {}
      /\ session[s] = Nil /\ world.sessionFile[s] = Nil /\ world.told[s] = "nothing"
      /\ machine' = machine /\ bus' = bus /\ alive' = alive \cup {s}
      /\ asked' = asked \ {s} /\ dropped' = dropped \ {s}
      /\ Run(e, [session EXCEPT ![s] = full], [user EXCEPT ![u] = Running],
             lock, sessGc, userGc)
  BY DEF CreateSession, Idle
<1>2. /\ new \in Session /\ full \in Session /\ new.user = u /\ new.started /\ full.user = u
      /\ full.started /\ full.fifo /\ ~ full.stopping /\ ~ full.timer
      /\ full.controller = Nil
  BY DEF Session
<1> HIDE DEF new, full
<1>3. ~ session_closing(full)
  BY <1>2 DEF session_closing
<1>4. /\ r \in User \cup {Nil} /\ user \in [Users -> User \cup {Nil}]
      /\ session \in [Sessions -> Session \cup {Nil}] /\ cur \in Users \cup {Nil}
      /\ ProcsOK' /\ world.sessionFile \in [Sessions -> SessionFile \cup {Nil}]
  BY <1>1, GoodTyped DEF IInv, TypeOK, ProcsOK
<1>5. TraceOK(t, Owed', asked', bus') /\ t.now = world
  <2>1. Good(world, Owed, asked, bus)
    BY DEF IInv
  <2>2. Within(world, Owed', Owed) /\ Within(world, asked, asked')
    BY <1>1 DEF Within, Owed
  <2>3. Good(world, Owed', asked', bus)
    BY <2>1, <2>2, ProcsChanged
  <2> QED BY <1>1, <2>3, BeginOK
<1> HIDE DEF t
<1>6. t.now.told[s] = "nothing" /\ t.now.control[s] \notin Clients
  <2>1. FileOK(world, s, Owed, asked, bus)
    BY DEF IInv, Good
  <2> QED BY <1>1, <1>5, <2>1 DEF FileOK
<1>7. /\ TraceOK(e, Owed', asked', bus')
      /\ Only(e.now, t.now, {"userFile", "runtimeDir", "sessionFile", "fifo", "told"})
      /\ \A x \in Users : (e.now.userFile[x] # Nil) = (x = u \/ t.now.userFile[x] # Nil)
      /\ \A x \in Users : x # u \/ (r # Nil /\ r.started /\ ~ r.stopping) =>
                            e.now.runtimeDir[x] = t.now.runtimeDir[x]
      /\ r = Nil \/ ~ r.started \/ r.stopping => e.now.runtimeDir[u]
      /\ e.now.sessionFile[s] = FileOf(full)
      /\ \A y \in Sessions \ {s} : e.now.sessionFile[y] = t.now.sessionFile[y]
  <2> HIDE DEF r
  <2> QED BY <1>2, <1>3, <1>4, <1>5, <1>6, SessionCreated
<1> HIDE DEF e
<1>8. \/ IInv'
      \/ /\ Good(world, Owed, asked, bus)' /\ world' = e.now
         /\ UNCHANGED thread /\ session' = [session EXCEPT ![s] = full]
         /\ user' = [user EXCEPT ![u] = Running]
         /\ lock' = lock /\ sessGc' = sessGc /\ userGc' = userGc
  <2> DEFINE ss == [session EXCEPT ![s] = full]
             uu == [user EXCEPT ![u] = Running]
  <2>1. Run(e, ss, uu, lock, sessGc, userGc) /\ machine' = machine
    BY <1>1
  <2>2. TraceOK(e, Owed', asked', bus') /\ ProcsOK'
    BY <1>4, <1>7
  <2> HIDE DEF ss, uu
  <2>3. \/ IInv'
        \/ /\ Good(world, Owed, asked, bus)' /\ world' = e.now
           /\ UNCHANGED thread /\ session' = ss /\ user' = uu
           /\ lock' = lock /\ sessGc' = sessGc /\ userGc' = userGc
    BY <2>1, <2>2, RunKeeps
  <2> QED BY <2>3 DEF ss, uu
<1> SUFFICES ASSUME Good(world, Owed, asked, bus)', world' = e.now,
                    UNCHANGED thread, session' = [session EXCEPT ![s] = full],
                    user' = [user EXCEPT ![u] = Running], lock' = lock,
                    sessGc' = sessGc, userGc' = userGc
             PROVE  IInv'
  BY <1>8
<1>9. Running \in User /\ Running.started /\ Running # Nil
  <2>1. Running \in User /\ Running.started
    BY DEF Running, User
  <2> QED BY <2>1, RestartAssumption
<1>10. /\ session'[s] = full /\ full # Nil
       /\ \A y \in Sessions \ {s} : session'[y] = session[y]
       /\ user'[u] = Running /\ \A x \in Users \ {u} : user'[x] = user[x]
       /\ pc' = "event" /\ cur' = cur
  BY <1>1, <1>2, <1>4, RestartAssumption DEF thread
<1>11. TypeOK'
  BY <1>1, <1>2, <1>4, <1>9, <1>10 DEF IInv, TypeOK, ProcsOK, Good
<1>12. world'.control = world.control /\ world'.lockFile = world.lockFile
  BY <1>5, <1>7 DEF Only
<1>13. /\ \A x \in Users : IF user[x] = Nil THEN world.userFile[x] = Nil
                           ELSE /\ user[x].started
                                /\ world.userFile[x] # Nil /\ world.runtimeDir[x]
       /\ \A l \in Locks : world.lockFile[l] = (l \in lock)
       /\ \A y \in Sessions : session[y] = Nil => world.sessionFile[y] = Nil
  BY <1>1 DEF IInv, MemoryOK
<1>14. /\ world'.userFile[u] # Nil /\ world'.runtimeDir[u]
       /\ \A x \in Users \ {u} : (world'.userFile[x] # Nil) = (world.userFile[x] # Nil)
       /\ \A x \in Users \ {u} : world'.runtimeDir[x] = world.runtimeDir[x]
  BY <1>5, <1>7, <1>13
<1>15. MemoryOK'
  <2>1. \A y \in Sessions : session'[y] # Nil => SessionKnown(y)'
    <3>1. SessionKnown(s)'
      <4>1. world'.sessionFile[s] = FileOf(full) /\ world'.control[s] \notin Clients
        BY <1>5, <1>6, <1>7, <1>12
      <4>2. user'[full.user] # Nil /\ world'.runtimeDir[full.user]
        BY <1>2, <1>9, <1>10, <1>14
      <4> QED BY <1>2, <1>10, <4>1, <4>2, WrittenKnown
    <3>2. ASSUME NEW y \in Sessions \ {s}, session[y] # Nil PROVE SessionKnown(y)'
      <4>1. SessionKnown(y) /\ session[y].user \in Users /\ user[session[y].user] # Nil
        BY <1>1, <3>2, KnownFacts DEF SessionKnown
      <4>2. user'[session[y].user] # Nil
        BY <1>9, <1>10, <4>1
      <4>3. world.runtimeDir[session[y].user] => world'.runtimeDir[session[y].user]
        BY <1>14, <4>1
      <4>4. session'[y] = session[y] /\ world'.sessionFile[y] = world.sessionFile[y]
            /\ world'.control[y] = world.control[y] /\ (y \in asked => y \in asked')
        BY <1>1, <1>5, <1>7, <1>10, <1>12
      <4> QED BY <4>1, <4>2, <4>3, <4>4, KnownKept
    <3> QED BY <1>10, <3>1, <3>2
  <2>2. \A y \in Sessions : session'[y] = Nil => world'.sessionFile[y] = Nil
    BY <1>5, <1>7, <1>10, <1>13
  <2>3. \A x \in Users : IF user'[x] = Nil THEN world'.userFile[x] = Nil
                         ELSE /\ user'[x].started
                              /\ world'.userFile[x] # Nil /\ world'.runtimeDir[x]
    BY <1>9, <1>10, <1>13, <1>14
  <2>4. \A l \in Locks : world'.lockFile[l] = (l \in lock')
    BY <1>12, <1>13
  <2> QED BY <1>10, <2>1, <2>2, <2>3, <2>4 DEF MemoryOK
<1>16. QueuesOK'
  BY <1>1, <1>10 DEF QueuesOK
<1> QED BY <1>11, <1>15, <1>16 DEF IInv

-----------------------------------------------------------------------------
(***************************************************************************)
(* Locks and processes                                                     *)
(***************************************************************************)
\* While the daemon serves its clients or is down, a step that leaves sessions, users
\* and their files alone keeps the invariant if the files of the locks are right.
LEMMA OtherStep ==
    ASSUME IInv, pc \in {"down", "event"}, machine' = machine,
           UNCHANGED <<thread, session, user, sessGc, userGc>>, ProcsOK', asked' = asked,
           Good(world, Owed, asked, bus)', lock' \subseteq Locks,
           Only(world', world, {"fifo", "lockFile", "lockFifo", "control"}),
           \A y \in Sessions : world'.control[y] \in {world.control[y], Nil, "forgotten"},
           pc = "down" => lock' = {},
           pc = "event" => \A l \in Locks : world'.lockFile[l] = (l \in lock')
    PROVE  IInv'
<1>1. /\ world'.sessionFile = world.sessionFile /\ world'.userFile = world.userFile
      /\ world'.runtimeDir = world.runtimeDir
  BY DEF Only
<1>2. pc' = pc /\ cur' = cur
  BY DEF thread
<1>3. TypeOK'
  BY <1>2 DEF IInv, TypeOK, ProcsOK, Good
<1>4. QueuesOK'
  BY <1>2 DEF IInv, QueuesOK
<1>5. CASE pc = "down"
  <2>1. MemoryOK'
    BY <1>2, <1>5 DEF IInv, MemoryOK
  <2> QED BY <1>3, <1>4, <2>1 DEF IInv
<1>6. CASE pc = "event"
  <2>1. \A y \in Sessions : session'[y] # Nil => SessionKnown(y)'
    <3> SUFFICES ASSUME NEW y \in Sessions, session[y] # Nil
                 PROVE  SessionKnown(y)'
      BY Zenon
    <3>1. SessionKnown(y) /\ user[session[y].user] # Nil
      BY <1>6, KnownFacts DEF SessionKnown
    <3> QED BY <1>1, <3>1, KnownKept
  <2>2. /\ \A y \in Sessions : session[y] = Nil => world.sessionFile[y] = Nil
        /\ \A x \in Users : IF user[x] = Nil THEN world.userFile[x] = Nil
                            ELSE /\ user[x].started
                                 /\ world.userFile[x] # Nil /\ world.runtimeDir[x]
    BY <1>6 DEF IInv, MemoryOK
  <2>3. MemoryOK'
    BY <1>1, <1>2, <1>6, <2>1, <2>2 DEF MemoryOK
  <2> QED BY <1>3, <1>4, <2>3 DEF IInv
<1> QED BY <1>5, <1>6

\* Inhibit()
LEMMA InhibitStep ==
    ASSUME IInv, NEW l \in Locks, Inhibit(l)
    PROVE  IInv'
<1> DEFINE f == inhibitor_create_fifo(Begin, l)
           g == inhibitor_save(f, l)
           x == [g.now EXCEPT !.lockFifo[l] = "held"]
           e == Change(g, x)
           ll == lock \cup {l}
<1>1. /\ pc = "event" /\ machine' = machine
      /\ UNCHANGED <<alive, dropped, Owed>> /\ bus' = bus
      /\ asked' = asked /\ Run(e, session, user, ll, sessGc, userGc)
  BY DEF Inhibit, Idle, procs, Owed
<1>2. TraceOK(Begin, Owed, asked, bus) /\ Begin.now = world
  BY BeginOK DEF IInv
<1>3. TraceOK(f, Owed, asked, bus) /\ Only(f.now, world, {"lockFifo"})
  BY <1>2, LockCreated
<1> HIDE DEF f
<1>4. /\ TraceOK(g, Owed, asked, bus) /\ Only(g.now, f.now, {"lockFile"})
      /\ g.now.lockFile = [f.now.lockFile EXCEPT ![l] = TRUE]
  BY <1>3, LockSaved
<1> HIDE DEF g
<1>5. g.now \in World /\ Good(g.now, Owed, asked, bus)
  BY <1>4 DEF TraceOK, Good
<1>6. /\ x \in World /\ x.lockFile = g.now.lockFile
      /\ Only(x, g.now, {"lockFile", "lockFifo"})
      /\ x.lockFifo = [g.now.lockFifo EXCEPT ![l] = "held"]
  BY <1>5 DEF World, Only, Fifo
<1> HIDE DEF x
<1>7. f.now.lockFile = world.lockFile /\ world.lockFile \in [Locks -> BOOLEAN]
  BY <1>3, GoodTyped DEF Only, IInv
<1>8. x.lockFile[l] = TRUE /\ \A k \in Locks \ {l} : x.lockFile[k] = world.lockFile[k]
  BY <1>4, <1>6, <1>7
<1>9. \A k \in Locks : LockOK(x, k)
  <2>1. g.now.lockFifo \in [Locks -> Fifo] /\ \A k \in Locks : LockOK(g.now, k)
    BY <1>5, GoodTyped DEF Good
  <2> QED BY <1>6, <1>8, <2>1 DEF LockOK
<1>10. TraceOK(e, Owed, asked, bus) /\ e.now = x
  <2>1. TraceOK(g, Owed, asked, bus) /\ x \in World
        /\ Only(x, g.now, {"lockFile", "lockFifo"})
    BY <1>4, <1>6
  <2> QED BY <1>9, <2>1, LockChanged
<1> HIDE DEF e, ll
<1>11. ProcsOK'
  BY <1>1 DEF IInv, TypeOK, ProcsOK
<1>12. \/ IInv'
       \/ /\ Good(world, Owed, asked, bus)' /\ world' = e.now
          /\ UNCHANGED thread /\ session' = session /\ user' = user
          /\ lock' = ll /\ sessGc' = sessGc /\ userGc' = userGc
  BY <1>1, <1>10, <1>11, RunKeeps
<1> SUFFICES ASSUME Good(world, Owed, asked, bus)', world' = e.now,
                    UNCHANGED thread, session' = session, user' = user,
                    lock' = ll, sessGc' = sessGc, userGc' = userGc
             PROVE  IInv'
  BY <1>12
<1>13. Only(world', world, {"fifo", "lockFile", "lockFifo", "control"})
       /\ world'.control = world.control
  BY <1>3, <1>4, <1>6, <1>10 DEF Only
<1>14. /\ lock' \subseteq Locks /\ pc = "event"
       /\ \A k \in Locks : world'.lockFile[k] = (k \in lock')
  <2>1. \A k \in Locks : world.lockFile[k] = (k \in lock)
    BY <1>1 DEF IInv, MemoryOK
  <2>2. lock' \subseteq Locks /\ l \in lock' /\ \A k \in Locks \ {l} : (k \in lock') = (k \in lock)
    BY DEF IInv, TypeOK, ll
  <2>3. world'.lockFile[l] = (l \in lock')
    BY <1>8, <1>10, <2>2
  <2>4. \A k \in Locks \ {l} : world'.lockFile[k] = (k \in lock')
    BY <1>8, <1>10, <2>1, <2>2
  <2> QED BY <1>1, <2>2, <2>3, <2>4
<1> QED BY <1>1, <1>11, <1>13, <1>14, OtherStep

\* The FIFO of a lock has no writer any more.
LEMMA LockEofStep ==
    ASSUME IInv, NEW l \in Locks, LockEof(l)
    PROVE  IInv'
<1> DEFINE e == inhibitor_stop(Begin, l)
           ll == lock \ {l}
<1>1. /\ pc = "event" /\ machine' = machine
      /\ UNCHANGED <<alive, dropped, Owed>> /\ bus' = bus
      /\ asked' = asked /\ Run(e, session, user, ll, sessGc, userGc)
  BY DEF LockEof, Idle, procs, Owed
<1>2. TraceOK(Begin, Owed, asked, bus) /\ Begin.now = world
  BY BeginOK DEF IInv
<1>3. /\ TraceOK(e, Owed, asked, bus) /\ Only(e.now, world, {"lockFile", "lockFifo"})
      /\ e.now.lockFile = [world.lockFile EXCEPT ![l] = FALSE]
  BY <1>2, LockStopped
<1> HIDE DEF e, ll
<1>4. ProcsOK'
  BY <1>1 DEF IInv, TypeOK, ProcsOK
<1>5. \/ IInv'
      \/ /\ Good(world, Owed, asked, bus)' /\ world' = e.now
         /\ UNCHANGED thread /\ session' = session /\ user' = user
         /\ lock' = ll /\ sessGc' = sessGc /\ userGc' = userGc
  BY <1>1, <1>3, <1>4, RunKeeps
<1> SUFFICES ASSUME Good(world, Owed, asked, bus)', world' = e.now,
                    UNCHANGED thread, session' = session, user' = user,
                    lock' = ll, sessGc' = sessGc, userGc' = userGc
             PROVE  IInv'
  BY <1>5
<1>6. Only(world', world, {"fifo", "lockFile", "lockFifo", "control"})
      /\ world'.control = world.control
  BY <1>3 DEF Only
<1>7. /\ lock' \subseteq Locks /\ pc = "event"
      /\ \A k \in Locks : world'.lockFile[k] = (k \in lock')
  <2>1. \A k \in Locks : world.lockFile[k] = (k \in lock)
    BY <1>1 DEF IInv, MemoryOK
  <2>2. world.lockFile \in [Locks -> BOOLEAN]
    BY GoodTyped DEF IInv
  <2>3. world'.lockFile[l] = FALSE /\ \A k \in Locks \ {l} : world'.lockFile[k] = world.lockFile[k]
    BY <1>3, <2>2
  <2>4. lock' \subseteq Locks /\ l \notin lock' /\ \A k \in Locks \ {l} : (k \in lock') = (k \in lock)
    BY DEF IInv, TypeOK, ll
  <2>5. world'.lockFile[l] = (l \in lock')
    <3>1. (l \in lock') = FALSE
      BY <2>4
    <3> QED BY <2>3, <3>1, Zenon
  <2>6. \A k \in Locks \ {l} : world'.lockFile[k] = (k \in lock')
    BY <2>1, <2>3, <2>4
  <2> QED BY <1>1, <2>4, <2>5, <2>6
<1> QED BY <1>1, <1>4, <1>6, <1>7, OtherStep

\* What a lock is depends on where the daemon is.
LEMMA LocksThen ==
    ASSUME IInv
    PROVE  /\ lock \subseteq Locks
           /\ pc = "down" => lock = {}
           /\ pc = "event" => \A l \in Locks : world.lockFile[l] = (l \in lock)
BY DEF IInv, TypeOK, MemoryOK

\* A leader dies.
LEMMA LeaderDiesStep ==
    ASSUME IInv, NEW s \in Sessions, LeaderDies(s)
    PROVE  IInv'
<1>1. /\ pc \in {"down", "event"} /\ machine' = machine /\ alive' = alive \ {s}
      /\ UNCHANGED <<thread, session, user, sessGc, userGc>> /\ lock' = lock
      /\ world' = world /\ bus' = bus /\ asked' = asked /\ dropped' = dropped
  BY DEF LeaderDies, Idle, memory
<1>2. Good(world, Owed, asked, bus)'
  <2>1. Good(world, Owed, asked, bus) /\ Within(world, Owed', Owed)
        /\ Within(world, asked, asked')
    BY <1>1 DEF IInv, Within, Owed
  <2>2. Good(world, Owed', asked', bus)
    BY <2>1, ProcsChanged
  <2>3. Good(world', Owed', asked', bus')
    BY <1>1, <2>2
  <2> QED BY <1>1, <2>3, GoodNext
<1>3. ProcsOK' /\ Only(world', world, {"fifo", "lockFile", "lockFifo", "control"})
  BY <1>1 DEF IInv, TypeOK, ProcsOK, Only
<1> QED BY <1>1, <1>2, <1>3, LocksThen, OtherStep

\* The FIFO of a session loses its last writer.
LEMMA FifoWriterGoneStep ==
    ASSUME IInv, NEW s \in Sessions, FifoWriterGone(s)
    PROVE  IInv'
<1> DEFINE x == [world EXCEPT !.fifo[s] = "idle"]
<1>1. /\ pc \in {"down", "event"} /\ machine' = machine /\ UNCHANGED <<alive, dropped, Owed>>
      /\ UNCHANGED <<thread, session, user, sessGc, userGc>> /\ lock' = lock
      /\ world' = x /\ bus' = bus /\ asked' = asked
  BY DEF FifoWriterGone, Idle, memory, procs, Owed
<1>2. world \in World /\ world.fifo \in [Sessions -> Fifo]
  BY GoodTyped DEF IInv
<1>3. x \in World /\ Only(x, world, {"fifo"}) /\ x.fifo = [world.fifo EXCEPT ![s] = "idle"]
  BY <1>2 DEF World, Only, Fifo
<1> HIDE DEF x
<1>4. \A y \in Sessions : x.fifo[y] = "held" => world.fifo[y] = "held"
  BY <1>2, <1>3
<1>5. TraceOK(Begin, Owed, asked, bus) /\ Begin.now = world
  BY BeginOK DEF IInv
<1>6. x \in World /\ Only(x, Begin.now, {"fifo"})
      /\ \A y \in Sessions : x.fifo[y] = "held" => Begin.now.fifo[y] = "held"
  BY <1>3, <1>4, <1>5
<1>7. TraceOK(Change(Begin, x), Owed, asked, bus) /\ Change(Begin, x).now = x
  BY <1>5, <1>6, FifoChanged
<1>8. Good(world', Owed', asked', bus')
  BY <1>1, <1>7 DEF TraceOK
<1>9. Good(world, Owed, asked, bus)'
  BY <1>1, <1>8, GoodNext
<1>10. /\ Only(world', world, {"fifo", "lockFile", "lockFifo", "control"})
       /\ world'.lockFile = world.lockFile /\ world'.control = world.control
  BY <1>1, <1>3 DEF Only
<1>11. ProcsOK'
  BY <1>1 DEF IInv, TypeOK, ProcsOK
<1> QED BY <1>1, <1>9, <1>10, <1>11, LocksThen, OtherStep

\* The FIFO of a lock loses its last writer.
LEMMA LockDroppedStep ==
    ASSUME IInv, NEW l \in Locks, LockDropped(l)
    PROVE  IInv'
<1> DEFINE x == [world EXCEPT !.lockFifo[l] = "idle"]
<1>1. /\ pc \in {"down", "event"} /\ machine' = machine /\ UNCHANGED <<alive, dropped, Owed>>
      /\ UNCHANGED <<thread, session, user, sessGc, userGc>> /\ lock' = lock
      /\ world' = x /\ bus' = bus /\ asked' = asked
  BY DEF LockDropped, Idle, memory, procs, Owed
<1>2. world \in World /\ world.lockFifo \in [Locks -> Fifo]
  BY GoodTyped DEF IInv
<1>3. /\ x \in World /\ Only(x, world, {"lockFile", "lockFifo"})
      /\ x.lockFifo = [world.lockFifo EXCEPT ![l] = "idle"] /\ x.lockFile = world.lockFile
  BY <1>2 DEF World, Only, Fifo
<1> HIDE DEF x
<1>4. \A k \in Locks : LockOK(x, k)
  <2>1. \A k \in Locks : LockOK(world, k)
    BY DEF IInv, Good
  <2> QED BY <1>2, <1>3, <2>1 DEF LockOK
<1>5. TraceOK(Begin, Owed, asked, bus) /\ Begin.now = world
  BY BeginOK DEF IInv
<1>6. x \in World /\ Only(x, Begin.now, {"lockFile", "lockFifo"})
  BY <1>3, <1>5
<1>7. TraceOK(Change(Begin, x), Owed, asked, bus) /\ Change(Begin, x).now = x
  BY <1>4, <1>5, <1>6, LockChanged
<1>8. Good(world', Owed', asked', bus')
  BY <1>1, <1>7 DEF TraceOK
<1>9. Good(world, Owed, asked, bus)'
  BY <1>1, <1>8, GoodNext
<1>10. /\ Only(world', world, {"fifo", "lockFile", "lockFifo", "control"})
       /\ world'.lockFile = world.lockFile /\ world'.control = world.control
  BY <1>1, <1>3 DEF Only
<1>11. ProcsOK'
  BY <1>1 DEF IInv, TypeOK, ProcsOK
<1> QED BY <1>1, <1>9, <1>10, <1>11, LocksThen, OtherStep

\* A client leaves the bus.
LEMMA DisconnectStep ==
    ASSUME IInv, NEW c \in Clients, Disconnect(c)
    PROVE  IInv'
<1> DEFINE h == [s \in Sessions |-> IF world.control[s] = c THEN Nil ELSE world.control[s]]
           x == [world EXCEPT !.control = h]
<1>1. /\ pc \in {"down", "event"} /\ machine' = machine /\ UNCHANGED <<alive, dropped, Owed>>
      /\ UNCHANGED <<thread, session, user, sessGc, userGc>> /\ lock' = lock
      /\ world' = x /\ bus' = bus \ {c} /\ asked' = asked
  BY DEF Disconnect, Idle, memory, Owed
<1>2. world \in World /\ world.control \in [Sessions -> Clients \cup {Nil, "forgotten"}]
  BY GoodTyped DEF IInv
<1>3. h \in [Sessions -> Clients \cup {Nil, "forgotten"}]
  BY <1>2
<1>4. \A s \in Sessions : h[s] \in {world.control[s], Nil} /\ (h[s] # c \/ h[s] = Nil)
  BY <1>2
<1> HIDE DEF h
<1>5. x \in World /\ Only(x, world, {"control"}) /\ x.control = h
  BY <1>2, <1>3 DEF World, Only
<1> HIDE DEF x
<1>6. /\ x.sessionFile = world.sessionFile /\ x.told = world.told /\ x.fifo = world.fifo
      /\ x.lockFile = world.lockFile
      /\ x.lockFifo = world.lockFifo /\ x.userFile = world.userFile
  BY <1>5 DEF Only
<1>7. ASSUME NEW s \in Sessions PROVE FileOK(x, s, Owed, asked, bus')
  <2>1. FileOK(world, s, Owed, asked, bus)
    BY DEF IInv, Good
  <2>2. x.control[s] \in Clients => x.control[s] = world.control[s] /\ x.control[s] # c
    BY <1>4, <1>5, RestartAssumption
  <2> QED BY <1>1, <1>6, <2>1, <2>2 DEF FileOK
<1>8. Good(world', Owed', asked', bus')
  <2>1. \A l \in Locks : LockOK(x, l)
    BY <1>6 DEF IInv, Good, LockOK
  <2>2. \A s \in Sessions : FileOK(x, s, Owed, asked, bus')
    BY <1>7, Zenon
  <2>3. Good(x, Owed, asked, bus')
    BY <1>5, <2>1, <2>2, Zenon DEF Good
  <2> QED BY <1>1, <2>3
<1>9. Good(world, Owed, asked, bus)'
  BY <1>1, <1>8, GoodNext
<1>10. /\ Only(world', world, {"fifo", "lockFile", "lockFifo", "control"})
       /\ world'.lockFile = world.lockFile
       /\ \A y \in Sessions : world'.control[y] \in {world.control[y], Nil, "forgotten"}
  BY <1>1, <1>4, <1>5 DEF Only
<1>11. ProcsOK'
  BY <1>1 DEF IInv, TypeOK, ProcsOK
<1> QED BY <1>1, <1>9, <1>10, <1>11, LocksThen, OtherStep

-----------------------------------------------------------------------------
(***************************************************************************)
(* The end of the daemon                                                   *)
(***************************************************************************)
\* The daemon is killed.
LEMMA CrashStep ==
    ASSUME IInv, Crash
    PROVE  IInv'
<1>1. /\ Down /\ machine' = machine /\ world' = world
      /\ UNCHANGED <<alive, dropped, Owed>> /\ bus' = bus
      /\ asked' = asked
  BY DEF Crash, procs, Owed
<1>2. Good(world', Owed', asked', bus') /\ ProcsOK'
  BY <1>1 DEF IInv, TypeOK, ProcsOK
<1> QED BY <1>1, <1>2, DownKeeps

\* manager_free() begins.
LEMMA ExitStep ==
    ASSUME IInv, Exit
    PROVE  IInv'
<1>1. /\ pc = "event" /\ sessGc = {} /\ userGc = {} /\ pc' = "exiting"
      /\ UNCHANGED <<machine, cur, session, user, lock, sessGc, userGc, world,
                     alive, bus, asked, dropped, Owed>>
  BY DEF Exit, Idle, memory, procs, Owed
<1>2. Good(world', Owed', asked', bus')
  BY <1>1 DEF IInv
<1>3. Good(world, Owed, asked, bus)'
  BY <1>1, <1>2, GoodNext
<1>4. TypeOK' /\ QueuesOK'
  BY <1>1 DEF IInv, TypeOK, QueuesOK
<1>5. MemoryOK'
  <2>1. \A s \in Sessions : session[s] # Nil => SessionKnown(s)
    BY <1>1 DEF IInv, MemoryOK
  <2>2. \A s \in Sessions : session'[s] # Nil => SessionKnown(s)'
    BY <1>1, <2>1 DEF SessionKnown, session_closing
  <2> QED BY <1>1, <2>2 DEF MemoryOK
<1> QED BY <1>3, <1>4, <1>5 DEF IInv

\* A step of manager_free() keeps the invariant if what sessions are left are known.
LEMMA ExitingStep ==
    ASSUME IInv, pc = "exiting", machine' = machine, UNCHANGED <<thread, lock, sessGc, userGc>>,
           UNCHANGED <<alive, dropped, Owed>>
           , bus' = bus, asked' = asked, Good(world, Owed, asked, bus)',
           session' \in [Sessions -> Session \cup {Nil}], user' \in [Users -> User \cup {Nil}],
           \A y \in Sessions : session'[y] # Nil => SessionKnown(y)'
    PROVE  IInv'
<1>1. pc' = pc /\ cur' = cur
  BY DEF thread
<1>2. TypeOK'
  BY <1>1 DEF IInv, TypeOK, Good
<1>3. MemoryOK' /\ QueuesOK'
  BY <1>1 DEF IInv, MemoryOK, QueuesOK
<1> QED BY <1>2, <1>3 DEF IInv

\* session_free() in manager_free()
LEMMA ExitSessionStep ==
    ASSUME IInv, NEW s \in Sessions, ExitSession(s)
    PROVE  IInv'
<1> DEFINE t == Forget(Begin, s)
           e == session_drop_controller(t, s, session[s])
           ss == [session EXCEPT ![s] = Nil]
<1>1. /\ pc = "exiting" /\ session[s] # Nil /\ machine' = machine
      /\ UNCHANGED <<alive, dropped, Owed>> /\ bus' = bus /\ asked' = asked
      /\ Run(e, ss, user, lock, sessGc, userGc)
  BY DEF ExitSession, RunSession, procs, Owed
<1>2. /\ session \in [Sessions -> Session \cup {Nil}] /\ user \in [Users -> User \cup {Nil}]
      /\ world.sessionFile \in [Sessions -> SessionFile \cup {Nil}]
      /\ world.control \in [Sessions -> Clients \cup {Nil, "forgotten"}]
  BY GoodTyped DEF IInv, TypeOK
<1>3. /\ TraceOK(e, Owed, asked, bus)
      /\ Only(e.now, world, {"control", "sessionFile", "muted"})
      /\ \A y \in Sessions \ {s} : e.now.sessionFile[y] = world.sessionFile[y]
      /\ \A y \in Sessions \ {s} : e.now.control[y] = world.control[y]
  <2>1. TraceOK(Begin, Owed, asked, bus) /\ Begin.now = world
    BY BeginOK DEF IInv
  <2>2. /\ TraceOK(t, Owed, asked, bus) /\ Only(t.now, world, {"control"})
        /\ t.now.control[s] \notin Clients
        /\ \A y \in Sessions \ {s} : t.now.control[y] = world.control[y]
    <3>1. CASE world.control[s] \in Clients
      <4> DEFINE v == Change(Begin, [Begin.now EXCEPT !.control[s] = "forgotten"])
      <4>1. t = v
        BY <2>1, <3>1 DEF Forget
      <4>2. /\ TraceOK(v, Owed, asked, bus) /\ Only(v.now, Begin.now, {"control"})
            /\ v.now.control = [Begin.now.control EXCEPT ![s] = "forgotten"]
        <5>1. Unclaimed("forgotten")
          BY DEF Unclaimed
        <5> QED BY <2>1, <5>1, ControlLost
      <4> HIDE DEF v, t
      <4>3. /\ v.now.control[s] = "forgotten"
            /\ \A y \in Sessions \ {s} : v.now.control[y] = world.control[y]
        BY <1>2, <2>1, <4>2
      <4> QED BY <2>1, <4>1, <4>2, <4>3, RestartAssumption
    <3>2. CASE world.control[s] \notin Clients
      BY <2>1, <3>2 DEF Forget, Only
    <3> QED BY <3>1, <3>2
  <2> HIDE DEF t
  <2>3. /\ TraceOK(e, Owed, asked, bus)
        /\ Only(e.now, world, {"control", "sessionFile", "muted"})
        /\ e.now.control = t.now.control
        /\ e.now.sessionFile = IF session[s].started /\ session[s].controller # Nil
             THEN [world.sessionFile EXCEPT ![s] = FileOf(controller_dropped(session[s]))]
             ELSE world.sessionFile
    BY <1>1, <2>2, DropUnclaimed
  <2> HIDE DEF e
  <2> QED BY <1>2, <2>2, <2>3
<1> HIDE DEF e
<1>4. /\ ss \in [Sessions -> Session \cup {Nil}] /\ ss[s] = Nil
      /\ \A y \in Sessions \ {s} : ss[y] = session[y]
  BY <1>2
<1> HIDE DEF ss
<1>5. ProcsOK'
  BY <1>1 DEF IInv, TypeOK, ProcsOK
<1>6. \/ IInv'
      \/ /\ Good(world, Owed, asked, bus)' /\ world' = e.now
         /\ UNCHANGED thread /\ session' = ss /\ user' = user
         /\ lock' = lock /\ sessGc' = sessGc /\ userGc' = userGc
  BY <1>1, <1>3, <1>5, RunKeeps
<1> SUFFICES ASSUME Good(world, Owed, asked, bus)', world' = e.now,
                    UNCHANGED thread, session' = ss, user' = user,
                    lock' = lock, sessGc' = sessGc, userGc' = userGc
             PROVE  IInv'
  BY <1>6
<1>7. ASSUME NEW y \in Sessions, session'[y] # Nil PROVE SessionKnown(y)'
  <2>1. y # s /\ session'[y] = session[y]
    BY <1>4, <1>7
  <2>2. SessionKnown(y) /\ user[session[y].user] # Nil
    BY <1>1, <1>7, <2>1, KnownFacts DEF SessionKnown
  <2>3. world'.runtimeDir = world.runtimeDir
    BY <1>3 DEF Only
  <2>4. world'.sessionFile[y] = world.sessionFile[y] /\ world'.control[y] = world.control[y]
    BY <1>3, <2>1
  <2> QED BY <1>1, <2>1, <2>2, <2>3, <2>4, KnownKept
<1>8. \A y \in Sessions : session'[y] # Nil => SessionKnown(y)'
  BY <1>7, Zenon
<1> QED BY <1>1, <1>2, <1>4, <1>8, ExitingStep

\* user_free() in manager_free()
LEMMA ExitUserStep ==
    ASSUME IInv, NEW u \in Users, ExitUser(u)
    PROVE  IInv'
<1> DEFINE x == [world EXCEPT !.runtimeDir[u] = FALSE]
           e == Change(Begin, x)
           uu == [user EXCEPT ![u] = Nil]
<1>1. /\ pc = "exiting" /\ machine' = machine /\ UNCHANGED <<alive, dropped, Owed>>
      /\ bus' = bus /\ asked' = asked /\ Run(e, session, uu, lock, sessGc, userGc)
      /\ \A s \in Sessions : session[s] = Nil
  BY DEF ExitUser, procs, Owed
<1>2. /\ session \in [Sessions -> Session \cup {Nil}] /\ user \in [Users -> User \cup {Nil}]
      /\ world \in World
  BY DEF IInv, TypeOK
<1>3. x \in World /\ Only(x, world, {"runtimeDir", "muted"})
  BY <1>2 DEF World, Only
<1> HIDE DEF x
<1>4. TraceOK(Begin, Owed, asked, bus) /\ Begin.now = world
  BY BeginOK DEF IInv
<1>5. TraceOK(e, Owed, asked, bus)
  BY <1>3, <1>4, Unpromised
<1>6. uu \in [Users -> User \cup {Nil}]
  BY <1>2
<1> HIDE DEF e, uu
<1>7. ProcsOK'
  BY <1>1 DEF IInv, TypeOK, ProcsOK
<1>8. \/ IInv'
      \/ /\ Good(world, Owed, asked, bus)' /\ world' = e.now
         /\ UNCHANGED thread /\ session' = session /\ user' = uu
         /\ lock' = lock /\ sessGc' = sessGc /\ userGc' = userGc
  BY <1>1, <1>5, <1>7, RunKeeps
<1> QED BY <1>1, <1>2, <1>6, <1>8, ExitingStep

-----------------------------------------------------------------------------
(***************************************************************************)
(* The start of the daemon                                                 *)
(***************************************************************************)
\* A user in manager_startup(): what has no object has no file, and what is started has
\* a file and a directory.
UserLoaded(u) ==
    /\ user[u] = Nil => world.userFile[u] = Nil
    /\ user[u] # Nil /\ user[u].started =>
         ~ user[u].stopping /\ world.userFile[u] # Nil /\ world.runtimeDir[u]

SessionThere(s) ==
    IF session[s] = Nil THEN world.sessionFile[s] = Nil ELSE SessionLoaded(s)

\* The parts of the invariant in manager_startup().
LEMMA LoadedFacts ==
    ASSUME IInv, pc = "starting"
    PROVE  /\ \A s \in Sessions : SessionThere(s)
           /\ \A u \in Users : UserLoaded(u)
           /\ \A l \in lock : world.lockFile[l]
           /\ session \in [Sessions -> Session \cup {Nil}]
           /\ user \in [Users -> User \cup {Nil}] /\ lock \subseteq Locks
           /\ TraceOK(Begin, Owed, asked, bus) /\ Begin.now = world
           /\ \A s \in Sessions : FileOK(world, s, Owed, asked, bus)
           /\ world.sessionFile \in [Sessions -> SessionFile \cup {Nil}]
           /\ world.runtimeDir \in [Users -> BOOLEAN]
           /\ world.lockFile \in [Locks -> BOOLEAN]
           /\ ProcsOK
<1>1. \A u \in Users : UserLoaded(u)
  BY DEF IInv, MemoryOK, UserLoaded
<1>2. \A s \in Sessions : SessionThere(s)
  BY Zenon DEF IInv, MemoryOK, SessionThere
<1>3. \A l \in lock : world.lockFile[l]
  BY DEF IInv, MemoryOK
<1>4. /\ session \in [Sessions -> Session \cup {Nil}]
      /\ user \in [Users -> User \cup {Nil}] /\ lock \subseteq Locks
      /\ ProcsOK
  BY DEF IInv, TypeOK, ProcsOK
<1>5. TraceOK(Begin, Owed, asked, bus) /\ Begin.now = world
  BY BeginOK DEF IInv
<1>6. \A s \in Sessions : FileOK(world, s, Owed, asked, bus)
  BY Zenon DEF IInv, Good
<1>7. /\ world.sessionFile \in [Sessions -> SessionFile \cup {Nil}]
      /\ world.runtimeDir \in [Users -> BOOLEAN]
      /\ world.lockFile \in [Locks -> BOOLEAN]
  BY GoodTyped DEF IInv
<1> QED BY <1>1, <1>2, <1>3, <1>4, <1>5, <1>6, <1>7

\* A session that was loaded stays so as long as it and its file do, and its user is
\* there.
LEMMA ThereKept ==
    ASSUME NEW s \in Sessions, SessionThere(s), session'[s] = session[s], bus' = bus,
           world'.sessionFile[s] = world.sessionFile[s],
           session[s] # Nil => user'[session[s].user] # Nil,
           session[s] # Nil /\ user[session[s].user].started =>
             user'[session[s].user].started
    PROVE  SessionThere(s)'
BY DEF SessionThere, SessionLoaded, load_controller

\* A step of manager_startup() keeps the invariant if objects and files agree again.
LEMMA StartingStep ==
    ASSUME IInv, pc = "starting", machine' = machine, UNCHANGED <<thread, sessGc, userGc>>,
           alive' = alive, dropped' \in {dropped} \cup SUBSET Sessions, bus' = bus,
           asked' = asked, Good(world, Owed, asked, bus)',
           session' \in [Sessions -> Session \cup {Nil}],
           user' \in [Users -> User \cup {Nil}], lock' \subseteq Locks,
           \A s \in Sessions : SessionThere(s)',
           \A u \in Users : UserLoaded(u)',
           \A l \in lock' : world'.lockFile[l]
    PROVE  IInv'
<1>1. pc' = pc /\ cur' = cur
  BY DEF thread
<1>2. TypeOK'
  BY <1>1 DEF IInv, TypeOK, Good
<1>3. MemoryOK'
  BY <1>1 DEF MemoryOK, UserLoaded, SessionThere
<1>4. QueuesOK'
  BY <1>1 DEF IInv, QueuesOK
<1> QED BY <1>2, <1>3, <1>4 DEF IInv

\* manager_startup() reads the files.
LEMMA StartupStep ==
    ASSUME IInv, Startup
    PROVE  IInv'
<1>1. /\ pc = "down" /\ pc' = "starting" /\ machine' = machine
      /\ UNCHANGED <<cur, lock, sessGc, userGc, world, alive, bus, asked, dropped, Owed>>
      /\ session' = [s \in Sessions |-> IF world.sessionFile[s] # Nil
                                        THEN session_load(s) ELSE Nil]
      /\ user' = [u \in Users |-> IF u \in LoadedUsers THEN user_load(u) ELSE Nil]
  BY DEF Startup, procs, Owed
<1>2. Good(world, Owed, asked, bus) /\ \A s \in Sessions : FileOK(world, s, Owed, asked, bus)
  BY DEF IInv, Good
<1>3. Good(world, Owed, asked, bus)'
  <2>1. Good(world', Owed', asked', bus')
    BY <1>1, <1>2
  <2> QED BY <1>1, <2>1, GoodNext
<1>4. /\ world.sessionFile \in [Sessions -> SessionFile \cup {Nil}]
      /\ world.userFile \in [Users -> UserFile \cup {Nil}]
      /\ lock = {} /\ bus \subseteq Clients
  BY <1>1, <1>2, GoodTyped DEF IInv, TypeOK, MemoryOK
<1>5. ASSUME NEW s \in Sessions, world.sessionFile[s] # Nil
      PROVE  /\ session'[s] = session_load(s) /\ session_load(s) \in Session
             /\ SessionLoaded(s)'
  <2> DEFINE f == world.sessionFile[s]
             r == session_load(s)
  <2>1. /\ f \in SessionFile /\ f.user \in Users /\ f.closing \in BOOLEAN
        /\ f.fifo \in BOOLEAN /\ f.controller \in Clients \cup {Nil}
    BY <1>4, <1>5 DEF SessionFile
  <2>2. load_controller(f.controller) \in Clients \cup {Nil}
    BY <2>1 DEF load_controller
  <2>3. /\ r \in Session /\ r.user = f.user /\ ~ r.started /\ r.stopping = f.closing
        /\ ~ r.timer /\ r.fifo = f.fifo /\ r.controller = load_controller(f.controller)
    BY <2>1, <2>2 DEF session_load, Session
  <2>4. session'[s] = r
    BY <1>1, <1>5
  <2>5. user'[f.user] # Nil
    <3>1. world.userFile[f.user] # Nil
      BY <1>2, <1>5 DEF FileOK
    <3>2. user'[f.user] = user_load(f.user)
      BY <1>1, <2>1, <3>1 DEF LoadedUsers, UsersWithFile
    <3>3. user_load(f.user) \in User
      BY <1>4, <2>1, <3>1 DEF user_load, User, UserFile, UsersWithFile
    <3> QED BY <3>2, <3>3, RestartAssumption
  <2>6. load_controller(f.controller)' = load_controller(f.controller)
    BY <1>1 DEF load_controller
  <2> HIDE DEF r
  <2> QED BY <1>1, <1>5, <2>3, <2>4, <2>5, <2>6 DEF SessionLoaded, r
<1>6. \A s \in Sessions : world.sessionFile[s] = Nil => session'[s] = Nil
  BY <1>1
<1>7. ASSUME NEW u \in Users PROVE user'[u] \in User \cup {Nil} /\ UserLoaded(u)'
  <2>1. CASE u \in LoadedUsers
    <3>1. user_load(u) \in User /\ ~ user_load(u).started
      BY <1>4 DEF user_load, User, UserFile, UsersWithFile
    <3>2. user'[u] = user_load(u) /\ user'[u] # Nil
      BY <1>1, <2>1, <3>1, RestartAssumption
    <3> QED BY <3>1, <3>2 DEF UserLoaded
  <2>2. CASE u \notin LoadedUsers
    <3>1. user'[u] = Nil /\ world.userFile[u] = Nil
      BY <1>1, <2>2 DEF LoadedUsers, UsersWithFile
    <3> QED BY <1>1, <3>1 DEF UserLoaded
  <2> QED BY <2>1, <2>2
<1>8. ASSUME NEW s \in Sessions PROVE SessionThere(s)'
  <2>1. CASE world.sessionFile[s] # Nil
    <3>1. session'[s] # Nil /\ SessionLoaded(s)'
      BY <1>5, <2>1, RestartAssumption
    <3> QED BY <3>1 DEF SessionThere
  <2>2. CASE world.sessionFile[s] = Nil
    BY <1>1, <1>6, <2>2 DEF SessionThere
  <2> QED BY <2>1, <2>2
<1>9. TypeOK'
  <2>1. \A s \in Sessions : session'[s] \in Session \cup {Nil}
    BY <1>5, <1>6
  <2>2. session' \in [Sessions -> Session \cup {Nil}]
    BY <1>1, <2>1
  <2>3. user' \in [Users -> User \cup {Nil}]
    BY <1>1, <1>7
  <2> QED BY <1>1, <2>2, <2>3 DEF IInv, TypeOK
<1>10. MemoryOK'
  <2>1. \A s \in Sessions : IF session'[s] = Nil THEN world'.sessionFile[s] = Nil
                            ELSE SessionLoaded(s)'
    BY <1>8 DEF SessionThere
  <2>2. \A u \in Users : UserLoaded(u)'
    BY <1>7, Zenon
  <2> QED BY <1>1, <1>4, <2>1, <2>2 DEF MemoryOK, UserLoaded
<1>11. QueuesOK'
  BY <1>1 DEF IInv, QueuesOK
<1> QED BY <1>3, <1>9, <1>10, <1>11 DEF IInv

\* session_load() makes a FIFO.
LEMMA LoadFifoStep ==
    ASSUME IInv, NEW s \in Sessions, LoadFifo(s)
    PROVE  IInv'
<1> DEFINE e == session_create_fifo(Begin, s)
           ss == [session EXCEPT ![s] = session[s]]
<1>1. /\ pc = "starting" /\ machine' = machine /\ UNCHANGED <<alive, dropped, Owed>>
      /\ bus' = bus /\ asked' = asked /\ Run(e, ss, user, lock, sessGc, userGc)
  BY DEF LoadFifo, RunSession, procs, Owed
<1>2. TraceOK(e, Owed, asked, bus) /\ Only(e.now, world, {"fifo"})
  BY <1>1, LoadedFacts, FifoCreated
<1>3. ss = session
  BY <1>1, LoadedFacts
<1>4. ProcsOK'
  BY <1>1, LoadedFacts DEF ProcsOK
<1> HIDE DEF e, ss
<1>5. \/ IInv'
      \/ /\ Good(world, Owed, asked, bus)' /\ world' = e.now
         /\ UNCHANGED thread /\ session' = ss /\ user' = user
         /\ lock' = lock /\ sessGc' = sessGc /\ userGc' = userGc
  BY <1>1, <1>2, <1>4, RunKeeps
<1> SUFFICES ASSUME Good(world, Owed, asked, bus)', world' = e.now,
                    UNCHANGED thread, session' = ss, user' = user,
                    lock' = lock, sessGc' = sessGc, userGc' = userGc
             PROVE  IInv'
  BY <1>5
<1>6. /\ world'.sessionFile = world.sessionFile /\ world'.userFile = world.userFile
      /\ world'.runtimeDir = world.runtimeDir /\ world'.lockFile = world.lockFile
  BY <1>2 DEF Only
<1>7. \A y \in Sessions : SessionThere(y)'
  <2> SUFFICES ASSUME NEW y \in Sessions PROVE SessionThere(y)'
    BY Zenon
  <2>1. SessionThere(y)
    BY <1>1, LoadedFacts
  <2> QED BY <1>1, <1>3, <1>6, <2>1, ThereKept DEF SessionThere, SessionLoaded
<1>8. \A u \in Users : UserLoaded(u)'
  <2>1. \A u \in Users : UserLoaded(u)
    BY <1>1, LoadedFacts
  <2> QED BY <1>6, <2>1 DEF UserLoaded
<1> QED BY <1>1, <1>3, <1>6, <1>7, <1>8, LoadedFacts, StartingStep

\* inhibitor_load() makes a FIFO.
LEMMA LoadLockStep ==
    ASSUME IInv, NEW l \in Locks, LoadLock(l)
    PROVE  IInv'
<1> DEFINE e == inhibitor_create_fifo(Begin, l)
<1>1. /\ pc = "starting" /\ machine' = machine /\ UNCHANGED <<alive, dropped, Owed>>
      /\ bus' = bus /\ asked' = asked /\ Run(e, session, user, lock, sessGc, userGc)
  BY DEF LoadLock, procs, Owed
<1>2. TraceOK(e, Owed, asked, bus) /\ Only(e.now, world, {"lockFifo"})
  BY <1>1, LoadedFacts, LockCreated
<1>3. ProcsOK'
  BY <1>1, LoadedFacts DEF ProcsOK
<1> HIDE DEF e
<1>4. \/ IInv'
      \/ /\ Good(world, Owed, asked, bus)' /\ world' = e.now
         /\ UNCHANGED thread /\ session' = session /\ user' = user
         /\ lock' = lock /\ sessGc' = sessGc /\ userGc' = userGc
  BY <1>1, <1>2, <1>3, RunKeeps
<1> SUFFICES ASSUME Good(world, Owed, asked, bus)', world' = e.now,
                    UNCHANGED thread, session' = session, user' = user,
                    lock' = lock, sessGc' = sessGc, userGc' = userGc
             PROVE  IInv'
  BY <1>4
<1>5. /\ world'.sessionFile = world.sessionFile /\ world'.userFile = world.userFile
      /\ world'.runtimeDir = world.runtimeDir /\ world'.lockFile = world.lockFile
  BY <1>2 DEF Only
<1>6. \A y \in Sessions : SessionThere(y)'
  <2> SUFFICES ASSUME NEW y \in Sessions PROVE SessionThere(y)'
    BY Zenon
  <2>1. SessionThere(y)
    BY <1>1, LoadedFacts
  <2> QED BY <1>1, <1>5, <2>1, ThereKept DEF SessionThere, SessionLoaded
<1>7. \A u \in Users : UserLoaded(u)'
  <2>1. \A u \in Users : UserLoaded(u)
    BY <1>1, LoadedFacts
  <2> QED BY <1>5, <2>1 DEF UserLoaded
<1> QED BY <1>1, <1>5, <1>6, <1>7, LoadedFacts, StartingStep

\* inhibitor_start(), or the end of a lock that nobody holds.
LEMMA StartLockStep ==
    ASSUME IInv, NEW l \in Locks, StartLock(l)
    PROVE  IInv'
<1> DEFINE f == inhibitor_save(Begin, l)
           held == world.lockFifo[l] = "held"
           e == IF held THEN f ELSE inhibitor_stop(f, l)
           ll == IF held THEN lock \cup {l} ELSE lock
<1>1. /\ pc = "starting" /\ machine' = machine
      /\ UNCHANGED <<alive, dropped, Owed>> /\ l \notin lock
      /\ bus' = bus /\ asked' = asked /\ Run(e, session, user, ll, sessGc, userGc)
  BY DEF StartLock, procs, Owed, LocksToStart
<1>2. /\ TraceOK(f, Owed, asked, bus) /\ Only(f.now, world, {"lockFile"})
      /\ f.now.lockFile = [world.lockFile EXCEPT ![l] = TRUE]
  BY <1>1, LoadedFacts, LockSaved
<1> HIDE DEF f
<1>3. world.lockFile \in [Locks -> BOOLEAN] /\ lock \subseteq Locks
      /\ \A k \in lock : world.lockFile[k]
  BY <1>1, LoadedFacts
<1>4. /\ TraceOK(e, Owed, asked, bus) /\ Only(e.now, world, {"lockFile", "lockFifo"})
      /\ \A k \in ll : e.now.lockFile[k]
  <2>1. CASE held
    <3>1. e = f /\ ll = lock \cup {l}
      BY <2>1
    <3> HIDE DEF e, ll
    <3>2. \A k \in ll : f.now.lockFile[k]
      BY <1>2, <1>3, <3>1
    <3> QED BY <1>2, <3>1, <3>2 DEF Only
  <2>2. CASE ~ held
    <3>1. e = inhibitor_stop(f, l) /\ ll = lock
      BY <2>2
    <3> HIDE DEF e, ll
    <3>2. TraceOK(f, Owed, asked, bus)
      BY <1>2
    <3>3. /\ TraceOK(e, Owed, asked, bus) /\ Only(e.now, f.now, {"lockFile", "lockFifo"})
          /\ e.now.lockFile = [f.now.lockFile EXCEPT ![l] = FALSE]
      BY <3>1, <3>2, LockStopped
    <3>4. \A k \in Locks \ {l} : e.now.lockFile[k] = world.lockFile[k]
      BY <1>2, <1>3, <3>3
    <3>5. Only(e.now, world, {"lockFile", "lockFifo"})
      BY <1>2, <3>3 DEF Only
    <3> QED BY <1>1, <1>3, <3>1, <3>3, <3>4, <3>5
  <2> QED BY <2>1, <2>2
<1>5. ll \subseteq Locks
  BY <1>3
<1>6. ProcsOK'
  BY <1>1, LoadedFacts DEF ProcsOK
<1> HIDE DEF e, ll
<1>7. \/ IInv'
      \/ /\ Good(world, Owed, asked, bus)' /\ world' = e.now
         /\ UNCHANGED thread /\ session' = session /\ user' = user
         /\ lock' = ll /\ sessGc' = sessGc /\ userGc' = userGc
  BY <1>1, <1>4, <1>6, RunKeeps
<1> SUFFICES ASSUME Good(world, Owed, asked, bus)', world' = e.now,
                    UNCHANGED thread, session' = session, user' = user,
                    lock' = ll, sessGc' = sessGc, userGc' = userGc
             PROVE  IInv'
  BY <1>7
<1>8. /\ world'.sessionFile = world.sessionFile /\ world'.userFile = world.userFile
      /\ world'.runtimeDir = world.runtimeDir
  BY <1>4 DEF Only
<1>9. \A y \in Sessions : SessionThere(y)'
  <2> SUFFICES ASSUME NEW y \in Sessions PROVE SessionThere(y)'
    BY Zenon
  <2>1. SessionThere(y)
    BY <1>1, LoadedFacts
  <2> QED BY <1>1, <1>8, <2>1, ThereKept DEF SessionThere, SessionLoaded
<1>10. \A u \in Users : UserLoaded(u)'
  <2>1. \A u \in Users : UserLoaded(u)
    BY <1>1, LoadedFacts
  <2> QED BY <1>8, <2>1 DEF UserLoaded
<1> QED BY <1>1, <1>4, <1>5, <1>9, <1>10, LoadedFacts, StartingStep

\* manager_gc() drops a session that was loaded and that nobody counts on.
LEMMA DropSessionStep ==
    ASSUME IInv, NEW s \in Sessions, DropSession(s)
    PROVE  IInv'
<1> DEFINE r == session[s]
           t == Begin
           e == session_finalize_and_free(t, s, r, user[r.user])
           ss == [session EXCEPT ![s] = Nil]
<1>1. /\ pc = "starting" /\ machine' = machine /\ alive' = alive
      /\ dropped' = dropped \cup {s}
      /\ bus' = bus /\ asked' = asked /\ r # Nil /\ may_gc_at_start(s)
      /\ Run(IF user[r.user] = Nil THEN t ELSE e, ss, user, lock, sessGc, userGc)
  BY DEF DropSession, RunSession, SessionsToDrop
<1>2. /\ \A y \in Sessions : SessionThere(y)
      /\ \A u \in Users : UserLoaded(u)
      /\ session \in [Sessions -> Session \cup {Nil}]
      /\ user \in [Users -> User \cup {Nil}]
      /\ world.sessionFile \in [Sessions -> SessionFile \cup {Nil}]
  BY <1>1, LoadedFacts
<1>3. r \in Session /\ user[r.user] # Nil /\ user[r.user] \in User
  BY <1>1, <1>2 DEF SessionThere, SessionLoaded, Session
<1>4. s \notin Owed'
  BY <1>1, <1>3 DEF may_gc_at_start, Unheld, Owed
<1>14. TraceOK(t, Owed', asked', bus') /\ t.now = world
  <2>1. Good(world, Owed, asked, bus)
    BY DEF IInv
  <2>2. Within(world, Owed', Owed) /\ Within(world, asked, asked')
    BY <1>1 DEF Within, Owed
  <2>3. Good(world, Owed', asked', bus)
    BY <2>1, <2>2, ProcsChanged
  <2> QED BY <1>1, <2>3, BeginOK
<1> HIDE DEF t
<1>5. /\ TraceOK(e, Owed', asked', bus')
      /\ Only(e.now, t.now, {"control", "sessionFile", "told", "userFile", "muted"})
      /\ e.now.sessionFile = [t.now.sessionFile EXCEPT ![s] = Nil]
      /\ e.now.control = [t.now.control EXCEPT ![s] = Nil]
      /\ \A x \in Users : (e.now.userFile[x] # Nil) =
           ((x = r.user /\ user[r.user].started) \/ t.now.userFile[x] # Nil)
  <2>1. TraceOK(t, Owed', asked', bus') /\ r \in Session /\ user[r.user] \in User
    BY <1>14, <1>3
  <2> HIDE DEF r
  <2> QED BY <1>4, <2>1, SessionFinalized
<1>6. /\ ss \in [Sessions -> Session \cup {Nil}] /\ ss[s] = Nil
      /\ \A y \in Sessions \ {s} : ss[y] = session[y]
  BY <1>2
<1>7. ProcsOK'
  BY <1>1, LoadedFacts DEF ProcsOK
<1> HIDE DEF e, ss
<1>8. Run(e, ss, user, lock, sessGc, userGc)
  BY <1>1, <1>3
<1>9. \/ IInv'
      \/ /\ Good(world, Owed, asked, bus)' /\ world' = e.now
         /\ UNCHANGED thread /\ session' = ss /\ user' = user
         /\ lock' = lock /\ sessGc' = sessGc /\ userGc' = userGc
  BY <1>1, <1>5, <1>7, <1>8, RunKeeps
<1> SUFFICES ASSUME Good(world, Owed, asked, bus)', world' = e.now,
                    UNCHANGED thread, session' = ss, user' = user,
                    lock' = lock, sessGc' = sessGc, userGc' = userGc
             PROVE  IInv'
  BY <1>9
<1>10. world'.runtimeDir = world.runtimeDir /\ world'.lockFile = world.lockFile
  BY <1>5, <1>14 DEF Only
<1>11. /\ world'.sessionFile[s] = Nil
       /\ \A y \in Sessions \ {s} : world'.sessionFile[y] = world.sessionFile[y]
  BY <1>2, <1>5, <1>14
<1>12. \A y \in Sessions : SessionThere(y)'
  <2>1. SessionThere(s)'
    BY <1>6, <1>11 DEF SessionThere
  <2>2. ASSUME NEW y \in Sessions \ {s} PROVE SessionThere(y)'
    <3>1. SessionThere(y) /\ session'[y] = session[y]
      BY <1>2, <1>6
    <3> QED BY <1>1, <1>11, <3>1, ThereKept DEF SessionThere, SessionLoaded
  <2> QED BY <2>1, <2>2
<1>13. \A u \in Users : UserLoaded(u)'
  BY <1>2, <1>3, <1>5, <1>10, <1>14 DEF UserLoaded
<1> QED BY <1>1, <1>2, <1>6, <1>7, <1>10, <1>12, <1>13, LoadedFacts, StartingStep DEF ProcsOK

\* manager_gc() drops a user that was loaded and has no session.
LEMMA DropUserStep ==
    ASSUME IInv, NEW u \in Users, DropUser(u)
    PROVE  IInv'
<1> DEFINE t == Begin
           e == user_finalize_and_free(t, u)
           uu == [user EXCEPT ![u] = Nil]
<1>1. /\ pc = "starting" /\ machine' = machine /\ UNCHANGED <<alive, dropped, Owed>>
      /\ bus' = bus /\ asked' = asked /\ sessionsOf(u) = {}
      /\ Run(e, session, uu, lock, sessGc, userGc)
  BY DEF DropUser, procs, Owed, UsersToDrop
<1>2. /\ \A y \in Sessions : SessionThere(y)
      /\ \A x \in Users : UserLoaded(x)
      /\ session \in [Sessions -> Session \cup {Nil}]
      /\ user \in [Users -> User \cup {Nil}]
      /\ TraceOK(t, Owed, asked, bus) /\ t.now = world
      /\ world.runtimeDir \in [Users -> BOOLEAN]
  BY <1>1, LoadedFacts
<1>3. world.userFile \in [Users -> UserFile \cup {Nil}]
  BY GoodTyped DEF IInv
<1>4. \A y \in Sessions : session[y] # Nil => session[y].user \in Users \ {u}
  BY <1>1, <1>2 DEF sessionsOf, Session
<1> HIDE DEF t
<1>5. \A y \in Sessions : t.now.sessionFile[y] # Nil => t.now.sessionFile[y].user # u
  <2> SUFFICES ASSUME NEW y \in Sessions, world.sessionFile[y] # Nil
               PROVE  world.sessionFile[y].user # u
    BY <1>2
  <2>1. session[y] # Nil /\ world.sessionFile[y].user = session[y].user
    BY <1>2 DEF SessionThere, SessionLoaded
  <2> QED BY <1>4, <2>1
<1>6. /\ TraceOK(e, Owed, asked, bus) /\ Only(e.now, t.now, {"userFile", "runtimeDir"})
      /\ e.now.userFile = [t.now.userFile EXCEPT ![u] = Nil]
      /\ e.now.runtimeDir = [t.now.runtimeDir EXCEPT ![u] = FALSE]
  <2>1. TraceOK(t, Owed, asked, bus)
    BY <1>2
  <2> QED BY <1>5, <2>1, UserFinalized
<1>7. /\ uu \in [Users -> User \cup {Nil}] /\ uu[u] = Nil
      /\ \A x \in Users \ {u} : uu[x] = user[x]
  BY <1>2
<1>8. ProcsOK'
  BY <1>1, LoadedFacts DEF ProcsOK
<1> HIDE DEF e, uu
<1>9. \/ IInv'
      \/ /\ Good(world, Owed, asked, bus)' /\ world' = e.now
         /\ UNCHANGED thread /\ session' = session /\ user' = uu
         /\ lock' = lock /\ sessGc' = sessGc /\ userGc' = userGc
  BY <1>1, <1>6, <1>8, RunKeeps
<1> SUFFICES ASSUME Good(world, Owed, asked, bus)', world' = e.now,
                    UNCHANGED thread, session' = session, user' = uu,
                    lock' = lock, sessGc' = sessGc, userGc' = userGc
             PROVE  IInv'
  BY <1>9
<1>10. world'.sessionFile = world.sessionFile /\ world'.lockFile = world.lockFile
  BY <1>2, <1>6 DEF Only
<1>11. /\ world'.userFile[u] = Nil
       /\ \A x \in Users \ {u} : world'.userFile[x] = world.userFile[x]
       /\ \A x \in Users \ {u} : world'.runtimeDir[x] = world.runtimeDir[x]
  BY <1>2, <1>3, <1>6
<1>12. \A y \in Sessions : SessionThere(y)'
  <2> SUFFICES ASSUME NEW y \in Sessions PROVE SessionThere(y)'
    BY Zenon
  <2>1. SessionThere(y) /\ (session[y] # Nil => session[y].user \in Users \ {u})
    BY <1>2, <1>4
  <2>2. session[y] # Nil => user'[session[y].user] = user[session[y].user]
    BY <1>7, <2>1
  <2> QED BY <1>1, <1>10, <2>1, <2>2, ThereKept DEF SessionThere, SessionLoaded
<1>13. \A x \in Users : UserLoaded(x)'
  BY <1>2, <1>7, <1>11 DEF UserLoaded
<1> QED BY <1>1, <1>2, <1>7, <1>10, <1>12, <1>13, LoadedFacts, StartingStep

\* user_start() in manager_startup()
LEMMA StartUserStep ==
    ASSUME IInv, NEW u \in Users, StartUser(u)
    PROVE  IInv'
<1> DEFINE t == Begin
           r == user[u]
           e == user_start(t, u, r)
           uu == [user EXCEPT ![u] = Running]
<1>1. /\ pc = "starting" /\ machine' = machine /\ UNCHANGED <<alive, dropped, Owed>>
      /\ bus' = bus /\ asked' = asked /\ r # Nil /\ ~ r.started
      /\ Run(e, session, uu, lock, sessGc, userGc)
  BY DEF StartUser, procs, Owed, UsersToStart, start_user
<1>2. /\ \A y \in Sessions : SessionThere(y)
      /\ \A x \in Users : UserLoaded(x)
      /\ session \in [Sessions -> Session \cup {Nil}]
      /\ user \in [Users -> User \cup {Nil}]
      /\ TraceOK(t, Owed, asked, bus) /\ t.now = world
  BY <1>1, LoadedFacts
<1>3. r \in User \cup {Nil}
  BY <1>2
<1>4. Running \in User /\ Running.started /\ ~ Running.stopping
  BY DEF Running, User
<1>5. Running # Nil
  BY <1>4, RestartAssumption
<1> HIDE DEF t
<1>6. /\ TraceOK(e, Owed, asked, bus) /\ Only(e.now, t.now, {"userFile", "runtimeDir"})
      /\ \A x \in Users : (e.now.userFile[x] # Nil) = (x = u \/ t.now.userFile[x] # Nil)
      /\ \A x \in Users : x # u \/ (r # Nil /\ r.started /\ ~ r.stopping) =>
                            e.now.runtimeDir[x] = t.now.runtimeDir[x]
      /\ r = Nil \/ ~ r.started \/ r.stopping => e.now.runtimeDir[u]
  <2> HIDE DEF r
  <2> QED BY <1>2, <1>3, UserStarted
<1>7. /\ uu \in [Users -> User \cup {Nil}] /\ uu[u] = Running
      /\ \A x \in Users \ {u} : uu[x] = user[x]
  BY <1>2, <1>4
<1>8. ProcsOK'
  BY <1>1, LoadedFacts DEF ProcsOK
<1> HIDE DEF e, uu
<1>9. \/ IInv'
      \/ /\ Good(world, Owed, asked, bus)' /\ world' = e.now
         /\ UNCHANGED thread /\ session' = session /\ user' = uu
         /\ lock' = lock /\ sessGc' = sessGc /\ userGc' = userGc
  BY <1>1, <1>6, <1>8, RunKeeps
<1> SUFFICES ASSUME Good(world, Owed, asked, bus)', world' = e.now,
                    UNCHANGED thread, session' = session, user' = uu,
                    lock' = lock, sessGc' = sessGc, userGc' = userGc
             PROVE  IInv'
  BY <1>9
<1>10. world'.sessionFile = world.sessionFile /\ world'.lockFile = world.lockFile
  BY <1>2, <1>6 DEF Only
<1>11. /\ world'.userFile[u] # Nil /\ world'.runtimeDir[u]
       /\ \A x \in Users \ {u} : (world'.userFile[x] # Nil) = (world.userFile[x] # Nil)
       /\ \A x \in Users \ {u} : world'.runtimeDir[x] = world.runtimeDir[x]
  BY <1>1, <1>2, <1>6
<1>12. \A y \in Sessions : SessionThere(y)'
  <2> SUFFICES ASSUME NEW y \in Sessions PROVE SessionThere(y)'
    BY Zenon
  <2>1. SessionThere(y) /\ (session[y] # Nil => session[y].user \in Users)
    BY <1>2 DEF Session
  <2>2. session[y] # Nil => /\ user'[session[y].user] # Nil
                            /\ user[session[y].user].started =>
                                 user'[session[y].user].started
    BY <1>4, <1>5, <1>7, <2>1 DEF SessionThere, SessionLoaded
  <2> QED BY <1>1, <1>10, <2>1, <2>2, ThereKept
<1>13. \A x \in Users : UserLoaded(x)'
  BY <1>2, <1>4, <1>5, <1>7, <1>11 DEF UserLoaded
<1> QED BY <1>1, <1>2, <1>7, <1>10, <1>12, <1>13, LoadedFacts, StartingStep

\* session_start() in manager_startup()
LEMMA StartSessionStep ==
    ASSUME IInv, NEW s \in Sessions, StartSession(s)
    PROVE  IInv'
<1> DEFINE r == [session[s] EXCEPT !.started = TRUE]
           t == Begin
           v == user[r.user]
           f == user_start(t, r.user, v)
           g == session_save(f, s, r)
           e == user_save(g, r.user, v)
           ss == [session EXCEPT ![s] = r]
<1>1. /\ pc = "starting" /\ machine' = machine /\ UNCHANGED <<alive, dropped, Owed>>
      /\ bus' = bus /\ asked' = asked
      /\ session[s] # Nil /\ ~ session[s].started /\ ~ session[s].stopping
      /\ UsersToStart = {}
      /\ Run(e, ss, user, lock, sessGc, userGc)
  BY DEF StartSession, RunSession, procs, Owed, SessionsToStart
<1>2. /\ \A y \in Sessions : SessionThere(y)
      /\ \A x \in Users : UserLoaded(x)
      /\ session \in [Sessions -> Session \cup {Nil}]
      /\ user \in [Users -> User \cup {Nil}]
      /\ TraceOK(t, Owed, asked, bus) /\ t.now = world
      /\ FileOK(world, s, Owed, asked, bus)
      /\ world.sessionFile \in [Sessions -> SessionFile \cup {Nil}]
  BY <1>1, LoadedFacts
<1>3. session[s] \in Session /\ SessionLoaded(s)
  BY <1>1, <1>2 DEF SessionThere
<1>4. /\ r \in Session /\ r.user = session[s].user /\ r.user \in Users /\ r.started
      /\ r.stopping = session[s].stopping /\ r.timer = session[s].timer
      /\ r.fifo = session[s].fifo /\ r.controller = session[s].controller
  BY <1>3 DEF Session
<1> HIDE DEF r, t
<1>5. v \in User /\ v # Nil /\ v.started /\ ~ v.stopping
  <2>1. v # Nil /\ v \in User
    BY <1>2, <1>3, <1>4 DEF SessionLoaded
  <2>2. v.started
    BY <1>1, <1>4, <2>1 DEF UsersToStart
  <2> QED BY <1>2, <1>4, <2>1, <2>2 DEF UserLoaded
<1> HIDE DEF v
<1>6. /\ TraceOK(f, Owed, asked, bus) /\ Only(f.now, t.now, {"userFile", "runtimeDir"})
      /\ \A x \in Users : (f.now.userFile[x] # Nil) = (x = r.user \/ t.now.userFile[x] # Nil)
      /\ \A x \in Users : x # r.user \/ (v # Nil /\ v.started /\ ~ v.stopping) =>
                            f.now.runtimeDir[x] = t.now.runtimeDir[x]
      /\ v = Nil \/ ~ v.started \/ v.stopping => f.now.runtimeDir[r.user]
  <2>1. v \in User \cup {Nil} /\ TraceOK(t, Owed, asked, bus) /\ r.user \in Users
    BY <1>2, <1>4, <1>5
  <2> QED BY <2>1, UserStarted
<1> HIDE DEF f
<1>7. /\ f.now.sessionFile = world.sessionFile /\ f.now.told = world.told
      /\ f.now.fifo = world.fifo /\ f.now.control = world.control
      /\ f.now.lockFile = world.lockFile
  BY <1>2, <1>6 DEF Only
<1>8. ~ session_closing(r) /\ ~ world.sessionFile[s].closing /\ world.sessionFile[s] # Nil
      /\ world.sessionFile[s].fifo = r.fifo
  BY <1>1, <1>3, <1>4 DEF SessionLoaded, session_closing
<1>9. Saveable(f.now, s, r, Owed, asked, bus)
  <2>1. f.now.userFile[r.user] # Nil /\ f.now.told[s] # "removed"
    BY <1>2, <1>4, <1>6, <1>7, <1>8 DEF FileOK
  <2>2. s \in Owed /\ f.now.told[s] = "created" =>
          r.fifo \/ session_closing(r)
    BY <1>2, <1>7, <1>8 DEF FileOK
  <2>3. s \in Owed /\ f.now.told[s] = "created"
          /\ s \notin asked /\ f.now.fifo[s] = "held" => r.fifo /\ ~ session_closing(r)
    BY <1>2, <1>7, <1>8 DEF FileOK
  <2>4. f.now.control[s] \in Clients => r.controller = f.now.control[s]
    BY <1>1, <1>2, <1>3, <1>4, <1>7, <1>8 DEF FileOK, SessionLoaded, load_controller
  <2> QED BY <2>1, <2>2, <2>3, <2>4 DEF Saveable
<1>10. /\ TraceOK(g, Owed, asked, bus) /\ Only(g.now, f.now, {"sessionFile"})
       /\ g.now.sessionFile = [f.now.sessionFile EXCEPT ![s] = FileOf(r)]
  BY <1>4, <1>6, <1>9, SessionSaved
<1> HIDE DEF g
<1>11. /\ TraceOK(e, Owed, asked, bus) /\ Only(e.now, g.now, {"userFile"})
       /\ \A x \in Users : (e.now.userFile[x] # Nil) =
                             ((x = r.user /\ v.started) \/ g.now.userFile[x] # Nil)
  <2>1. TraceOK(g, Owed, asked, bus) /\ r.user \in Users /\ v \in User
    BY <1>4, <1>5, <1>10
  <2> QED BY <2>1, UserSaved
<1> HIDE DEF e
<1>12. /\ ss \in [Sessions -> Session \cup {Nil}] /\ ss[s] = r
       /\ \A y \in Sessions \ {s} : ss[y] = session[y]
  BY <1>2, <1>4
<1> HIDE DEF ss
<1>13. ProcsOK'
  BY <1>1, LoadedFacts DEF ProcsOK
<1>14. \/ IInv'
       \/ /\ Good(world, Owed, asked, bus)' /\ world' = e.now
          /\ UNCHANGED thread /\ session' = ss /\ user' = user
          /\ lock' = lock /\ sessGc' = sessGc /\ userGc' = userGc
  BY <1>1, <1>11, <1>13, RunKeeps
<1> SUFFICES ASSUME Good(world, Owed, asked, bus)', world' = e.now,
                    UNCHANGED thread, session' = ss, user' = user,
                    lock' = lock, sessGc' = sessGc, userGc' = userGc
             PROVE  IInv'
  BY <1>14
<1>15. /\ world'.sessionFile = g.now.sessionFile /\ world'.lockFile = world.lockFile
       /\ world'.runtimeDir = f.now.runtimeDir /\ g.now.userFile = f.now.userFile
  BY <1>7, <1>10, <1>11 DEF Only
<1>16. /\ world'.sessionFile[s] = FileOf(r)
       /\ \A y \in Sessions \ {s} : world'.sessionFile[y] = world.sessionFile[y]
  BY <1>2, <1>7, <1>10, <1>15
<1>17. /\ \A x \in Users : world'.runtimeDir[x] = world.runtimeDir[x]
       /\ \A x \in Users : (world'.userFile[x] # Nil) =
                             (x = r.user \/ world.userFile[x] # Nil)
  BY <1>2, <1>5, <1>6, <1>11, <1>15
<1>18. \A y \in Sessions : SessionThere(y)'
  <2>1. SessionThere(s)'
    <3>1. /\ FileOf(r).user = r.user /\ FileOf(r).fifo = r.fifo
          /\ FileOf(r).controller = r.controller /\ FileOf(r).closing = FALSE
          /\ r.stopping = FALSE
      <4>1. session_closing(r) = FALSE /\ r.stopping = FALSE
        BY <1>4, <1>8 DEF session_closing, Session
      <4> QED BY <4>1 DEF FileOf
    <3>2. FileOf(r) # Nil
      BY <1>4, RestartAssumption DEF FileOf, SessionFile, Session, session_closing
    <3>3. ~ r.timer /\ user'[r.user] # Nil /\ user'[r.user].started
      BY <1>3, <1>4, <1>5 DEF SessionLoaded, v
    <3>4. session'[s] = r /\ r # Nil
      BY <1>4, <1>12, RestartAssumption
    <3> HIDE DEF FileOf
    <3>5. SessionLoaded(s)'
      BY <1>4, <1>16, <3>1, <3>2, <3>3, <3>4 DEF SessionLoaded
    <3> QED BY <3>4, <3>5 DEF SessionThere
  <2>2. ASSUME NEW y \in Sessions \ {s} PROVE SessionThere(y)'
    <3>1. SessionThere(y) /\ session'[y] = session[y]
      BY <1>2, <1>12
    <3> QED BY <1>1, <1>16, <3>1, ThereKept DEF SessionThere, SessionLoaded
  <2> QED BY <2>1, <2>2
<1>19. \A x \in Users : UserLoaded(x)'
  BY <1>2, <1>5, <1>17 DEF UserLoaded, v
<1> QED BY <1>1, <1>2, <1>12, <1>15, <1>18, <1>19, LoadedFacts, StartingStep

\* manager_startup() is done: the sessions are known.
LEMMA StartupDoneStep ==
    ASSUME IInv, StartupDone
    PROVE  IInv'
<1>1. /\ pc = "starting" /\ pc' = "event"
      /\ UNCHANGED <<machine, cur, session, user, lock, sessGc, userGc, world,
                     alive, bus, asked, dropped, Owed>>
      /\ UsersToStart = {} /\ SessionsToStart = {} /\ LocksToStart = {}
  BY DEF StartupDone, Started, memory, procs, Owed
<1>2. /\ \A y \in Sessions : SessionThere(y)
      /\ \A x \in Users : UserLoaded(x)
      /\ session \in [Sessions -> Session \cup {Nil}]
      /\ user \in [Users -> User \cup {Nil}]
      /\ \A s \in Sessions : FileOK(world, s, Owed, asked, bus)
      /\ world.lockFile \in [Locks -> BOOLEAN]
      /\ lock \subseteq Locks /\ \A l \in lock : world.lockFile[l]
  BY <1>1, LoadedFacts
<1>3. Good(world, Owed, asked, bus)'
  <2>1. Good(world', Owed', asked', bus')
    BY <1>1 DEF IInv
  <2> QED BY <1>1, <2>1, GoodNext
<1>4. TypeOK' /\ QueuesOK'
  BY <1>1 DEF IInv, TypeOK, QueuesOK
<1>5. ASSUME NEW s \in Sessions, session[s] # Nil PROVE SessionKnown(s)
  <2> DEFINE r == session[s]
             f == world.sessionFile[s]
  <2>1. SessionLoaded(s) /\ FileOK(world, s, Owed, asked, bus) /\ r \in Session
        /\ r.user \in Users
    BY <1>2, <1>5 DEF SessionThere, Session
  <2>2. ~ r.started => r.stopping
    BY <1>1, <1>5 DEF SessionsToStart
  <2>3. r.started => world.runtimeDir[r.user]
    BY <1>2, <2>1 DEF SessionLoaded, UserLoaded
  <2>4. r.started /\ world.control[s] \in Clients => r.controller = world.control[s]
    BY <2>1 DEF SessionLoaded, FileOK
  <2> QED BY <2>1, <2>2, <2>3, <2>4 DEF SessionLoaded, SessionKnown, session_closing
<1>6. \A s \in Sessions : session'[s] # Nil => SessionKnown(s)'
  <2>1. \A s \in Sessions : session[s] # Nil => SessionKnown(s)
    BY <1>5, Zenon
  <2> QED BY <1>1, <2>1 DEF SessionKnown, session_closing
<1>7. \A u \in Users : IF user[u] = Nil THEN world.userFile[u] = Nil
                       ELSE /\ user[u].started
                            /\ world.userFile[u] # Nil /\ world.runtimeDir[u]
  BY <1>1, <1>2 DEF UserLoaded, UsersToStart
<1>8. \A s \in Sessions : session[s] = Nil => world.sessionFile[s] = Nil
  BY <1>2 DEF SessionThere
<1>9. \A l \in Locks : world.lockFile[l] = (l \in lock)
  BY <1>1, <1>2 DEF LocksToStart
<1>10. MemoryOK'
  BY <1>1, <1>6, <1>7, <1>8, <1>9 DEF MemoryOK
<1> QED BY <1>3, <1>4, <1>10 DEF IInv

-----------------------------------------------------------------------------
(***************************************************************************)
(* The invariant holds                                                     *)
(***************************************************************************)
\* It holds when the machine boots.
LEMMA InitIInv == Init => IInv
<1> SUFFICES ASSUME Init PROVE IInv
  OBVIOUS
<1>1. /\ machine \in Machine /\ bus \subseteq Clients /\ alive = {} /\ asked = {} /\ dropped = {}
      /\ pc = "down" /\ cur = Nil /\ lock = {} /\ sessGc = {} /\ userGc = {}
      /\ session = [s \in Sessions |-> Nil] /\ user = [u \in Users |-> Nil]
  BY RestartAssumption DEF Init, Machine
<1>2. /\ world.sessionFile = [s \in Sessions |-> Nil]
      /\ world.lockFifo = [l \in Locks |-> "none"]
      /\ world.told = [s \in Sessions |-> "nothing"]
      /\ world.control = [s \in Sessions |-> Nil]
      /\ world \in World
  BY DEF Init, World, Fifo
<1>3. ASSUME NEW s \in Sessions PROVE FileOK(world, s, Owed, asked, bus)
  <2>1. /\ world.sessionFile[s] = Nil /\ world.told[s] = "nothing"
        /\ world.control[s] = Nil /\ s \notin Owed
    BY <1>1, <1>2 DEF Owed
  <2> QED BY <2>1, RestartAssumption DEF FileOK
<1>4. Good(world, Owed, asked, bus)
  BY <1>2, <1>3 DEF Good, LockOK
<1>5. TypeOK
  BY <1>1, <1>2 DEF TypeOK
<1>6. MemoryOK /\ QueuesOK
  BY <1>1 DEF MemoryOK, QueuesOK
<1> QED BY <1>4, <1>5, <1>6 DEF IInv

\* Every step keeps it.
LEMMA NextIInv == IInv /\ [Next]_vars => IInv'
<1> SUFFICES ASSUME IInv, [Next]_vars PROVE IInv'
  OBVIOUS
<1>1. CASE Next
  <2>1. CASE \E s \in Sessions : \/ \E u \in Users : CreateSession(s, u)
                                 \/ \E c \in Clients : TakeControl(s, c)
                                 \/ DropController(s)
                                 \/ ReleaseSession(s) \/ ReleaseTimeout(s)
                                 \/ FifoEof(s) \/ LeaderExit(s) \/ TerminateSession(s)
                                 \/ StopNext(s) \/ GcSession(s)
                                 \/ ExitSession(s)
                                 \/ LoadFifo(s) \/ DropSession(s) \/ StartSession(s)
                                 \/ LeaderDies(s) \/ FifoWriterGone(s)
    BY <2>1, Zenon, CreateSessionStep, TakeControlStep, DropControllerStep, ReleaseSessionStep,
       ReleaseTimeoutStep, FifoEofStep, LeaderExitStep, TerminateSessionStep, StopNextStep,
       GcSessionStep, ExitSessionStep, LoadFifoStep, DropSessionStep, StartSessionStep,
       LeaderDiesStep, FifoWriterGoneStep
  <2>2. CASE \E u \in Users : \/ TerminateUser(u) \/ GcUser(u) \/ ExitUser(u)
                              \/ DropUser(u) \/ StartUser(u)
    BY <2>2, Zenon, TerminateUserStep, GcUserStep, ExitUserStep, DropUserStep, StartUserStep
  <2>3. CASE \E l \in Locks : \/ Inhibit(l) \/ LockEof(l) \/ LockDropped(l)
                              \/ LoadLock(l) \/ StartLock(l)
    BY <2>3, Zenon, InhibitStep, LockEofStep, LockDroppedStep, LoadLockStep, StartLockStep
  <2>4. CASE \E c \in Clients : Disconnect(c)
    BY <2>4, DisconnectStep
  <2>5. CASE UserStopped
    BY <2>5, UserStoppedStep
  <2>6. CASE Crash
    BY <2>6, CrashStep
  <2>7. CASE Exit
    BY <2>7, ExitStep
  <2>8. CASE Startup
    BY <2>8, StartupStep
  <2>9. CASE StartupDone
    BY <2>9, StartupDoneStep
  <2> QED BY <1>1, <2>1, <2>2, <2>3, <2>4, <2>5, <2>6, <2>7, <2>8, <2>9 DEF Next
<1>2. CASE UNCHANGED vars
  <2>1. UNCHANGED <<machine, pc, cur, session, user, lock, sessGc, userGc, world,
                    alive, bus, asked, dropped, Owed>>
    BY <1>2 DEF vars, thread, memory, procs, Owed
  <2>2. Good(world', Owed', asked', bus')
    BY <2>1 DEF IInv
  <2>3. Good(world, Owed, asked, bus)'
    BY <2>1, <2>2, GoodNext
  <2>4. TypeOK' /\ QueuesOK'
    BY <2>1 DEF IInv, TypeOK, QueuesOK, sessionsOf
  <2>5. MemoryOK'
    BY <2>1 DEF IInv, MemoryOK, SessionKnown, SessionLoaded, session_closing, load_controller
  <2> QED BY <2>3, <2>4, <2>5 DEF IInv
<1> QED BY <1>1, <1>2

\* The invariant holds in every state.
LEMMA Invariant == Spec => []IInv
BY InitIInv, NextIInv, PTL DEF Spec

-----------------------------------------------------------------------------
(***************************************************************************)
(* What follows                                                            *)
(***************************************************************************)
\* Memory and world have their types, wherever the daemon is and however often it
\* crashed.
THEOREM TypeCorrect == Spec => []TypeOK
<1>1. IInv => TypeOK
  BY DEF IInv
<1> QED BY <1>1, Invariant, PTL

\* Wherever the daemon dies, no session file is left without the file of its user.
THEOREM NoOrphanFile == Spec => []UserFileFirst
<1>1. IInv => UserFileFirst
  BY DEF IInv, Good, FileOK, UserFileFirst
<1> QED BY <1>1, Invariant, PTL

\* Wherever the daemon dies, a session whose creation was answered and whose leader
\* lives is on disk, with its FIFO unless it was stopped; with pidfds, until a start
\* of the daemon drops it.
THEOREM AnsweredIsSaved == Spec => []SavedBeforeReply
<1>1. IInv => SavedBeforeReply
  <2> SUFFICES ASSUME IInv, NEW s \in Owed, world.told[s] = "created"
               PROVE  /\ world.sessionFile[s] # Nil
                      /\ world.sessionFile[s].fifo \/ world.sessionFile[s].closing
    BY DEF SavedBeforeReply
  <2>1. s \in Sessions
    BY DEF IInv, TypeOK, Owed
  <2>2. FileOK(world, s, Owed, asked, bus)
    BY <2>1 DEF IInv, Good
  <2> QED BY <2>2 DEF FileOK
<1> QED BY <1>1, Invariant, PTL

\* A session in memory has a file.
LEMMA ThereHasFile ==
    ASSUME IInv, NEW s \in Sessions, session[s] # Nil
    PROVE  world.sessionFile[s] # Nil
<1>1. CASE pc = "down"
  BY <1>1 DEF IInv, MemoryOK
<1>2. CASE pc = "starting"
  BY <1>2, LoadedFacts DEF SessionThere, SessionLoaded
<1>3. CASE pc \in {"event", "user_stop", "exiting"}
  BY <1>3, KnownFacts
<1> QED BY <1>1, <1>2, <1>3 DEF IInv, TypeOK

\* A session whose removal was announced does not come back, whatever the crashes.
THEOREM RemovedForGood == Spec => []RemovedStaysRemoved
<1>1. IInv => RemovedStaysRemoved
  <2> SUFFICES ASSUME IInv, NEW s \in Sessions, world.told[s] = "removed"
               PROVE  session[s] = Nil /\ world.sessionFile[s] = Nil
    BY DEF RemovedStaysRemoved
  <2>1. world.sessionFile[s] = Nil
    BY DEF IInv, Good, FileOK
  <2> QED BY <2>1, ThereHasFile
<1> QED BY <1>1, Invariant, PTL

\* Without pidfds, a session that nobody ended, whose leader lives and whose client holds
\* its FIFO, runs whenever the daemon is idle, however often it was restarted.
THEOREM SessionsSurvive == Spec => []SessionSurvives
<1>1. IInv => SessionSurvives
  <2> SUFFICES ASSUME IInv, Idle, ~ machine.pidfd, NEW s \in Sessions, Undisturbed(s)
               PROVE  session[s] # Nil /\ session[s].started /\ ~ session[s].stopping
    BY DEF SessionSurvives
  <2>1. FileOK(world, s, Owed, asked, bus)
    BY DEF IInv, Good
  <2>2. world.sessionFile[s] # Nil /\ ~ world.sessionFile[s].closing
    BY <2>1 DEF FileOK, Undisturbed, Owed
  <2>3. session[s] # Nil /\ pc = "event"
    BY <2>2 DEF IInv, MemoryOK, Idle
  <2>4. SessionKnown(s)
    BY <2>3, KnownFacts
  <2> QED BY <2>2, <2>3, <2>4 DEF SessionKnown
<1> QED BY <1>1, Invariant, PTL

\* When the daemon is idle the files of sessions, users and locks say what it knows.
THEOREM IdleIsSaved == Spec => []SavedWhenIdle
<1>1. IInv => SavedWhenIdle
  <2> SUFFICES ASSUME IInv, Idle PROVE SavedWhenIdle
    BY DEF SavedWhenIdle
  <2>1. /\ pc = "event"
        /\ \A s \in Sessions : session[s] = Nil => world.sessionFile[s] = Nil
        /\ \A u \in Users : IF user[u] = Nil THEN world.userFile[u] = Nil
                            ELSE /\ user[u].started
                                 /\ world.userFile[u] # Nil /\ world.runtimeDir[u]
        /\ \A l \in Locks : world.lockFile[l] = (l \in lock)
    BY DEF IInv, MemoryOK, Idle
  <2>2. ASSUME NEW s \in Sessions, session[s] # Nil, session[s].started
        PROVE  LET r == session[s]
                   f == world.sessionFile[s]
               IN  /\ f # Nil
                   /\ f.user = r.user /\ f.fifo = r.fifo /\ f.controller = r.controller
                   /\ r.stopping => f.closing
                   /\ f.closing => session_closing(r)
    <3>1. SessionKnown(s)
      BY <2>1, <2>2, KnownFacts
    <3> QED BY <2>2, <3>1 DEF SessionKnown
  <2>3. \A u \in Users : (world.userFile[u] # Nil) = (user[u] # Nil)
    BY <2>1
  <2> QED BY <2>1, <2>2, <2>3 DEF SavedWhenIdle
<1> QED BY <1>1, Invariant, PTL

\* When the daemon is idle a client that was given control of a session and is still
\* there is its controller, unless an exit of the daemon took control away, and a lock
\* that is held is in force.
THEOREM ClaimsSurvive == Spec => []ClaimsKept
<1>1. IInv => ClaimsKept
  <2> SUFFICES ASSUME IInv, Idle PROVE ClaimsKept
    BY DEF ClaimsKept
  <2>1. pc = "event" /\ \A l \in Locks : world.lockFile[l] = (l \in lock)
    BY DEF IInv, MemoryOK, Idle
  <2>2. \A l \in Locks : world.lockFifo[l] = "held" => l \in lock
    BY <2>1 DEF IInv, Good, LockOK
  <2>3. ASSUME NEW s \in Sessions, world.control[s] \in Clients, session[s] # Nil,
               session[s].started
        PROVE  session[s].controller = world.control[s]
    <3>1. SessionKnown(s)
      BY <2>1, <2>3, KnownFacts
    <3> QED BY <2>3, <3>1 DEF SessionKnown
  <2> QED BY <2>2, <2>3 DEF ClaimsKept
<1> QED BY <1>1, Invariant, PTL

\* When the daemon is idle the user of every session that runs has a runtime directory.
THEOREM DirectoryKept == Spec => []RuntimeDirKept
<1>1. IInv => RuntimeDirKept
  <2> SUFFICES ASSUME IInv, Idle, NEW s \in Sessions, session[s] # Nil, session[s].started
               PROVE  world.runtimeDir[session[s].user]
    BY DEF RuntimeDirKept
  <2>1. SessionKnown(s)
    BY KnownFacts DEF Idle
  <2> QED BY <2>1 DEF SessionKnown
<1> QED BY <1>1, Invariant, PTL
=============================================================================
