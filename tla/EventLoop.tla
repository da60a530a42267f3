----------------------------- MODULE EventLoop ------------------------------
(***************************************************************************)
(* sd-event.c, the event loop that runs every handler of the daemon, as    *)
(* manager_run() drives it: prepare, wait, dispatch one source.            *)
(*                                                                         *)
(* Sources are of the kinds the daemon registers: descriptors, times,      *)
(* signals, children with and without a pidfd, deferred, post and exit     *)
(* sources, each enabled in the one mode that its sd_event_add_...() sets. *)
(* Memory pressure is a descriptor with a rate limit; inotify watches and  *)
(* the watchdog are left out.                                              *)
(***************************************************************************)
EXTENDS FiniteSetsExt, Integers

CONSTANTS
    Sources,   \* the event sources
    Setups,    \* for each kind of daemon: the type and the priority of a source,
               \* those with a prepare callback, those with a rate limit (of
               \* one in an interval), those that callbacks add, change and free
    Nil

INT64_MAX == 100
INT64_MIN == -100

VARIABLES
    setup,
    sources,       \* e->sources
    enabled, ratelimited,     \* s->enabled, s->ratelimited
    window,        \* s->rate_limit: "none", "open", or "over" once the interval is
    pending,       \* the sources with s->pending
    before,        \* pairs of them, the first with the older pending_iteration
    fresh,         \* those with the pending_iteration of this iteration
    prepared,      \* those with the prepare_iteration of this iteration
    pc,            \* e->state, or where sd_event_wait() is
    dispatching,   \* the source whose callback runs
    exitRequested, \* e->exit_requested
    threshold, minPriority,   \* local variables of sd_event_wait()
    sleep,         \* whether this sd_event_wait() has a timeout other than zero
    needChild,     \* e->need_process_child
    ready,         \* readable, elapsed, queued or exited, in the kernel's eyes
    passed, early  \* history, see Remember

queueVars == <<pending, before, fresh>>
stateVars == <<setup, sources, enabled, ratelimited, window>>
waitVars  == <<threshold, minPriority, sleep>>
vars == <<stateVars, queueVars, prepared, pc, dispatching, exitRequested, waitVars,
          needChild, ready, passed, early>>

-----------------------------------------------------------------------------
Type(s)     == setup.type[s]
Priority(s) == setup.priority[s]
OfType(T)   == {s \in sources : Type(s) \in T}

SignalTypes == {"signal", "sigchld"}
ChildTypes  == {"child", "pidfd"}

event_source_is_online(s) ==
    s \in sources /\ enabled[s] # "off" /\ s \notin ratelimited

Online == {s \in sources : event_source_is_online(s)}

\* The lowest of the priorities of S and of p.
MinPriority(p, S) == Min({p} \cup {Priority(s) : s \in S})

\* source_set_pending(), for the sources that become pending and those that no
\* longer are.
source_set_pending(on, off) ==
    LET new == on \ pending
    IN  /\ pending' = (pending \ off) \cup new
        /\ before' = {p \in before : p[1] \notin off /\ p[2] \notin off}
                       \cup ((pending \ (fresh \cup off)) \X new)
        /\ fresh' = (fresh \ off) \cup new

\* Mutant: older entries do not go first.
Precedes_any_age(s, t) == Priority(s) < Priority(t)

\* pending_prioq_compare(), of sources that are online.
Precedes(s, t) ==
    \/ Priority(s) < Priority(t)
    \/ Priority(s) = Priority(t) /\ <<s, t>> \in before

\* event_next_pending(): ties are broken at random.
event_next_pending ==
    {s \in pending \cap Online : \A t \in pending \cap Online : ~ Precedes(t, s)}

-----------------------------------------------------------------------------
(***************************************************************************)
(* sd_event_prepare()                                                      *)
(***************************************************************************)
Prepare ==
    /\ pc = "initial" /\ dispatching = Nil
    /\ IF exitRequested
       THEN pc' = "pending" /\ UNCHANGED <<fresh, prepared>>
       ELSE pc' = "preparing" /\ fresh' = {} /\ prepared' = {}
    /\ UNCHANGED <<stateVars, pending, before, dispatching, exitRequested, waitVars,
                   needChild, ready>>

ToPrepare == (setup.prepares \cap Online) \ prepared

\* A round of event_prepare() up to the callback; the order of them is left open.
PrepareNext ==
    /\ pc = "preparing" /\ dispatching = Nil
    /\ \E s \in ToPrepare :
          /\ dispatching' = s
          /\ prepared' = prepared \cup {s}
    /\ UNCHANGED <<stateVars, queueVars, pc, exitRequested, waitVars, needChild,
                   ready>>

\* Mutant: the loop goes to sleep over what is pending.
PrepareDone_sleeps ==
    /\ pc = "preparing" /\ dispatching = Nil
    /\ ToPrepare = {}
    /\ pc' = IF exitRequested THEN "pending" ELSE "epoll"
    /\ threshold' = INT64_MAX
    /\ sleep' = TRUE
    /\ UNCHANGED <<stateVars, queueVars, prepared, dispatching, exitRequested,
                   minPriority, needChild, ready>>

\* The end of sd_event_prepare(), and the start of the sd_event_wait() that it or
\* sd_event_run() calls.
PrepareDone ==
    /\ pc = "preparing" /\ dispatching = Nil
    /\ ToPrepare = {}
    /\ pc' = IF exitRequested THEN "pending" ELSE "epoll"
    /\ threshold' = INT64_MAX
    /\ sleep' = (event_next_pending = {} /\ ~ needChild)
    /\ UNCHANGED <<stateVars, queueVars, prepared, dispatching, exitRequested,
                   minPriority, needChild, ready>>

-----------------------------------------------------------------------------
(***************************************************************************)
(* sd_event_wait()                                                         *)
(***************************************************************************)
Readable == OfType({"io", "pidfd"}) \cap Online \cap ready
Queued   == OfType(SignalTypes) \cap Online \cap ready
Elapsed  == OfType({"time"}) \cap Online \cap ready
Expired  == {s \in ratelimited : window[s] = "over"}

\* process_signal() reads one signal for every priority, unless one is pending.
Reads(S) ==
    /\ S \subseteq Queued
    /\ \A q \in Queued :
          IF \E s \in pending \cap OfType(SignalTypes) : Priority(s) = Priority(q)
          THEN q \notin S
          ELSE Cardinality({s \in S : Priority(s) = Priority(q)}) = 1

\* epoll_wait() has nothing to return.
Blocks ==
    /\ sleep /\ threshold = INT64_MAX
    /\ Readable \cup Queued \cup Elapsed \cup Expired = {}

\* epoll_wait() returns EINTR.
Interrupted ==
    /\ pc = "epoll" /\ Blocks
    /\ pc' = "pending"
    /\ UNCHANGED <<stateVars, queueVars, prepared, dispatching, exitRequested, waitVars,
                   needChild, ready>>

\* process_epoll(): with a threshold set, anything above it is left for later.  A
\* signal is reported as news unless an event of lower priority came first.
process_epoll ==
    /\ pc = "epoll"
    /\ ~ Blocks
    /\ \E signals \in SUBSET Queued :
          LET fds == {s \in Readable : Priority(s) <= threshold}
              min == MinPriority(threshold, fds \cup signals)
          IN  /\ Reads(signals)
              /\ source_set_pending(fds \cup signals, {})
              /\ ready' = ready \ signals
              /\ minPriority' = min
              /\ needChild' = (needChild \/ \E c \in OfType({"sigchld"}) \cap Online :
                                  \E q \in Queued : Priority(q) = Priority(c))
              /\ \E bound \in {min, threshold} :
                    LET news == \/ fds \ pending # {}
                                \/ \E s \in signals : Priority(s) <= bound
                    IN
                    pc' = IF news \/ threshold = INT64_MAX THEN "child" ELSE "rest"
    /\ UNCHANGED <<stateVars, prepared, dispatching, exitRequested, threshold, sleep>>

\* Mutant: epoll_wait() is not called again.
process_child_once ==
    /\ pc = "child"
    /\ source_set_pending({s \in OfType({"child"}) \cap Online \cap ready :
                              needChild /\ Priority(s) <= threshold}, {})
    /\ pc' = "rest"
    /\ needChild' = FALSE
    /\ UNCHANGED <<stateVars, prepared, dispatching, exitRequested, waitVars, ready>>

\* process_child(), and back to epoll_wait() if a child has exited: by now there may
\* be events of lower priority, of which the exit is a consequence.
process_child ==
    /\ pc = "child"
    /\ LET exited == {s \in OfType({"child"}) \cap Online \cap ready :
                        needChild /\ Priority(s) <= threshold} \ pending
           min    == MinPriority(minPriority, exited)
       IN  /\ source_set_pending(exited, {})
           /\ IF exited = {} \/ min = INT64_MIN
              THEN pc' = "rest" /\ UNCHANGED threshold
              ELSE pc' = "epoll" /\ threshold' = min - 1
    /\ needChild' = FALSE
    /\ UNCHANGED <<stateVars, prepared, dispatching, exitRequested, minPriority, sleep,
                   ready>>

\* process_timer(), and the end of sd_event_wait().  When nothing is there after
\* all, sd_event_run() calls it once more, to sleep.
process_timer ==
    /\ pc = "rest"
    /\ UNCHANGED <<setup, sources, enabled, prepared, dispatching, exitRequested,
                   minPriority, needChild, ready>>
    /\ ratelimited' = ratelimited \ Expired
    /\ window' = [s \in Sources |-> IF s \in Expired THEN "none" ELSE window[s]]
    /\ source_set_pending(Elapsed, {})
    /\ IF event_next_pending' # {} THEN pc' = "pending" /\ UNCHANGED <<threshold, sleep>>
       ELSE IF sleep THEN pc' = "initial" /\ UNCHANGED <<threshold, sleep>>
       ELSE pc' = "epoll" /\ threshold' = INT64_MAX /\ sleep' = TRUE

-----------------------------------------------------------------------------
(***************************************************************************)
(* sd_event_dispatch()                                                     *)
(***************************************************************************)
event_source_enter_ratelimited(s) ==
    /\ ratelimited' = ratelimited \cup {s}
    /\ pc' = "initial"
    /\ UNCHANGED <<enabled, window, queueVars, dispatching>>

\* source_dispatch() up to the callback.
source_dispatch(s) ==
    IF s \in setup.limited /\ window[s] = "open"
    THEN event_source_enter_ratelimited(s)
    ELSE /\ window' = IF s \in setup.limited THEN [window EXCEPT ![s] = "open"]
                      ELSE window
         /\ source_set_pending(
                IF Type(s) = "post" THEN {} ELSE OfType({"post"}) \cap Online,
                IF Type(s) \in {"defer", "exit"} THEN {} ELSE {s})
         /\ enabled' = IF enabled[s] = "oneshot" THEN [enabled EXCEPT ![s] = "off"]
                       ELSE enabled
         /\ dispatching' = s
         /\ pc' = "running"
         /\ UNCHANGED ratelimited

Dispatch ==
    /\ pc = "pending" /\ ~ exitRequested
    /\ \/ \E s \in event_next_pending : source_dispatch(s)
       \/ /\ event_next_pending = {}
          /\ pc' = "initial"
          /\ UNCHANGED <<enabled, ratelimited, window, queueVars, dispatching>>
    /\ UNCHANGED <<setup, sources, prepared, exitRequested, waitVars, needChild, ready>>

ExitSources == OfType({"exit"}) \cap Online

\* The exit sources run one in an iteration; the others are not dispatched any more.
dispatch_exit ==
    /\ pc = "pending" /\ exitRequested
    /\ \/ \E s \in ExitSources :
             /\ \A t \in ExitSources : Priority(s) <= Priority(t)
             /\ source_dispatch(s)
       \/ /\ ExitSources = {}
          /\ pc' = "finished"
          /\ UNCHANGED <<enabled, ratelimited, window, queueVars, dispatching>>
    /\ UNCHANGED <<setup, sources, prepared, exitRequested, waitVars, needChild, ready>>

\* What turning source s off does to its pending flag.
Unpended(s) == IF Type(s) \in {"defer", "exit"} THEN {} ELSE {s}

\* The rest of source_dispatch() and of the round of event_prepare(): a callback that
\* fails disables its source, unless it has freed it; those of signals do not fail.
\* A child is reaped.
CallbackReturns ==
    /\ dispatching # Nil
    /\ \E failed \in BOOLEAN :
          IF failed /\ dispatching \in sources /\ Type(dispatching) \notin SignalTypes
          THEN /\ enabled' = [enabled EXCEPT ![dispatching] = "off"]
               /\ source_set_pending({}, Unpended(dispatching))
          ELSE UNCHANGED <<enabled, queueVars>>
    /\ ready' = IF pc = "running" /\ Type(dispatching) \in ChildTypes
                THEN ready \ {dispatching} ELSE ready
    /\ dispatching' = Nil
    /\ pc' = IF pc = "running" THEN "initial" ELSE pc
    /\ UNCHANGED <<setup, sources, ratelimited, window, prepared, exitRequested,
                   waitVars, needChild>>

-----------------------------------------------------------------------------
(***************************************************************************)
(* What callbacks, and manager_run() between two rounds, may call          *)
(***************************************************************************)
CanCall == dispatching # Nil \/ pc = "initial"

DefaultMode(s) ==
    IF Type(s) \in SignalTypes \cup {"io", "post"} THEN "on" ELSE "oneshot"

\* sd_event_add_io(), ..._time() and so on.
sd_event_add(s) ==
    /\ CanCall
    /\ s \in setup.churn \ sources /\ s # dispatching
    /\ sources' = sources \cup {s}
    /\ enabled' = [enabled EXCEPT ![s] = DefaultMode(s)]
    /\ source_set_pending(IF Type(s) = "defer" THEN {s} ELSE {}, {})
    /\ needChild' = (needChild \/ Type(s) = "child")
    /\ UNCHANGED <<setup, ratelimited, window, prepared, pc, dispatching, exitRequested,
                   waitVars, ready>>

\* Never called for a child or a signal.
sd_event_source_set_enabled(s, m) ==
    /\ CanCall
    /\ s \in setup.churn \cap sources /\ Type(s) \notin ChildTypes \cup SignalTypes
    /\ m \in {"off", DefaultMode(s)} \ {enabled[s]}
    /\ enabled' = [enabled EXCEPT ![s] = m]
    /\ source_set_pending({}, Unpended(s))
    /\ UNCHANGED <<setup, sources, ratelimited, window, prepared, pc, dispatching,
                   exitRequested, waitVars, needChild, ready>>

\* To a time in the future.
sd_event_source_set_time(s) ==
    /\ CanCall
    /\ s \in setup.churn \cap OfType({"time"})
    /\ source_set_pending({}, {s})
    /\ ready' = ready \ {s}
    /\ UNCHANGED <<stateVars, prepared, pc, dispatching, exitRequested, waitVars,
                   needChild>>

\* source_disconnect(): the source whose callback runs is freed after it.
sd_event_source_unref(s) ==
    /\ CanCall
    /\ s \in setup.churn \cap sources
    /\ sources' = sources \ {s}
    /\ enabled' = [enabled EXCEPT ![s] = "off"]
    /\ source_set_pending({}, {s})
    /\ ready' = ready \ {s}
    /\ prepared' = prepared \ {s}
    /\ ratelimited' = ratelimited \ {s}
    /\ window' = [window EXCEPT ![s] = "none"]
    /\ UNCHANGED <<setup, pc, dispatching, exitRequested, waitVars, needChild>>

\* The handler of SIGINT, SIGQUIT and SIGTERM.
sd_event_exit ==
    /\ dispatching # Nil /\ Type(dispatching) = "signal"
    /\ exitRequested' = TRUE
    /\ UNCHANGED <<stateVars, queueVars, prepared, pc, dispatching, waitVars, needChild,
                   ready>>

\* The callback of a descriptor reads what is there.
Drain ==
    /\ dispatching \in OfType({"io"})
    /\ ready' = ready \ {dispatching}
    /\ UNCHANGED <<stateVars, queueVars, prepared, pc, dispatching, exitRequested,
                   waitVars, needChild>>

-----------------------------------------------------------------------------
(***************************************************************************)
(* The kernel                                                              *)
(***************************************************************************)
\* Time stands still between the timestamp of sd_event_wait() and its use.
ClockRuns == pc \notin {"child", "rest"} /\ (pc = "epoll" => threshold = INT64_MAX)

\* A descriptor becomes readable, a signal arrives, a time comes, a child exits,
\* with a SIGCHLD to its parent.
BecomesReady(s) ==
    /\ s \in sources \ ready
    /\ Type(s) \in {"io", "signal", "time"} \cup ChildTypes
    /\ Type(s) = "time" => ClockRuns
    /\ ready' = ready \cup {s}
                  \cup (IF Type(s) \in ChildTypes THEN OfType({"sigchld"}) ELSE {})
    /\ UNCHANGED <<stateVars, queueVars, prepared, pc, dispatching, exitRequested,
                   waitVars, needChild>>

IntervalEnds(s) ==
    /\ ClockRuns
    /\ window[s] = "open"
    /\ window' = [window EXCEPT ![s] = "over"]
    /\ UNCHANGED <<setup, sources, enabled, ratelimited, queueVars, prepared, pc,
                   dispatching, exitRequested, waitVars, needChild, ready>>

-----------------------------------------------------------------------------
Init ==
    /\ setup \in Setups
    /\ sources = Sources
    /\ enabled = [s \in Sources |-> DefaultMode(s)]
    /\ ratelimited = {} /\ window = [s \in Sources |-> "none"]
    /\ pending = OfType({"defer"}) /\ fresh = pending /\ before = {}
    /\ prepared = {}
    /\ pc = "initial" /\ dispatching = Nil /\ exitRequested = FALSE
    /\ threshold = INT64_MAX /\ minPriority = INT64_MAX /\ sleep = FALSE
    /\ needChild = (OfType({"child"}) # {})
    /\ ready = {}
    /\ passed = {} /\ early = {}

Loop ==
    \/ Prepare \/ PrepareNext \/ PrepareDone
    \/ process_epoll \/ process_child \/ process_timer
    \/ Dispatch \/ dispatch_exit \/ CallbackReturns

Calls ==
    \/ sd_event_exit \/ Drain
    \/ \E s \in Sources :
          \/ sd_event_add(s) \/ sd_event_source_unref(s) \/ sd_event_source_set_time(s)
          \/ \E m \in {"off", "on", "oneshot"} : sd_event_source_set_enabled(s, m)

Kernel == Interrupted \/ \E s \in Sources : BecomesReady(s) \/ IntervalEnds(s)

\* A regular source is dispatched.
Dispatches == pc = "pending" /\ ~ exitRequested /\ pc' = "running"

\* History.  passed: the first was dispatched while the second, of the same
\* priority, was waiting, and that still waits.  early: the first, a descriptor of
\* lower priority value, was readable before the second, a child, exited, and has
\* not been dispatched since.
Remember ==
    /\ passed' = {p \in passed \cup
                     (IF Dispatches
                      THEN {dispatching'} \X {t \in pending \cap Online :
                              /\ t # dispatching'
                              /\ Priority(t) = Priority(dispatching')}
                      ELSE {}) : p[2] \in pending' \cap Online'}
    /\ early' = {p \in early \cup
                    {q \in ready \X (ready' \ ready) :
                        /\ Type(q[1]) = "io" /\ Type(q[2]) \in ChildTypes
                        /\ Priority(q[1]) < Priority(q[2])} :
                    /\ p[1] \in ready' \cap Online' /\ p[2] \in ready'
                    /\ ~ (Dispatches /\ dispatching' = p[1])}

Next == (Loop \/ Calls \/ Kernel) /\ Remember

Spec == Init /\ [][Next]_vars

Iterate == Loop /\ Remember

\* The thread runs on, and callbacks return.
FairSpec == Spec /\ WF_vars(Iterate)

-----------------------------------------------------------------------------
(***************************************************************************)
(* Properties                                                              *)
(***************************************************************************)
\* Of sources with the same priority that wait together, none is dispatched again
\* before each of the others has been.  Deferred sources are excepted: they keep
\* the iteration in which they were added, and so go first whenever they are on.
FairWithinPriority ==
    [][Dispatches => \/ Type(dispatching') = "defer"
                     \/ \A t \in Sources : <<dispatching', t>> \notin passed]_vars

\* What a child's exit is the consequence of is dispatched before the exit, if it
\* is more important: what was readable before the child exited comes first, even
\* when both happen between epoll_wait() and waitid().
CauseBeforeExit ==
    [][Dispatches => \A t \in Sources : <<t, dispatching'>> \notin early]_vars

Waits(s) ==
    event_source_is_online(s) /\ ~ exitRequested /\ s \in ready \cup pending

\* t is dispatched before s whenever both are pending.
MoreImportant(t, s) ==
    \/ Priority(t) < Priority(s)
    \/ Priority(t) = Priority(s) /\ Type(t) = "defer"

\* A source that waits is dispatched, unless it is disabled, freed or drained
\* before or more important ones wait again and again: the loop neither starves a
\* source nor falls asleep over it.
Served ==
    \A s \in Sources :
        []<>(\/ ~ Waits(s)
             \/ dispatching = s
             \/ \E t \in Sources \ {s} : MoreImportant(t, s) /\ Waits(t))
=============================================================================
