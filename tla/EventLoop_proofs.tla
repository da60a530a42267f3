-------------------------- MODULE EventLoop_proofs --------------------------
(***************************************************************************)
(* Proofs about the order in which the event loop dispatches its sources:  *)
(* the turns of those with the same priority, and a child's exit after     *)
(* what led to it; and that it does not sleep over one that waits.  They   *)
(* hold for any sources; the theorems say what they need of their setup.   *)
(***************************************************************************)
EXTENDS EventLoop, TLAPS

LOCAL Numbers == INSTANCE Lists_proofs

\* The sd_event_prepare() of this iteration is over or runs, and no callback but a
\* prepare callback does.
Waiting == pc \in {"preparing", "epoll", "child", "rest", "pending"}

\* The pending sources are there and are dispatched by priority, and callbacks run
\* only where the loop runs them.
QueueInv ==
    /\ sources \subseteq Sources
    /\ pending \subseteq sources /\ \A s \in pending : Type(s) # "exit"
    /\ dispatching # Nil => pc \in {"running", "preparing"}

\* A step of the loop, a callback or the kernel without the history.
Step == Loop \/ Calls \/ Kernel

-----------------------------------------------------------------------------
(***************************************************************************)
(* The queue                                                               *)
(***************************************************************************)
\* Online sources of a type are sources, and not of another type.
LEMMA OfTypes ==
    ASSUME NEW T, NEW s \in OfType(T)
    PROVE  s \in sources /\ Type(s) \in T
BY DEF OfType

\* The setup stays, and nobody takes sd_event_exit() back.
LEMMA Fixed ==
    ASSUME Step
    PROVE  setup' = setup /\ (exitRequested => exitRequested')
<1> USE DEF stateVars
<1>1. CASE Loop
  <2>1. CASE Prepare \/ PrepareNext \/ PrepareDone \/ CallbackReturns
    BY <2>1 DEF Prepare, PrepareNext, PrepareDone, CallbackReturns
  <2>2. CASE process_epoll
    BY <2>2 DEF process_epoll
  <2>3. CASE process_child \/ process_timer
    BY <2>3 DEF process_child, process_timer
  <2>4. CASE Dispatch \/ dispatch_exit
    BY <2>4 DEF Dispatch, dispatch_exit
  <2> QED BY <1>1, <2>1, <2>2, <2>3, <2>4 DEF Loop
<1>2. CASE Calls
  <2>1. CASE sd_event_exit \/ Drain
    BY <2>1 DEF sd_event_exit, Drain
  <2>2. ASSUME NEW s \in Sources, sd_event_add(s) \/ sd_event_source_unref(s)
        PROVE  setup' = setup /\ exitRequested' = exitRequested
    BY <2>2 DEF sd_event_add, sd_event_source_unref
  <2>3. ASSUME NEW s \in Sources, NEW m,
               sd_event_source_set_time(s) \/ sd_event_source_set_enabled(s, m)
        PROVE  setup' = setup /\ exitRequested' = exitRequested
    BY <2>3 DEF sd_event_source_set_time, sd_event_source_set_enabled
  <2> QED BY <1>2, <2>1, <2>2, <2>3 DEF Calls
<1>3. CASE Kernel
  BY <1>3 DEF Kernel, Interrupted, BecomesReady, IntervalEnds
<1> QED BY <1>1, <1>2, <1>3 DEF Step

\* What a step that is not the start of an iteration does to the queue: sources become
\* pending that are there and are not exit sources, and only deferred ones do so while
\* an ordinary callback runs or between two iterations.
Queues(on, off) ==
    /\ source_set_pending(on, off) \/ (on = {} /\ UNCHANGED queueVars)
    /\ \A s \in on : /\ s \in sources' /\ Type(s) # "exit"
                     /\ Type(s) = "defer" \/ Waiting
    /\ Waiting' => Waiting

\* A regular source is dispatched, and is pending no more unless it is a deferred one.
Picks(s) ==
    /\ Dispatches /\ dispatching' = s
    /\ \E on, off \in SUBSET Sources :
          /\ Queues(on, off) /\ source_set_pending(on, off)
          /\ Type(s) # "defer" => off = {s}

\* None is.
Quiet == ~ Dispatches /\ \E on, off \in SUBSET Sources : Queues(on, off)

\* The part of source_dispatch() that is about the queue.
LEMMA SourceDispatch ==
    ASSUME QueueInv, NEW s \in Sources, source_dispatch(s), pc = "pending", UNCHANGED sources
    PROVE  /\ pc' \in {"initial", "running"}
           /\ \E on, off \in SUBSET Sources :
                 /\ Queues(on, off)
                 /\ pc' = "running" => source_set_pending(on, off)
                 /\ pc' = "running" /\ Type(s) \notin {"defer", "exit"} => off = {s}
           /\ pc' = "running" => dispatching' = s
           /\ pc' = "initial" => dispatching' = dispatching
<1>1. CASE s \in setup.limited /\ window[s] = "open"
  <2>1. pc' = "initial" /\ UNCHANGED queueVars /\ dispatching' = dispatching
    BY <1>1 DEF source_dispatch, event_source_enter_ratelimited
  <2>2. Queues({}, {})
    BY <2>1 DEF Queues, Waiting
  <2> QED BY <2>1, <2>2
<1>2. CASE ~ (s \in setup.limited /\ window[s] = "open")
  <2> DEFINE on == IF Type(s) = "post" THEN {} ELSE OfType({"post"}) \cap Online
             off == IF Type(s) \in {"defer", "exit"} THEN {} ELSE {s}
  <2>1. source_set_pending(on, off) /\ pc' = "running" /\ dispatching' = s
    BY <1>2 DEF source_dispatch
  <2>2. \A x \in on : x \in sources /\ Type(x) = "post"
    BY OfTypes
  <2>3. on \in SUBSET Sources /\ off \in SUBSET Sources
    BY <2>2 DEF QueueInv
  <2>4. Type(s) \notin {"defer", "exit"} => off = {s}
    OBVIOUS
  <2> HIDE DEF on, off
  <2>5. Queues(on, off)
    BY <2>1, <2>2 DEF Queues, Waiting
  <2> QED BY <2>1, <2>3, <2>4, <2>5
<1> QED BY <1>1, <1>2

\* The kinds of steps, as far as the queue goes: an iteration starts, a regular source
\* is dispatched, or neither.
LEMMA QueueKinds ==
    ASSUME QueueInv, Step
    PROVE  \/ Prepare
           \/ \E s \in event_next_pending : Picks(s)
           \/ Quiet
<1>1. ASSUME NEW on \in SUBSET Sources, NEW off \in SUBSET Sources, Queues(on, off),
             ~ Dispatches
      PROVE  Quiet
  BY <1>1 DEF Quiet
<1>2. ASSUME UNCHANGED queueVars, Waiting \/ ~ Waiting', ~ Dispatches
      PROVE  Quiet
  <2>1. Queues({}, {}) /\ ~ Dispatches
    BY <1>2 DEF Queues
  <2>2. {} \in SUBSET Sources
    OBVIOUS
  <2> QED BY <1>1, <2>1, <2>2
<1>3. CASE PrepareNext \/ PrepareDone
  <2>1. UNCHANGED queueVars /\ Waiting /\ pc = "preparing"
    BY <1>3 DEF PrepareNext, PrepareDone, Waiting, queueVars
  <2> QED BY <1>2, <2>1 DEF Dispatches
<1>4. CASE process_epoll
  <2>1. PICK signals \in SUBSET Queued :
               source_set_pending({s \in Readable : Priority(s) <= threshold}
                                    \cup signals, {})
    BY <1>4 DEF process_epoll
  <2> DEFINE on == {s \in Readable : Priority(s) <= threshold} \cup signals
  <2>2. /\ pc = "epoll" /\ pc' \in {"child", "rest"} /\ UNCHANGED stateVars
    BY <1>4 DEF process_epoll
  <2>3. \A s \in on : s \in sources /\ Type(s) \in {"io", "pidfd", "signal", "sigchld"}
    BY OfTypes DEF Readable, Queued, SignalTypes
  <2> HIDE DEF on
  <2>4. Queues(on, {}) /\ ~ Dispatches
    BY <2>1, <2>2, <2>3 DEF Queues, Waiting, Dispatches, stateVars, on
  <2>5. on \in SUBSET Sources
    BY <2>3 DEF QueueInv
  <2> QED BY <1>1, <2>4, <2>5
<1>5. CASE process_child
  <2> DEFINE on == {s \in OfType({"child"}) \cap Online \cap ready :
                       needChild /\ Priority(s) <= threshold} \ pending
  <2>1. /\ source_set_pending(on, {})
        /\ pc = "child" /\ pc' \in {"rest", "epoll"} /\ UNCHANGED stateVars
    BY <1>5 DEF process_child
  <2>2. \A s \in on : s \in sources /\ Type(s) = "child"
    BY OfTypes
  <2> HIDE DEF on
  <2>3. Queues(on, {}) /\ ~ Dispatches
    BY <2>1, <2>2 DEF Queues, Waiting, Dispatches, stateVars
  <2>4. on \in SUBSET Sources
    BY <2>2 DEF QueueInv
  <2> QED BY <1>1, <2>3, <2>4
<1>6. CASE process_timer
  <2>1. /\ source_set_pending(Elapsed, {})
        /\ pc = "rest" /\ pc' \in {"pending", "initial", "epoll"} /\ UNCHANGED sources
    BY <1>6 DEF process_timer
  <2>2. \A s \in Elapsed : s \in sources /\ Type(s) = "time"
    BY OfTypes DEF Elapsed
  <2>3. Queues(Elapsed, {}) /\ ~ Dispatches
    BY <2>1, <2>2 DEF Queues, Waiting, Dispatches
  <2>4. Elapsed \in SUBSET Sources
    BY <2>2 DEF QueueInv
  <2> QED BY <1>1, <2>3, <2>4
<1>7. CASE Dispatch
  <2>1. pc = "pending" /\ ~ exitRequested /\ UNCHANGED sources
    BY <1>7 DEF Dispatch
  <2>2. CASE pc' = "initial" /\ UNCHANGED queueVars
    <3>1. ~ Waiting' /\ ~ Dispatches
      BY <2>2 DEF Waiting, Dispatches
    <3> QED BY <1>2, <2>2, <3>1
  <2>3. ASSUME NEW s \in event_next_pending, source_dispatch(s)
        PROVE  Picks(s) \/ Quiet
    <3>1. s \in Sources /\ Type(s) # "exit"
      BY DEF event_next_pending, QueueInv
    <3>2. PICK on \in SUBSET Sources, off \in SUBSET Sources :
                 /\ Queues(on, off)
                 /\ pc' = "running" => source_set_pending(on, off)
                 /\ pc' = "running" /\ Type(s) \notin {"defer", "exit"} => off = {s}
      BY <2>1, <2>3, <3>1, SourceDispatch
    <3>3. CASE pc' = "running"
      BY <2>1, <2>3, <3>1, <3>2, <3>3, SourceDispatch DEF Dispatches, Picks
    <3>4. CASE pc' # "running"
      BY <1>1, <3>2, <3>4 DEF Dispatches
    <3> QED BY <3>3, <3>4
  <2> QED BY <1>7, <2>2, <2>3 DEF Dispatch
<1>8. CASE dispatch_exit
  <2>1. pc = "pending" /\ exitRequested /\ UNCHANGED sources
    BY <1>8 DEF dispatch_exit
  <2>2. CASE pc' = "finished" /\ UNCHANGED queueVars
    <3>1. ~ Waiting' /\ ~ Dispatches
      BY <2>2 DEF Waiting, Dispatches
    <3> QED BY <1>2, <2>2, <3>1
  <2>3. ASSUME NEW s \in ExitSources, source_dispatch(s) PROVE Quiet
    <3>1. s \in Sources
      BY OfTypes DEF ExitSources, QueueInv
    <3>2. PICK on \in SUBSET Sources, off \in SUBSET Sources : Queues(on, off)
      BY <2>1, <2>3, <3>1, SourceDispatch
    <3> QED BY <1>1, <2>1, <3>2 DEF Dispatches
  <2> QED BY <1>8, <2>2, <2>3 DEF dispatch_exit
<1>9. CASE CallbackReturns
  <2>1. pc' \in {"initial", pc} /\ (pc' = pc => pc # "running") /\ UNCHANGED sources
    BY <1>9 DEF CallbackReturns
  <2>2. CASE UNCHANGED queueVars
    <3>1. (Waiting \/ ~ Waiting') /\ ~ Dispatches
      BY <2>1 DEF Waiting, Dispatches
    <3> QED BY <1>2, <2>2, <3>1
  <2>3. CASE dispatching \in sources /\ source_set_pending({}, Unpended(dispatching))
    <3>1. Unpended(dispatching) \in SUBSET Sources
      BY <2>3 DEF Unpended, QueueInv
    <3>2. Queues({}, Unpended(dispatching)) /\ ~ Dispatches
      BY <2>1, <2>3 DEF Queues, Waiting, Dispatches
    <3> QED BY <1>1, <3>1, <3>2
  <2> QED BY <1>9, <2>2, <2>3 DEF CallbackReturns
<1>10. ASSUME NEW s \in Sources, sd_event_add(s) PROVE Quiet
  <2> DEFINE on == IF Type(s) = "defer" THEN {s} ELSE {}
  <2>1. source_set_pending(on, {}) /\ pc' = pc /\ sources' = sources \cup {s}
    BY <1>10 DEF sd_event_add
  <2>2. \A x \in on : x \in sources' /\ Type(x) = "defer"
    BY <2>1
  <2>3. on \in SUBSET Sources
    OBVIOUS
  <2> HIDE DEF on
  <2>4. Queues(on, {}) /\ ~ Dispatches
    BY <2>1, <2>2 DEF Queues, Waiting, Dispatches
  <2> QED BY <1>1, <2>3, <2>4
<1>11. ASSUME NEW s \in Sources, NEW off \in SUBSET Sources,
              source_set_pending({}, off), pc' = pc
       PROVE  Quiet
  BY <1>1, <1>11 DEF Queues, Waiting, Dispatches
<1>12. ASSUME NEW s \in Sources, NEW m, sd_event_source_set_enabled(s, m) PROVE Quiet
  BY <1>11, <1>12 DEF sd_event_source_set_enabled, Unpended
<1>13. ASSUME NEW s \in Sources, sd_event_source_unref(s) \/ sd_event_source_set_time(s)
       PROVE  Quiet
  BY <1>11, <1>13 DEF sd_event_source_unref, sd_event_source_set_time
<1>14. CASE sd_event_exit \/ Drain
  <2>1. UNCHANGED <<pc, queueVars>>
    BY <1>14 DEF sd_event_exit, Drain, queueVars
  <2>2. (Waiting \/ ~ Waiting') /\ ~ Dispatches
    BY <2>1 DEF Waiting, Dispatches
  <2> QED BY <1>2, <2>1, <2>2
<1>15. CASE Interrupted
  <2>1. UNCHANGED queueVars /\ Waiting /\ pc = "epoll"
    BY <1>15 DEF Interrupted, Waiting, queueVars
  <2> QED BY <1>2, <2>1 DEF Dispatches
<1>16. ASSUME NEW s \in Sources, BecomesReady(s) \/ IntervalEnds(s) PROVE Quiet
  <2>1. UNCHANGED <<pc, queueVars>>
    BY <1>16 DEF BecomesReady, IntervalEnds, queueVars
  <2>2. (Waiting \/ ~ Waiting') /\ ~ Dispatches
    BY <2>1 DEF Waiting, Dispatches
  <2> QED BY <1>2, <2>1, <2>2
<1> QED BY <1>3, <1>4, <1>5, <1>6, <1>7, <1>8, <1>9, <1>10, <1>12, <1>13, <1>14, <1>15,
           <1>16
        DEF Step, Loop, Calls, Kernel

\* Sources come and go by sd_event_add_...() and sd_event_source_unref() only.
LEMMA SourcesKept ==
    ASSUME Step
    PROVE  \/ sources' = sources
           \/ \E s \in Sources : sd_event_add(s) /\ sources' = sources \cup {s}
           \/ \E s \in Sources : sd_event_source_unref(s)
<1> USE DEF stateVars
<1>1. CASE Loop
  <2>1. CASE Prepare \/ PrepareNext \/ PrepareDone \/ CallbackReturns
    BY <2>1 DEF Prepare, PrepareNext, PrepareDone, CallbackReturns
  <2>2. CASE process_epoll
    BY <2>2 DEF process_epoll
  <2>3. CASE process_child \/ process_timer
    BY <2>3 DEF process_child, process_timer
  <2>4. CASE Dispatch \/ dispatch_exit
    BY <2>4 DEF Dispatch, dispatch_exit
  <2> QED BY <1>1, <2>1, <2>2, <2>3, <2>4 DEF Loop
<1>2. CASE Calls
  <2>1. CASE sd_event_exit \/ Drain
    BY <2>1 DEF sd_event_exit, Drain
  <2>2. ASSUME NEW s \in Sources, sd_event_add(s)
        PROVE  sources' = sources \cup {s}
    BY <2>2 DEF sd_event_add
  <2>3. ASSUME NEW s \in Sources, NEW m,
               sd_event_source_set_time(s) \/ sd_event_source_set_enabled(s, m)
        PROVE  sources' = sources
    BY <2>3 DEF sd_event_source_set_time, sd_event_source_set_enabled
  <2> QED BY <1>2, <2>1, <2>2, <2>3 DEF Calls
<1>3. CASE Kernel
  BY <1>3 DEF Kernel, Interrupted, BecomesReady, IntervalEnds
<1> QED BY <1>1, <1>2, <1>3 DEF Step

\* A callback runs only where the loop runs it.
LEMMA CallbacksKept ==
    ASSUME QueueInv, Step
    PROVE  dispatching' # Nil => pc' \in {"running", "preparing"}
<1>1. CASE Prepare \/ PrepareNext \/ PrepareDone \/ CallbackReturns
  BY <1>1 DEF Prepare, PrepareNext, PrepareDone, CallbackReturns
<1>2. CASE process_epoll
  BY <1>2 DEF process_epoll, QueueInv
<1>3. CASE process_child \/ process_timer
  BY <1>3 DEF process_child, process_timer, QueueInv
<1>4. CASE Dispatch \/ dispatch_exit
  <2>1. ASSUME NEW s, source_dispatch(s), pc = "pending"
        PROVE  dispatching' = dispatching \/ pc' = "running"
    BY <2>1 DEF source_dispatch, event_source_enter_ratelimited
  <2>2. pc = "pending" /\ (dispatching' = dispatching \/ pc' = "running")
    BY <1>4, <2>1 DEF Dispatch, dispatch_exit
  <2> QED BY <2>2 DEF QueueInv
<1>5. CASE Calls
  <2>1. ASSUME NEW s \in Sources, NEW m,
               \/ sd_event_add(s) \/ sd_event_source_unref(s)
               \/ sd_event_source_set_time(s) \/ sd_event_source_set_enabled(s, m)
        PROVE  UNCHANGED <<pc, dispatching>>
    BY <2>1 DEF sd_event_add, sd_event_source_unref, sd_event_source_set_time,
       sd_event_source_set_enabled
  <2>2. UNCHANGED <<pc, dispatching>>
    BY <1>5, <2>1 DEF Calls, sd_event_exit, Drain
  <2> QED BY <2>2 DEF QueueInv
<1>6. CASE Kernel
  BY <1>6 DEF Kernel, Interrupted, BecomesReady, IntervalEnds, QueueInv
<1> QED BY <1>1, <1>2, <1>3, <1>4, <1>5, <1>6 DEF Step, Loop

\* Every step keeps the queue in order.
LEMMA NextQueueInv ==
    ASSUME QueueInv, [Next]_vars
    PROVE  QueueInv'
<1>1. CASE UNCHANGED vars
  BY <1>1 DEF vars, stateVars, queueVars, QueueInv, Type
<1>2. CASE Next
  <2>1. Step /\ setup' = setup
    BY <1>2, Fixed DEF Next, Step
  <2>2. sources' \subseteq Sources
    BY <2>1, SourcesKept DEF QueueInv, sd_event_source_unref
  <2>3. ASSUME NEW on \in SUBSET Sources, NEW off \in SUBSET Sources, Queues(on, off)
        PROVE  pending' \subseteq sources' /\ \A s \in pending' : Type(s) # "exit"
    <3>1. \A s \in pending' : s \in pending \/ s \in on
      BY <2>3 DEF Queues, source_set_pending, queueVars
    <3>2. \A s \in on : s \in sources' /\ Type(s) # "exit"
      BY <2>3 DEF Queues
    <3>3. CASE sources \subseteq sources'
      BY <3>1, <3>2, <3>3 DEF QueueInv
    <3>4. ASSUME NEW s \in Sources, sd_event_source_unref(s)
          PROVE  pending' \subseteq sources' /\ \A x \in pending' : Type(x) # "exit"
      BY <3>4 DEF sd_event_source_unref, source_set_pending, QueueInv
    <3> QED BY <2>1, <3>3, <3>4, SourcesKept
  <2>4. pending' \subseteq sources' /\ \A s \in pending' : Type(s) # "exit"
    <3>1. CASE Prepare
      BY <3>1 DEF Prepare, QueueInv, stateVars
    <3> QED BY <2>1, <2>3, <3>1, QueueKinds DEF Picks, Quiet
  <2>5. dispatching' # Nil => pc' \in {"running", "preparing"}
    BY <2>1, CallbacksKept
  <2> QED BY <2>1, <2>2, <2>4, <2>5 DEF QueueInv, Type
<1> QED BY <1>1, <1>2

\* The queue is in order at first.
LEMMA InitQueueInv == Init => QueueInv
BY DEF Init, QueueInv, OfType, Type

\* The queue is always in order.
LEMMA QueueInvariant == Spec => []QueueInv
BY InitQueueInv, NextQueueInv, PTL DEF Spec

-----------------------------------------------------------------------------
(***************************************************************************)
(* Turns                                                                   *)
(***************************************************************************)
\* What is remembered of a source that was passed over: it has waited ever since, and
\* is ahead of the one that went first, which was new when it became pending again.
PassedInv ==
    /\ \A p \in passed : /\ p \in Sources \X Sources
                         /\ Priority(p[1]) = Priority(p[2])
                         /\ p[2] \in pending \cap Online
    /\ ~ exitRequested =>
          \A s, t \in Sources : <<s, t>> \in passed /\ Type(s) # "defer" =>
             /\ s \in pending => <<t, s>> \in before
             /\ Waiting => t \notin fresh

\* What became pending is behind what is passed over, and what is passed over stays old.
LEMMA StillAhead ==
    ASSUME QueueInv, PassedInv, NEW on \in SUBSET Sources, NEW off \in SUBSET Sources,
           Queues(on, off), ~ exitRequested,
           NEW s \in Sources, NEW t \in Sources, <<s, t>> \in passed, Type(s) # "defer",
           t \in pending'
    PROVE  /\ s \in pending' => <<t, s>> \in before'
           /\ Waiting' => t \notin fresh'
<1>1. /\ t \in pending /\ (s \in pending => <<t, s>> \in before)
      /\ Waiting => t \notin fresh
  BY DEF PassedInv
<1>2. CASE UNCHANGED queueVars
  BY <1>1, <1>2 DEF queueVars, Queues
<1>3. CASE source_set_pending(on, off)
  <2>1. t \notin off
    BY <1>1, <1>3 DEF source_set_pending
  <2>2. Waiting' => t \notin fresh'
    BY <1>1, <1>3 DEF source_set_pending, Queues
  <2>3. CASE s \in pending
    <3>1. s \in pending' => s \notin off
      BY <1>3, <2>3 DEF source_set_pending
    <3> QED BY <1>1, <1>3, <2>1, <2>2, <2>3, <3>1 DEF source_set_pending
  <2>4. CASE s \notin pending /\ s \in pending'
    <3>1. s \in on
      BY <1>3, <2>4 DEF source_set_pending
    <3>2. t \in pending \ (fresh \cup off) /\ s \in on \ pending
      BY <1>1, <2>1, <2>4, <3>1 DEF Queues
    <3>3. <<t, s>> \in before'
      BY <1>3, <3>2 DEF source_set_pending
    <3> QED BY <2>2, <3>3
  <2> QED BY <2>2, <2>3, <2>4
<1> QED BY <1>2, <1>3 DEF Queues

\* Every step keeps it.
LEMMA NextPassedInv ==
    ASSUME QueueInv, PassedInv, [Next]_vars
    PROVE  PassedInv'
<1>1. CASE UNCHANGED vars
  BY <1>1 DEF vars, stateVars, queueVars, PassedInv, Type, Priority, Online,
     event_source_is_online, Waiting
<1>2. CASE Next
  <2>1. Step /\ setup' = setup /\ (exitRequested => exitRequested') /\ Remember
    BY <1>2, Fixed DEF Next, Step
  <2>2. ASSUME NEW p \in passed'
        PROVE  /\ p \in Sources \X Sources /\ Priority(p[1]) = Priority(p[2])
               /\ p[2] \in pending' \cap Online'
               /\ p \in passed \/ (Dispatches /\ p[1] = dispatching')
    <3>1. /\ p[2] \in pending' \cap Online'
          /\ \/ p \in passed
             \/ /\ Dispatches
                /\ p \in {dispatching'} \X {t \in pending \cap Online :
                              /\ t # dispatching'
                              /\ Priority(t) = Priority(dispatching')}
      BY <2>1, <2>2 DEF Remember
    <3>2. CASE p \in passed
      BY <3>1, <3>2 DEF PassedInv
    <3>3. CASE Dispatches /\ p \notin passed
      <4>1. PICK s \in event_next_pending : Picks(s)
        BY <2>1, <3>3, QueueKinds DEF Quiet, Prepare, Dispatches
      <4>2. dispatching' \in Sources /\ pending \subseteq Sources
        BY <4>1 DEF Picks, event_next_pending, QueueInv
      <4> QED BY <3>1, <3>3, <4>2
    <3> QED BY <3>1, <3>2, <3>3
  <2>3. ASSUME ~ exitRequested', NEW s \in Sources, NEW t \in Sources,
               <<s, t>> \in passed', Type(s) # "defer"
        PROVE  /\ s \in pending' => <<t, s>> \in before'
               /\ Waiting' => t \notin fresh'
    <3>1. ~ exitRequested /\ t \in pending'
      BY <2>1, <2>2, <2>3
    <3>2. CASE Prepare
      BY <2>1, <2>2, <2>3, <3>1, <3>2 DEF Prepare, Dispatches, PassedInv
    <3>3. ASSUME NEW x \in event_next_pending, Picks(x)
          PROVE  /\ s \in pending' => <<t, s>> \in before'
                 /\ Waiting' => t \notin fresh'
      <4>1. PICK on \in SUBSET Sources, off \in SUBSET Sources :
               /\ Queues(on, off) /\ source_set_pending(on, off)
               /\ Type(x) # "defer" => off = {x}
        BY <3>3 DEF Picks
      <4>2. CASE <<s, t>> \in passed
        BY <2>3, <3>1, <4>1, <4>2, StillAhead
      <4>3. CASE s = x
        <5>1. s \in pending /\ off = {s} /\ pc' = "running"
          BY <2>3, <3>3, <4>1, <4>3 DEF event_next_pending, Picks, Dispatches
        <5>2. s \notin pending'
          BY <4>1, <5>1 DEF source_set_pending
        <5> QED BY <5>1, <5>2 DEF Waiting
      <4> QED BY <2>2, <2>3, <3>3, <4>2, <4>3 DEF Picks
    <3>4. CASE Quiet
      <4>1. PICK on \in SUBSET Sources, off \in SUBSET Sources : Queues(on, off)
        BY <3>4 DEF Quiet
      <4>2. <<s, t>> \in passed
        BY <2>2, <2>3, <3>4 DEF Quiet
      <4> QED BY <2>3, <3>1, <4>1, <4>2, StillAhead
    <3> QED BY <2>1, <3>2, <3>3, <3>4, QueueKinds
  <2> QED BY <2>1, <2>2, <2>3 DEF PassedInv, Type, Priority
<1> QED BY <1>1, <1>2

\* Nobody has been passed over at first.
LEMMA PassedInvariant == Spec => []PassedInv
<1>1. Init => PassedInv
  BY DEF Init, PassedInv
<1> QED BY <1>1, QueueInvariant, NextPassedInv, PTL DEF Spec

\* Of sources with the same priority that wait together, none is dispatched again
\* before each of the others has been: pending_prioq_compare() takes the one with the
\* older pending_iteration, which source_set_pending() sets.
THEOREM TurnsAreKept == Spec => FairWithinPriority
<1>1. QueueInv /\ PassedInv /\ [Next]_vars =>
        [Dispatches => \/ Type(dispatching') = "defer"
                       \/ \A t \in Sources : <<dispatching', t>> \notin passed]_vars
  <2> SUFFICES ASSUME QueueInv, PassedInv, Next, Dispatches, Type(dispatching') # "defer",
                      NEW t \in Sources, <<dispatching', t>> \in passed
               PROVE  FALSE
    OBVIOUS
  <2>1. PICK s \in event_next_pending : Picks(s)
    BY QueueKinds DEF Next, Step, Quiet, Prepare, Dispatches
  <2>2. s = dispatching' /\ s \in pending \cap Online /\ s \in Sources
    BY <2>1 DEF Picks, event_next_pending, QueueInv
  <2>3. t \in pending \cap Online /\ Priority(s) = Priority(t) /\ ~ exitRequested
    BY <2>2 DEF PassedInv, Dispatches
  <2>4. <<t, s>> \in before
    BY <2>2, <2>3 DEF PassedInv
  <2> QED BY <2>1, <2>3, <2>4 DEF event_next_pending, Precedes
<1> QED BY <1>1, QueueInvariant, PassedInvariant, PTL DEF Spec, FairWithinPriority

-----------------------------------------------------------------------------
(***************************************************************************)
(* A child's exit                                                          *)
(***************************************************************************)
\* Integers that are bounded below have a least one.
LEMMA MinOfBounded ==
    ASSUME NEW T \in SUBSET Int, T # {}, NEW b \in Int, \A x \in T : b <= x
    PROVE  Min(T) \in T /\ \A y \in T : Min(T) <= y
<1> DEFINE D == {x - b : x \in T}
<1>1. \A x \in T : x - b \in Nat
  OBVIOUS
<1>2. D \in SUBSET Nat /\ D # {}
  BY <1>1
<1> HIDE DEF D
<1>3. PICK d \in D : \A y \in D : d <= y
  BY <1>2, Numbers!LeastNatural
<1>4. PICK x \in T : d = x - b
  BY <1>3 DEF D
<1>5. \A y \in T : x <= y
  <2> SUFFICES ASSUME NEW y \in T PROVE x <= y
    OBVIOUS
  <2>1. y - b \in D
    BY DEF D
  <2> QED BY <1>3, <1>4, <2>1
<1> QED BY <1>4, <1>5 DEF Min

\* What the theorem needs of a setup: priorities are of type int64_t.
PrioritiesBounded ==
    \A u \in Setups : \A s \in Sources : u.priority[s] \in INT64_MIN .. INT64_MAX

\* The setup is one of them, and the bounds of sd_event_wait() are numbers.
NumberInv ==
    /\ setup \in Setups
    /\ \A s \in Sources : Priority(s) \in INT64_MIN .. INT64_MAX
    /\ threshold \in Int /\ minPriority \in Int

\* The least priority is one of those it is taken of.
LEMMA MinPriorityIs ==
    ASSUME NumberInv, NEW p \in Int, NEW S \in SUBSET Sources
    PROVE  /\ MinPriority(p, S) \in Int /\ MinPriority(p, S) <= p
           /\ \A s \in S : MinPriority(p, S) <= Priority(s)
           /\ MinPriority(p, S) = p \/ \E s \in S : MinPriority(p, S) = Priority(s)
<1> DEFINE T == {p} \cup {Priority(s) : s \in S}
<1>1. \A s \in S : Priority(s) \in Int /\ INT64_MIN <= Priority(s)
  BY DEF NumberInv, INT64_MIN
<1>2. T \in SUBSET Int /\ T # {}
  BY <1>1
<1>3. PICK b \in Int : b <= p /\ b <= INT64_MIN
  <2>1. CASE p <= INT64_MIN
    BY <2>1
  <2>2. CASE INT64_MIN <= p
    BY <2>2 DEF INT64_MIN
  <2> QED BY <2>1, <2>2 DEF INT64_MIN
<1>4. \A x \in T : b <= x
  BY <1>1, <1>3 DEF INT64_MIN
<1>5. Min(T) \in T /\ \A y \in T : Min(T) <= y
  <2> HIDE DEF T
  <2> QED BY <1>2, <1>3, <1>4, MinOfBounded
<1>6. MinPriority(p, S) = Min(T)
  BY DEF MinPriority
<1> QED BY <1>1, <1>5, <1>6

\* Every step keeps the numbers.
LEMMA NextNumberInv ==
    ASSUME QueueInv, NumberInv, [Next]_vars
    PROVE  NumberInv'
<1>1. CASE UNCHANGED vars
  BY <1>1 DEF vars, stateVars, waitVars, NumberInv, Priority
<1>2. CASE Next
  <2>1. Step /\ setup' = setup
    BY <1>2, Fixed DEF Next, Step
  <2>2. threshold' \in Int /\ minPriority' \in Int
    <3> USE DEF waitVars
    <3>1. CASE PrepareDone
      BY <3>1 DEF PrepareDone, NumberInv, INT64_MAX
    <3>2. CASE process_epoll
      <4>1. PICK signals \in SUBSET Queued :
               minPriority' = MinPriority(threshold,
                  {s \in Readable : Priority(s) <= threshold} \cup signals)
        BY <3>2 DEF process_epoll
      <4>2. {s \in Readable : Priority(s) <= threshold} \cup signals \in SUBSET Sources
        BY OfTypes DEF Readable, Queued, QueueInv
      <4>3. minPriority' \in Int
        BY <4>1, <4>2, MinPriorityIs DEF NumberInv
      <4> QED BY <3>2, <4>3 DEF process_epoll, NumberInv
    <3>3. CASE process_child
      <4> DEFINE exited == {s \in OfType({"child"}) \cap Online \cap ready :
                              needChild /\ Priority(s) <= threshold} \ pending
      <4>1. exited \in SUBSET Sources
        BY OfTypes DEF QueueInv
      <4>2. /\ threshold' = threshold \/ threshold' = MinPriority(minPriority, exited) - 1
            /\ UNCHANGED minPriority
        BY <3>3 DEF process_child
      <4> HIDE DEF exited
      <4> QED BY <4>1, <4>2, MinPriorityIs DEF NumberInv
    <3>4. CASE process_timer
      BY <3>4 DEF process_timer, NumberInv, INT64_MAX
    <3>5. CASE Prepare \/ PrepareNext \/ CallbackReturns
      BY <3>5 DEF Prepare, PrepareNext, CallbackReturns, NumberInv
    <3>6. CASE Dispatch \/ dispatch_exit
      BY <3>6 DEF Dispatch, dispatch_exit, NumberInv
    <3>7. ASSUME NEW s \in Sources, NEW m,
                 \/ sd_event_add(s) \/ sd_event_source_unref(s)
                 \/ sd_event_source_set_time(s) \/ sd_event_source_set_enabled(s, m)
          PROVE  UNCHANGED waitVars
      BY <3>7 DEF sd_event_add, sd_event_source_unref, sd_event_source_set_time,
         sd_event_source_set_enabled
    <3>8. CASE Calls
      <4>1. UNCHANGED waitVars
        BY <3>7, <3>8 DEF Calls, sd_event_exit, Drain
      <4> QED BY <4>1 DEF NumberInv
    <3>9. CASE Kernel
      BY <3>9 DEF Kernel, Interrupted, BecomesReady, IntervalEnds, NumberInv
    <3> QED BY <2>1, <3>1, <3>2, <3>3, <3>4, <3>5, <3>6, <3>8, <3>9 DEF Step, Loop
  <2> QED BY <2>1, <2>2 DEF NumberInv, Priority
<1> QED BY <1>1, <1>2

\* A child that is pending has exited, one whose callback runs is pending no more, and
\* what is remembered of causes: a descriptor that is readable and on, and a child of a
\* higher priority value that has exited.
ExitInv ==
    /\ ready \subseteq Sources
    /\ \A c \in pending : Type(c) \in ChildTypes => c \in ready
    /\ pc = "running" /\ Type(dispatching) \in ChildTypes => dispatching \notin pending
    /\ \A p \in early :
          /\ p \in Sources \X Sources
          /\ p[1] \in ready \cap Online /\ Type(p[1]) = "io"
          /\ p[2] \in ready /\ Type(p[2]) \in ChildTypes
          /\ Priority(p[1]) < Priority(p[2])

\* The part of it about callbacks.
LEMMA ExitRunning ==
    ASSUME QueueInv, ExitInv, Step, pc' = "running", Type(dispatching') \in ChildTypes
    PROVE  dispatching' \notin pending'
<1> USE DEF ChildTypes
<1>1. ASSUME NEW s \in Sources, source_dispatch(s), pc = "pending",
             s \in pending \/ Type(s) = "exit"
      PROVE  dispatching' \notin pending'
  <2>1. dispatching' = s /\ Type(s) \notin {"defer", "exit"}
    BY <1>1, SourceDispatch DEF source_dispatch, event_source_enter_ratelimited
  <2>2. \E on : source_set_pending(on, {s})
    BY <1>1, <2>1 DEF source_dispatch, event_source_enter_ratelimited
  <2> QED BY <1>1, <2>1, <2>2 DEF source_set_pending
<1>2. CASE Dispatch
  BY <1>1, <1>2 DEF Dispatch, event_next_pending, QueueInv
<1>3. CASE dispatch_exit
  <2>1. ASSUME NEW s \in ExitSources PROVE s \in Sources /\ Type(s) = "exit"
    BY OfTypes DEF ExitSources, QueueInv
  <2> QED BY <1>1, <1>3, <2>1 DEF dispatch_exit
<1>4. CASE pc = "running" /\ dispatching' = dispatching /\ Quiet
  <2>1. PICK on \in SUBSET Sources, off \in SUBSET Sources : Queues(on, off)
    BY <1>4 DEF Quiet
  <2>2. dispatching \notin on /\ dispatching \notin pending
    BY <1>4, <2>1 DEF Queues, Waiting, ExitInv
  <2> QED BY <1>4, <2>1, <2>2 DEF Queues, source_set_pending, queueVars
<1>5. CASE \/ Prepare \/ PrepareNext \/ PrepareDone \/ process_epoll \/ process_child
           \/ process_timer \/ CallbackReturns
  <2>1. pc' # "running"
    <3>1. CASE process_epoll
      BY <3>1 DEF process_epoll
    <3>2. CASE process_child \/ process_timer
      BY <3>2 DEF process_child, process_timer
    <3>3. CASE Prepare \/ PrepareNext \/ PrepareDone \/ CallbackReturns
      BY <3>3 DEF Prepare, PrepareNext, PrepareDone, CallbackReturns
    <3> QED BY <1>5, <3>1, <3>2, <3>3
  <2> QED BY <2>1
<1>6. CASE Calls \/ Kernel
  <2>1. ASSUME NEW s \in Sources, NEW m,
               \/ sd_event_add(s) \/ sd_event_source_unref(s)
               \/ sd_event_source_set_time(s) \/ sd_event_source_set_enabled(s, m)
        PROVE  UNCHANGED <<pc, dispatching>>
    BY <2>1 DEF sd_event_add, sd_event_source_unref, sd_event_source_set_time,
       sd_event_source_set_enabled
  <2>2. UNCHANGED <<pc, dispatching>>
    <3>1. CASE Calls
      BY <2>1, <3>1 DEF Calls, sd_event_exit, Drain
    <3>2. CASE Kernel
      BY <3>2 DEF Kernel, Interrupted, BecomesReady, IntervalEnds
    <3> QED BY <1>6, <3>1, <3>2
  <2>3. ~ Prepare /\ ~ Dispatches
    BY <2>2 DEF Prepare, Dispatches
  <2> QED BY <1>4, <2>2, <2>3, QueueKinds DEF Picks
<1> QED BY <1>2, <1>3, <1>5, <1>6 DEF Step, Loop

\* The part of it about children that are pending.
LEMMA ExitPending ==
    ASSUME QueueInv, ExitInv, Step
    PROVE  /\ ready' \subseteq Sources
           /\ \A c \in pending' : Type(c) \in ChildTypes => c \in ready'
<1> USE DEF ChildTypes
<1> DEFINE Good == /\ ready' \subseteq Sources
                   /\ \A c \in pending' : Type(c) \in ChildTypes => c \in ready'
<1>1. ASSUME ready \subseteq ready', ready' \subseteq Sources,
             \A c \in pending' : Type(c) \in ChildTypes => c \in pending \/ c \in ready
      PROVE  Good
  BY <1>1 DEF ExitInv
<1>2. ASSUME NEW on, NEW off, source_set_pending(on, off)
      PROVE  \A c \in pending' : (c \in pending /\ c \notin off) \/ c \in on
  BY <1>2 DEF source_set_pending
<1>3. CASE Prepare \/ PrepareNext \/ PrepareDone
  BY <1>3 DEF Prepare, PrepareNext, PrepareDone, queueVars, ExitInv
<1>4. CASE process_epoll
  <2>1. PICK signals \in SUBSET Queued :
          /\ source_set_pending({s \in Readable : Priority(s) <= threshold}
                                    \cup signals, {})
          /\ ready' = ready \ signals
    BY <1>4 DEF process_epoll
  <2>2. \A s \in signals : Type(s) \in {"signal", "sigchld"}
    BY <2>1, OfTypes DEF Queued, SignalTypes
  <2>3. Readable \subseteq ready
    BY DEF Readable
  <2> QED BY <2>1, <2>2, <2>3, <1>2 DEF ExitInv
<1>5. CASE process_child
  <2>1. /\ source_set_pending({s \in OfType({"child"}) \cap Online \cap ready :
                       needChild /\ Priority(s) <= threshold} \ pending, {})
        /\ ready' = ready
    BY <1>5 DEF process_child
  <2>2. \A c \in pending' : c \in pending \/ c \in ready
    BY <1>2, <2>1
  <2> QED BY <1>1, <2>1, <2>2 DEF ExitInv
<1>6. CASE process_timer
  <2>1. source_set_pending(Elapsed, {}) /\ ready' = ready
    BY <1>6 DEF process_timer
  <2>2. \A c \in pending' : c \in pending \/ c \in ready
    BY <1>2, <2>1 DEF Elapsed
  <2> QED BY <1>1, <2>1, <2>2 DEF ExitInv
<1>7. CASE Dispatch \/ dispatch_exit
  <2>1. ASSUME NEW s, source_dispatch(s)
        PROVE  \A c \in pending' : c \in pending \/ Type(c) = "post"
    <3>1. CASE s \in setup.limited /\ window[s] = "open"
      BY <2>1, <3>1 DEF source_dispatch, event_source_enter_ratelimited, queueVars
    <3>2. CASE ~ (s \in setup.limited /\ window[s] = "open")
      <4> DEFINE on == IF Type(s) = "post" THEN {} ELSE OfType({"post"}) \cap Online
                 off == IF Type(s) \in {"defer", "exit"} THEN {} ELSE {s}
      <4>1. source_set_pending(on, off)
        BY <2>1, <3>2 DEF source_dispatch
      <4>2. \A x \in on : Type(x) = "post"
        BY OfTypes
      <4> HIDE DEF on, off
      <4> QED BY <1>2, <4>1, <4>2
    <3> QED BY <3>1, <3>2
  <2>2. \A c \in pending' : c \in pending \/ Type(c) = "post"
    BY <1>7, <2>1 DEF Dispatch, dispatch_exit, queueVars
  <2>3. ready' = ready
    BY <1>7 DEF Dispatch, dispatch_exit
  <2> QED BY <1>1, <2>2, <2>3 DEF ExitInv
<1>8. CASE CallbackReturns
  <2>1. \A c \in pending' : c \in pending
    BY <1>2, <1>8 DEF CallbackReturns, queueVars
  <2>2. ready' = IF pc = "running" /\ Type(dispatching) \in ChildTypes
                 THEN ready \ {dispatching} ELSE ready
    BY <1>8 DEF CallbackReturns
  <2> QED BY <2>1, <2>2 DEF ExitInv
<1>9. ASSUME NEW s \in Sources, sd_event_add(s) PROVE Good
  <2>1. \A c \in pending' : c \in pending \/ Type(c) = "defer"
    BY <1>2, <1>9 DEF sd_event_add
  <2>2. ready' = ready
    BY <1>9 DEF sd_event_add
  <2> QED BY <1>1, <2>1, <2>2 DEF ExitInv
<1>10. ASSUME NEW s \in Sources, sd_event_source_unref(s) \/ sd_event_source_set_time(s)
       PROVE  Good
  <2>1. source_set_pending({}, {s}) /\ ready' = ready \ {s}
    BY <1>10 DEF sd_event_source_unref, sd_event_source_set_time
  <2>2. \A c \in pending' : c \in pending /\ c # s
    BY <1>2, <2>1
  <2> QED BY <2>1, <2>2 DEF ExitInv
<1>11. ASSUME NEW s \in Sources, NEW m, sd_event_source_set_enabled(s, m) PROVE Good
  <2>1. \A c \in pending' : c \in pending
    BY <1>2, <1>11 DEF sd_event_source_set_enabled
  <2>2. ready' = ready
    BY <1>11 DEF sd_event_source_set_enabled
  <2> QED BY <1>1, <2>1, <2>2 DEF ExitInv
<1>12. CASE sd_event_exit \/ Drain
  <2>1. CASE sd_event_exit
    BY <2>1 DEF sd_event_exit, queueVars, ExitInv
  <2>2. CASE Drain
    <3>1. Type(dispatching) = "io" /\ ready' = ready \ {dispatching} /\ pending' = pending
      BY <2>2, OfTypes DEF Drain, queueVars
    <3> QED BY <3>1 DEF ExitInv
  <2> QED BY <1>12, <2>1, <2>2
<1>13. CASE Kernel
  <2>1. UNCHANGED pending /\ ready \subseteq ready'
    BY <1>13 DEF Kernel, Interrupted, BecomesReady, IntervalEnds, queueVars
  <2>2. ready' \subseteq Sources
    <3>1. ASSUME NEW s \in Sources, BecomesReady(s) PROVE ready' \subseteq Sources
      <4>1. OfType({"sigchld"}) \subseteq Sources
        BY OfTypes DEF QueueInv
      <4> QED BY <3>1, <4>1 DEF BecomesReady, ExitInv
    <3> QED BY <1>13, <3>1 DEF Kernel, Interrupted, IntervalEnds, ExitInv
  <2> QED BY <1>1, <2>1, <2>2
<1> QED BY <1>3, <1>4, <1>5, <1>6, <1>7, <1>8, <1>9, <1>10, <1>11, <1>12, <1>13
        DEF Step, Loop, Calls

\* Every step keeps it.
LEMMA NextExitInv ==
    ASSUME QueueInv, ExitInv, [Next]_vars
    PROVE  ExitInv'
<1>1. CASE UNCHANGED vars
  BY <1>1 DEF vars, stateVars, queueVars, ExitInv, Type, Priority, Online,
     event_source_is_online
<1>2. CASE Next
  <2>1. Step /\ setup' = setup /\ Remember
    BY <1>2, Fixed DEF Next, Step
  <2>2. ready' \subseteq Sources
    BY <2>1, ExitPending
  <2>3. ASSUME NEW p \in early'
        PROVE  /\ p \in Sources \X Sources
               /\ p[1] \in ready' \cap Online' /\ Type(p[1]) = "io"
               /\ p[2] \in ready' /\ Type(p[2]) \in ChildTypes
               /\ Priority(p[1]) < Priority(p[2])
    <3>1. /\ p[1] \in ready' \cap Online' /\ p[2] \in ready'
          /\ \/ p \in early
             \/ /\ p \in ready \X (ready' \ ready)
                /\ Type(p[1]) = "io" /\ Type(p[2]) \in ChildTypes
                /\ Priority(p[1]) < Priority(p[2])
      BY <2>1, <2>3 DEF Remember
    <3>2. CASE p \in early
      BY <3>1, <3>2 DEF ExitInv
    <3>3. CASE p \in ready \X (ready' \ ready)
      BY <2>2, <3>1, <3>2, <3>3 DEF ExitInv
    <3> QED BY <3>1, <3>2, <3>3
  <2>4. /\ \A c \in pending' : Type(c) \in ChildTypes => c \in ready'
        /\ (pc' = "running" /\ Type(dispatching') \in ChildTypes)
              => dispatching' \notin pending'
    BY <2>1, ExitPending, ExitRunning
  <2> QED BY <2>1, <2>2, <2>3, <2>4 DEF ExitInv, Type, Priority
<1> QED BY <1>1, <1>2

\* A pending source of the priority p that can be dispatched.
Led(p) == \E x \in pending \cap Online : Priority(x) = p

\* While sd_event_wait() goes on, a child's exit is behind something more important as
\* long as what led to it is not dispatched: by the time waitid() is called what is
\* readable is pending, or more important than that is.
CauseInv ==
    ~ exitRequested =>
      /\ pc \in {"child", "rest", "pending"} =>
            \A t, c \in Sources : <<t, c>> \in early /\ c \in pending =>
               \E x \in pending \cap Online : Priority(x) < Priority(c)
      /\ pc = "child" => minPriority = INT64_MAX \/ Led(minPriority)
      /\ pc = "epoll" => threshold = INT64_MAX \/ Led(threshold + 1)

\* A cause that is remembered was readable before the exit, so none is new unless
\* something becomes ready.
LEMMA EarlyShrinks ==
    ASSUME Remember, ready' \subseteq ready
    PROVE  early' \subseteq early
BY DEF Remember

\* process_epoll() leaves every exit that is pending behind something.
LEMMA EpollCause ==
    ASSUME QueueInv, NumberInv, ExitInv, CauseInv, Remember, setup' = setup,
           process_epoll
    PROVE  CauseInv'
<1>1. PICK signals \in SUBSET Queued :
        LET fds == {s \in Readable : Priority(s) <= threshold}
            min == MinPriority(threshold, fds \cup signals)
        IN  /\ source_set_pending(fds \cup signals, {})
            /\ ready' = ready \ signals
            /\ minPriority' = min
            /\ \E bound \in {min, threshold} :
                  LET news == \/ fds \ pending # {}
                              \/ \E s \in signals : Priority(s) <= bound
                  IN  pc' = IF news \/ threshold = INT64_MAX THEN "child" ELSE "rest"
  BY DEF process_epoll
<1> DEFINE fds == {s \in Readable : Priority(s) <= threshold}
           S == fds \cup signals
<1>2. /\ pc = "epoll" /\ UNCHANGED <<stateVars, exitRequested>>
      /\ pc' \in {"child", "rest"}
  BY DEF process_epoll
<1>3. Online' = Online /\ pending \subseteq pending' /\ S \subseteq pending'
  BY <1>1, <1>2 DEF Online, event_source_is_online, stateVars, source_set_pending
<1>4. S \subseteq Online /\ S \in SUBSET Sources
  BY <1>1, OfTypes DEF Readable, Queued, QueueInv
<1>5. early' \subseteq early
  BY <1>1, EarlyShrinks
<1>6. \A s \in Sources : Priority(s) \in Int /\ Priority(s) <= INT64_MAX
  BY DEF NumberInv, INT64_MIN, INT64_MAX
<1>7. threshold \in Int /\ (\A s \in fds : Priority(s) <= threshold)
  BY DEF NumberInv
<1>8. ASSUME ~ exitRequested', NEW t \in Sources, NEW c \in Sources, <<t, c>> \in early'
      PROVE  \E x \in pending' \cap Online' : Priority(x) < Priority(c)
  <2>1. t \in ready \cap Online /\ Type(t) = "io" /\ Priority(t) < Priority(c)
    BY <1>5, <1>8 DEF ExitInv
  <2>2. t \in Readable
    BY <2>1 DEF Readable, OfType, Online
  <2>3. CASE Priority(t) <= threshold
    <3>1. t \in S
      BY <2>2, <2>3
    <3> QED BY <1>3, <1>4, <2>1, <3>1
  <2>4. CASE ~ (Priority(t) <= threshold)
    <3>1. threshold # INT64_MAX
      BY <1>6, <2>4
    <3>2. PICK x \in pending \cap Online : Priority(x) = threshold + 1
      BY <1>2, <1>8, <3>1 DEF CauseInv, Led
    <3>3. threshold + 1 <= Priority(t)
      BY <1>6, <1>7, <2>4
    <3>4. Priority(x) < Priority(c)
      BY <1>6, <1>7, <2>1, <3>2, <3>3
    <3> QED BY <1>3, <3>2, <3>4
  <2> QED BY <2>3, <2>4
<1>9. ASSUME pc' = "child"
      PROVE  minPriority' = INT64_MAX \/ \E x \in pending' \cap Online' :
                                            Priority(x) = minPriority'
  <2> DEFINE min == MinPriority(threshold, S)
  <2>1. /\ min \in Int /\ min <= threshold /\ \A s \in S : min <= Priority(s)
        /\ min = threshold \/ \E s \in S : min = Priority(s)
    BY <1>4, <1>7, MinPriorityIs
  <2>2. minPriority' = min
    BY <1>1
  <2>3. PICK bound \in {min, threshold} :
          \/ fds \ pending # {} \/ \E s \in signals : Priority(s) <= bound
          \/ threshold = INT64_MAX
    BY <1>1, <1>9
  <2> HIDE DEF min, fds
  <2>4. CASE \E s \in S : Priority(s) <= threshold
    <3>1. \E s \in S : min = Priority(s)
      BY <1>4, <1>6, <1>7, <2>1, <2>4
    <3> QED BY <1>3, <1>4, <2>2, <3>1
  <2>5. CASE threshold = INT64_MAX
    BY <1>3, <1>4, <2>1, <2>2, <2>5
  <2>6. ASSUME NEW s \in signals, Priority(s) <= bound PROVE Priority(s) <= threshold
    BY <1>4, <1>6, <1>7, <2>1, <2>3, <2>6
  <2>7. ASSUME fds \ pending # {} PROVE \E s \in S : Priority(s) <= threshold
    BY <1>7, <2>7
  <2> QED BY <2>3, <2>4, <2>5, <2>6, <2>7
<1> HIDE DEF fds, S
<1>10. CASE ~ exitRequested'
  BY <1>2, <1>8, <1>9, <1>10 DEF CauseInv, Led, Priority, stateVars
<1> QED BY <1>10 DEF CauseInv

\* process_child() calls epoll_wait() again for what is more important than the exits,
\* or there is nothing more important.
LEMMA ChildCause ==
    ASSUME QueueInv, NumberInv, ExitInv, CauseInv, Remember, setup' = setup,
           process_child
    PROVE  CauseInv'
<1> DEFINE exited == {s \in OfType({"child"}) \cap Online \cap ready :
                        needChild /\ Priority(s) <= threshold} \ pending
           min == MinPriority(minPriority, exited)
<1>1. /\ pc = "child" /\ source_set_pending(exited, {})
      /\ \/ (exited = {} \/ min = INT64_MIN) /\ pc' = "rest"
         \/ exited # {} /\ pc' = "epoll" /\ threshold' = min - 1
      /\ UNCHANGED <<stateVars, exitRequested, minPriority, ready>>
  BY DEF process_child
<1>2. exited \in SUBSET Sources /\ exited \subseteq Online
  BY OfTypes DEF QueueInv
<1>3. minPriority \in Int
  BY DEF NumberInv
<1>4. /\ min \in Int /\ min <= minPriority /\ \A s \in exited : min <= Priority(s)
      /\ min = minPriority \/ \E s \in exited : min = Priority(s)
  BY <1>2, <1>3, MinPriorityIs
<1> HIDE DEF exited, min
<1>5. /\ Online' = Online /\ pending \subseteq pending' /\ exited \subseteq pending'
      /\ pending' \subseteq pending \cup exited
  BY <1>1 DEF Online, event_source_is_online, stateVars, source_set_pending
<1>6. early' \subseteq early
  BY <1>1, EarlyShrinks
<1>7. \A s \in Sources : /\ Priority(s) \in Int
                         /\ INT64_MIN <= Priority(s) /\ Priority(s) <= INT64_MAX
  BY DEF NumberInv, INT64_MIN, INT64_MAX
<1>8. ASSUME ~ exitRequested, exited # {}
      PROVE  \E x \in pending' \cap Online' : Priority(x) = min
  <2>1. CASE \E s \in exited : min = Priority(s)
    BY <1>2, <1>5, <2>1
  <2>2. CASE min = minPriority /\ minPriority = INT64_MAX
    <3>1. PICK s \in exited : TRUE
      BY <1>8
    <3>2. Priority(s) = min
      BY <1>2, <1>4, <1>7, <2>2, <3>1 DEF INT64_MAX
    <3> QED BY <1>2, <1>5, <3>1, <3>2
  <2>3. CASE min = minPriority /\ Led(minPriority)
    BY <1>5, <2>3 DEF Led
  <2> QED BY <1>1, <1>4, <1>8, <2>1, <2>2, <2>3 DEF CauseInv
<1>9. ASSUME ~ exitRequested, pc' = "rest", NEW t \in Sources, NEW c \in Sources,
             <<t, c>> \in early', c \in pending'
      PROVE  \E x \in pending' \cap Online' : Priority(x) < Priority(c)
  <2>1. Priority(t) < Priority(c)
    BY <1>6, <1>9 DEF ExitInv
  <2>2. CASE c \in pending
    BY <1>1, <1>5, <1>6, <1>9, <2>2 DEF CauseInv
  <2>3. CASE c \in exited
    <3>1. min = INT64_MIN /\ exited # {}
      BY <1>1, <1>9, <2>3
    <3>2. min < Priority(c)
      BY <1>4, <1>7, <2>1, <3>1
    <3> QED BY <1>8, <1>9, <3>1, <3>2
  <2> QED BY <1>5, <1>9, <2>2, <2>3
<1>10. ASSUME ~ exitRequested, pc' = "epoll"
       PROVE  \E x \in pending' \cap Online' : Priority(x) = threshold' + 1
  <2>1. exited # {} /\ threshold' + 1 = min
    BY <1>1, <1>4, <1>10
  <2> QED BY <1>8, <1>10, <2>1
<1>11. exitRequested' = exitRequested /\ pc' \in {"rest", "epoll"}
  BY <1>1
<1> QED BY <1>9, <1>10, <1>11 DEF CauseInv, Led, Priority

\* process_timer() takes nothing away.
LEMMA TimerCause ==
    ASSUME QueueInv, ExitInv, CauseInv, Remember, setup' = setup, process_timer
    PROVE  CauseInv'
<1>1. /\ pc = "rest" /\ source_set_pending(Elapsed, {})
      /\ UNCHANGED <<sources, enabled, exitRequested, ready>>
      /\ ratelimited' = ratelimited \ Expired
      /\ \/ pc' \in {"pending", "initial"}
         \/ pc' = "epoll" /\ threshold' = INT64_MAX
  BY DEF process_timer
<1>2. Online \subseteq Online' /\ pending \subseteq pending'
      /\ pending' \subseteq pending \cup Elapsed
  BY <1>1 DEF Online, event_source_is_online, source_set_pending
<1>3. early' \subseteq early
  BY <1>1, EarlyShrinks
<1>4. ASSUME ~ exitRequested, NEW t \in Sources, NEW c \in Sources,
             <<t, c>> \in early', c \in pending'
      PROVE  \E x \in pending' \cap Online' : Priority(x) < Priority(c)
  <2>1. Type(c) \in ChildTypes
    BY <1>3, <1>4 DEF ExitInv
  <2>2. c \in pending
    BY <1>2, <1>4, <2>1, OfTypes DEF Elapsed, ChildTypes
  <2> QED BY <1>1, <1>2, <1>3, <1>4, <2>2 DEF CauseInv
<1> QED BY <1>1, <1>4 DEF CauseInv, Led, Priority

\* Every step keeps it.
LEMMA NextCauseInv ==
    ASSUME QueueInv, NumberInv, ExitInv, CauseInv, [Next]_vars
    PROVE  CauseInv'
<1>1. CASE UNCHANGED vars
  BY <1>1 DEF vars, stateVars, queueVars, waitVars, CauseInv, Led, Priority, Online,
     event_source_is_online
<1>2. CASE Next
  <2>1. Step /\ setup' = setup /\ Remember /\ (exitRequested => exitRequested')
    BY <1>2, Fixed DEF Next, Step
  <2>2. CASE Prepare \/ PrepareNext
    <3>1. exitRequested' \/ pc' = "preparing"
      BY <2>2 DEF Prepare, PrepareNext
    <3> QED BY <3>1 DEF CauseInv
  <2>3. CASE PrepareDone
    <3>1. exitRequested' \/ (pc' = "epoll" /\ threshold' = INT64_MAX)
      BY <2>3 DEF PrepareDone
    <3> QED BY <3>1 DEF CauseInv
  <2>4. CASE Dispatch \/ dispatch_exit
    <3>1. pc' \in {"initial", "running", "finished"}
      BY <2>4 DEF Dispatch, dispatch_exit, source_dispatch, event_source_enter_ratelimited
    <3> QED BY <3>1 DEF CauseInv
  <2>5. ASSUME pc \in {"initial", "running", "preparing"}, pc' \in {pc, "initial"}
        PROVE  CauseInv'
    BY <2>5 DEF CauseInv
  <2>6. CASE CallbackReturns
    BY <2>5, <2>6 DEF CallbackReturns, QueueInv
  <2>7. ASSUME NEW s \in Sources, NEW m,
               \/ sd_event_add(s) \/ sd_event_source_unref(s)
               \/ sd_event_source_set_time(s) \/ sd_event_source_set_enabled(s, m)
        PROVE  CanCall /\ pc' = pc
    BY <2>7 DEF sd_event_add, sd_event_source_unref, sd_event_source_set_time,
       sd_event_source_set_enabled
  <2>8. CASE Calls
    <3>1. CASE Drain
      <4>1. dispatching \in sources /\ pc' = pc /\ UNCHANGED <<stateVars, queueVars, waitVars,
               exitRequested>> /\ ready' \subseteq ready
        BY <3>1, OfTypes DEF Drain
      <4>2. early' \subseteq early
        BY <2>1, <4>1, EarlyShrinks
      <4> QED BY <4>1, <4>2 DEF CauseInv, Led, Priority, Online, event_source_is_online,
                 stateVars, queueVars, waitVars
    <3>2. CASE sd_event_exit
      BY <3>2 DEF sd_event_exit, CauseInv
    <3>3. CASE CanCall /\ pc' = pc
      BY <2>5, <3>3 DEF CanCall, QueueInv
    <3> QED BY <2>7, <2>8, <3>1, <3>2, <3>3 DEF Calls
  <2>9. CASE Interrupted
    <3>1. Readable = {} /\ ready' = ready /\ pc' = "pending"
      BY <2>9 DEF Interrupted, Blocks
    <3>2. early' \subseteq early
      BY <2>1, <3>1, EarlyShrinks
    <3>3. ASSUME NEW t \in Sources, NEW c \in Sources, <<t, c>> \in early' PROVE FALSE
      <4>1. t \in ready \cap Online /\ Type(t) = "io"
        BY <3>2, <3>3 DEF ExitInv
      <4> QED BY <3>1, <4>1 DEF Readable, OfType, Online
    <3> QED BY <3>1, <3>3 DEF CauseInv
  <2>10. ASSUME NEW s \in Sources, BecomesReady(s) \/ IntervalEnds(s) PROVE CauseInv'
    <3>1. /\ UNCHANGED <<sources, enabled, ratelimited, queueVars, pc, exitRequested,
                         waitVars>>
      BY <2>10 DEF BecomesReady, IntervalEnds, stateVars
    <3>2. ASSUME NEW t \in Sources, NEW c \in Sources, <<t, c>> \in early', c \in pending
          PROVE  <<t, c>> \in early
      <4>1. \/ <<t, c>> \in early
            \/ <<t, c>> \in ready \X (ready' \ ready) /\ Type(<<t, c>>[2]) \in ChildTypes
        BY <2>1, <3>2 DEF Remember
      <4> QED BY <3>2, <4>1 DEF ExitInv
    <3> QED BY <2>1, <3>1, <3>2 DEF CauseInv, Led, Priority, Online,
               event_source_is_online, queueVars, waitVars
  <2> QED BY <2>1, <2>2, <2>3, <2>4, <2>6, <2>8, <2>9, <2>10, EpollCause, ChildCause,
             TimerCause DEF Step, Loop, Kernel
<1> QED BY <1>1, <1>2

\* What a child's exit is the consequence of is dispatched before the exit, if it is
\* more important: sd_event_wait() calls epoll_wait() again after waitid(), up to the
\* priority below what it has found.
THEOREM CausesComeFirst == PrioritiesBounded /\ Spec => CauseBeforeExit
<1> SUFFICES ASSUME PrioritiesBounded PROVE Spec => CauseBeforeExit
  BY DEF PrioritiesBounded
<1>1. Init => NumberInv
  BY DEF PrioritiesBounded, Init, NumberInv, Priority, INT64_MAX, INT64_MIN
<1>2. Init => ExitInv
  BY DEF Init, ExitInv, OfType, ChildTypes
<1>3. Init => CauseInv
  BY DEF Init, CauseInv
<1>4. QueueInv /\ ExitInv /\ CauseInv /\ NumberInv /\ [Next]_vars =>
        [Dispatches => \A t \in Sources : <<t, dispatching'>> \notin early]_vars
  <2> SUFFICES ASSUME QueueInv, ExitInv, CauseInv, NumberInv, Next, Dispatches,
                      NEW t \in Sources, <<t, dispatching'>> \in early
               PROVE  FALSE
    OBVIOUS
  <2>1. PICK s \in event_next_pending : Picks(s)
    BY QueueKinds DEF Next, Step, Quiet, Prepare, Dispatches
  <2>2. s = dispatching' /\ s \in pending \cap Online /\ s \in Sources
    BY <2>1 DEF Picks, event_next_pending, QueueInv
  <2>3. \E x \in pending \cap Online : Priority(x) < Priority(s)
    BY <2>2 DEF CauseInv, Dispatches
  <2> QED BY <2>1, <2>3 DEF event_next_pending, Precedes
<1> QED BY <1>1, <1>2, <1>3, <1>4, QueueInvariant, NextNumberInv, NextExitInv,
           NextCauseInv, PTL DEF Spec, CauseBeforeExit

-----------------------------------------------------------------------------
(***************************************************************************)
(* Sleep.  That a source that waits is served is liveness and left to TLC; *)
(* that the loop never sleeps over one is proved.                          *)
(***************************************************************************)
\* A SIGCHLD source that nobody frees or limits.
Listener(g) ==
    Type(g) = "sigchld" /\ g \notin setup.churn /\ g \notin setup.limited

\* What the theorem needs of a setup: there is one child without a pidfd at a time, it
\* has no rate limit, and SIGCHLD is listened to.
ChildHeard ==
    \A u \in Setups : \A c \in Sources : u.type[c] = "child" =>
        /\ c \notin u.limited
        /\ \A d \in Sources : u.type[d] = "child" => d = c
        /\ \E g \in Sources : /\ u.type[g] = "sigchld"
                              /\ g \notin u.churn /\ g \notin u.limited

\* The kernel reports sources that are there, the limited ones have a limit, and those
\* that listen are on.
ReadyInv ==
    /\ enabled \in [Sources -> {"off", "on", "oneshot"}]
    /\ ready \subseteq sources
    /\ \A s \in ready : Type(s) \in {"io", "time"} \cup SignalTypes \cup ChildTypes
    /\ ratelimited \subseteq setup.limited
    /\ \A g \in Sources : Listener(g) => g \in sources /\ enabled[g] = "on"

\* An exit that is not pending is about to be looked for, or its SIGCHLD is unread.  In
\* the second round of epoll_wait() and after it the child is pending already.
HeardOf(c) ==
    /\ enabled[c] \in {"off", "oneshot"}
    /\ c \in ready /\ enabled[c] # "off" /\ c \notin pending
         => needChild \/ \E g \in Sources : Listener(g) /\ g \in ready
    /\ pc \in {"epoll", "child"} /\ threshold # INT64_MAX => c \in pending
    /\ needChild /\ (pc = "rest" \/ (pc = "epoll" /\ sleep /\ threshold = INT64_MAX))
         => c \in pending

HeardInv == \A c \in sources : Type(c) = "child" => HeardOf(c)

\* The loop has nothing pending when it is about to sleep.
SleepInv == pc = "epoll" /\ sleep /\ threshold = INT64_MAX => event_next_pending = {}

\* No callback runs and none is called where sd_event_wait() is.
LEMMA NoCallsInWait ==
    ASSUME QueueInv, Calls, ~ Drain
    PROVE  pc \notin {"epoll", "child", "rest"} /\ UNCHANGED <<pc, waitVars>>
<1>1. ASSUME NEW s \in Sources, NEW m,
             \/ sd_event_add(s) \/ sd_event_source_unref(s)
             \/ sd_event_source_set_time(s) \/ sd_event_source_set_enabled(s, m)
      PROVE  CanCall /\ UNCHANGED <<pc, waitVars>>
  BY <1>1 DEF sd_event_add, sd_event_source_unref, sd_event_source_set_time,
              sd_event_source_set_enabled
<1>2. CASE sd_event_exit
  BY <1>2 DEF sd_event_exit, QueueInv
<1>3. CASE CanCall /\ UNCHANGED <<pc, waitVars>>
  BY <1>3 DEF CanCall, QueueInv
<1> QED BY <1>1, <1>2, <1>3 DEF Calls

\* process_child() that goes back to epoll_wait() sets a threshold.
LEMMA ThresholdSet ==
    ASSUME QueueInv, NumberInv, process_child, pc' = "epoll"
    PROVE  threshold' # INT64_MAX
<1> DEFINE exited == {s \in OfType({"child"}) \cap Online \cap ready :
                         needChild /\ Priority(s) <= threshold} \ pending
<1>1. exited \in SUBSET Sources
  BY OfTypes DEF QueueInv
<1>2. exited # {} /\ threshold' = MinPriority(minPriority, exited) - 1
  BY DEF process_child
<1> HIDE DEF exited
<1>3. PICK s \in exited : Priority(s) <= INT64_MAX /\ Priority(s) \in Int
  BY <1>1, <1>2 DEF NumberInv, INT64_MAX, INT64_MIN
<1>4. MinPriority(minPriority, exited) \in Int /\ MinPriority(minPriority, exited) <= Priority(s)
  BY <1>1, <1>3, MinPriorityIs DEF NumberInv
<1> QED BY <1>2, <1>3, <1>4 DEF INT64_MAX

\* Every step keeps SleepInv: PrepareDone and the end of sd_event_wait() look at the
\* queue, and while sd_event_wait() runs only the kernel moves.
LEMMA NextSleepInv ==
    ASSUME QueueInv, NumberInv, SleepInv, [Next]_vars
    PROVE  SleepInv'
<1> USE DEF stateVars, queueVars, waitVars
<1>1. ASSUME UNCHANGED <<setup, sources, enabled, ratelimited, pending, before>>
      PROVE  event_next_pending' = event_next_pending
  BY <1>1 DEF event_next_pending, Online, event_source_is_online, Precedes, Priority
<1>2. CASE UNCHANGED vars
  BY <1>1, <1>2 DEF vars, SleepInv
<1>3. CASE Next
  <2>1. Step
    BY <1>3 DEF Next, Step
  <2>2. CASE PrepareDone
    BY <1>1, <2>2 DEF PrepareDone, SleepInv
  <2>3. CASE process_child
    BY <2>3, ThresholdSet DEF SleepInv
  <2>4. CASE process_timer
    BY <2>4 DEF process_timer, SleepInv
  <2>5. CASE process_epoll
    BY <2>5 DEF process_epoll, SleepInv
  <2>6. CASE Prepare \/ PrepareNext \/ CallbackReturns
    BY <2>6 DEF Prepare, PrepareNext, CallbackReturns, SleepInv, QueueInv
  <2>7. CASE Dispatch \/ dispatch_exit
    BY <2>7 DEF Dispatch, dispatch_exit, source_dispatch, event_source_enter_ratelimited,
                SleepInv
  <2>8. CASE Calls /\ ~ Drain
    BY <2>8, NoCallsInWait DEF SleepInv
  <2>9. CASE Drain
    BY <1>1, <2>9 DEF Drain, SleepInv
  <2>10. CASE Interrupted
    BY <2>10 DEF Interrupted, SleepInv
  <2>11. ASSUME NEW s \in Sources, BecomesReady(s) \/ IntervalEnds(s) PROVE SleepInv'
    BY <1>1, <2>11 DEF BecomesReady, IntervalEnds, SleepInv
  <2> QED BY <2>1, <2>2, <2>3, <2>4, <2>5, <2>6, <2>7, <2>8, <2>9, <2>10, <2>11
          DEF Step, Loop, Kernel
<1> QED BY <1>2, <1>3

\* What source_dispatch() does to the modes and the limits: a oneshot source is turned
\* off, and one that is over its limit is limited.
LEMMA DispatchModes ==
    ASSUME NEW s \in Sources, source_dispatch(s), enabled \in [Sources -> {"off", "on", "oneshot"}]
    PROVE  /\ enabled' \in [Sources -> {"off", "on", "oneshot"}]
           /\ ratelimited' \subseteq ratelimited \cup setup.limited
           /\ \A g \in Sources : enabled[g] = "on" => enabled'[g] = "on"
           /\ \A c \in Sources : /\ enabled'[c] = enabled[c] \/ enabled'[c] = "off"
                                 /\ c \in pending \ pending' => c = s
           /\ enabled[s] = "oneshot" /\ s \notin setup.limited => enabled'[s] = "off"
<1>1. CASE s \in setup.limited /\ window[s] = "open"
  BY <1>1 DEF source_dispatch, event_source_enter_ratelimited, queueVars
<1>2. CASE ~ (s \in setup.limited /\ window[s] = "open")
  <2>1. /\ UNCHANGED ratelimited
        /\ enabled' = IF enabled[s] = "oneshot" THEN [enabled EXCEPT ![s] = "off"] ELSE enabled
    BY <1>2 DEF source_dispatch
  <2>2. \E on : source_set_pending(on, {s}) \/ source_set_pending(on, {})
    BY <1>2 DEF source_dispatch
  <2>3. \A c \in Sources : c \in pending \ pending' => c = s
    BY <2>2 DEF source_set_pending
  <2> QED BY <2>1, <2>3
<1> QED BY <1>1, <1>2

\* Every step keeps ReadyInv.
LEMMA NextReadyInv ==
    ASSUME QueueInv, ReadyInv, [Next]_vars
    PROVE  ReadyInv'
<1> USE DEF stateVars, SignalTypes, ChildTypes
<1>1. CASE UNCHANGED vars
  BY <1>1 DEF vars, ReadyInv, Listener, Type
<1>2. CASE Next
  <2>1. Step /\ setup' = setup
    BY <1>2, Fixed DEF Next, Step
  <2>2. ASSUME UNCHANGED <<sources, enabled>>, ratelimited' \subseteq ratelimited,
               ready' \subseteq ready
        PROVE  ReadyInv'
    BY <2>1, <2>2 DEF ReadyInv, Listener, Type
  <2>3. CASE Prepare \/ PrepareNext \/ PrepareDone
    BY <2>2, <2>3 DEF Prepare, PrepareNext, PrepareDone
  <2>4. CASE process_epoll
    BY <2>2, <2>4 DEF process_epoll
  <2>5. CASE process_child \/ process_timer
    BY <2>2, <2>5 DEF process_child, process_timer
  <2>6. CASE Dispatch \/ dispatch_exit
    <3>1. CASE UNCHANGED <<enabled, ratelimited>>
      BY <2>2, <2>6, <3>1 DEF Dispatch, dispatch_exit
    <3>2. ASSUME NEW s \in Sources, source_dispatch(s) PROVE ReadyInv'
      <4>1. UNCHANGED <<sources, ready>>
        BY <2>6 DEF Dispatch, dispatch_exit
      <4>2. /\ enabled' \in [Sources -> {"off", "on", "oneshot"}]
            /\ ratelimited' \subseteq setup.limited
            /\ \A g \in Sources : enabled[g] = "on" => enabled'[g] = "on"
        BY <3>2, DispatchModes DEF ReadyInv
      <4> QED BY <2>1, <4>1, <4>2 DEF ReadyInv, Listener, Type
    <3>3. event_next_pending \subseteq Sources /\ ExitSources \subseteq Sources
      BY DEF event_next_pending, ExitSources, OfType, QueueInv
    <3> QED BY <2>6, <3>1, <3>2, <3>3 DEF Dispatch, dispatch_exit
  <2>7. CASE CallbackReturns
    <3>1. UNCHANGED <<sources, ratelimited>> /\ ready' \subseteq ready
      BY <2>7 DEF CallbackReturns
    <3>2. CASE UNCHANGED enabled
      BY <2>2, <3>1, <3>2
    <3>3. CASE /\ dispatching \in sources /\ Type(dispatching) \notin SignalTypes
               /\ enabled' = [enabled EXCEPT ![dispatching] = "off"]
      BY <2>1, <3>1, <3>3 DEF ReadyInv, Listener, Type
    <3> QED BY <2>7, <3>2, <3>3 DEF CallbackReturns
  <2>8. CASE sd_event_exit \/ Drain
    BY <2>2, <2>8 DEF sd_event_exit, Drain
  <2>9. ASSUME NEW s \in Sources, sd_event_add(s) PROVE ReadyInv'
    <3>1. /\ s \in setup.churn /\ sources' = sources \cup {s}
          /\ enabled' = [enabled EXCEPT ![s] = DefaultMode(s)]
          /\ UNCHANGED <<ratelimited, ready>>
      BY <2>9 DEF sd_event_add
    <3>2. DefaultMode(s) \in {"off", "on", "oneshot"}
      BY DEF DefaultMode
    <3> QED BY <2>1, <3>1, <3>2 DEF ReadyInv, Listener, Type
  <2>10. ASSUME NEW s \in Sources, sd_event_source_unref(s) PROVE ReadyInv'
    BY <2>1, <2>10 DEF sd_event_source_unref, ReadyInv, Listener, Type
  <2>11. ASSUME NEW s \in Sources, sd_event_source_set_time(s) PROVE ReadyInv'
    BY <2>2, <2>11 DEF sd_event_source_set_time
  <2>12. ASSUME NEW s \in Sources, NEW m \in {"off", "on", "oneshot"},
                sd_event_source_set_enabled(s, m)
         PROVE  ReadyInv'
    BY <2>1, <2>12 DEF sd_event_source_set_enabled, ReadyInv, Listener, Type
  <2>13. CASE Interrupted
    BY <2>2, <2>13 DEF Interrupted
  <2>14. ASSUME NEW s \in Sources, BecomesReady(s) PROVE ReadyInv'
    <3>1. \A x \in ready' : x \in ready \/ x = s \/ (x \in sources /\ Type(x) = "sigchld")
      BY <2>14, OfTypes DEF BecomesReady
    <3>2. /\ s \in sources /\ Type(s) \in {"io", "signal", "time"} \cup ChildTypes
          /\ UNCHANGED <<sources, enabled, ratelimited>>
      BY <2>14 DEF BecomesReady
    <3> QED BY <2>1, <3>1, <3>2 DEF ReadyInv, Listener, Type
  <2>15. ASSUME NEW s \in Sources, IntervalEnds(s) PROVE ReadyInv'
    BY <2>2, <2>15 DEF IntervalEnds
  <2> QED BY <2>1, <2>3, <2>4, <2>5, <2>6, <2>7, <2>8, <2>9, <2>10, <2>11, <2>12, <2>13,
             <2>14, <2>15
          DEF Step, Loop, Calls, Kernel
<1> QED BY <1>1, <1>2

\* The setup of the moment is one of those the theorem is about.
LEMMA OneChildListens ==
    ASSUME ChildHeard, NumberInv, NEW c \in Sources, Type(c) = "child"
    PROVE  /\ c \notin setup.limited
           /\ \A d \in Sources : Type(d) = "child" => d = c
           /\ \E g \in Sources : Listener(g)
BY DEF ChildHeard, NumberInv, Type, Listener

\* A step outside sd_event_wait() that does not take an exit off the queue unless it
\* turns the child off, nor a SIGCHLD away.
LEMMA HeardOutside ==
    ASSUME NEW c, HeardOf(c), setup' = setup, pc' \notin {"epoll", "child", "rest"},
           enabled'[c] = enabled[c] \/ enabled'[c] = "off",
           c \in pending => c \in pending' \/ enabled'[c] = "off",
           c \in ready' => c \in ready,
           needChild => needChild',
           \A g \in Sources : Listener(g) /\ g \in ready => g \in ready'
    PROVE  HeardOf(c)'
BY DEF HeardOf, Listener, Type

\* A source is dispatched: a child that is leaves the queue and is turned off.
LEMMA HeardDispatch ==
    ASSUME QueueInv, ReadyInv, NumberInv, ChildHeard, setup' = setup,
           Dispatch \/ dispatch_exit,
           NEW c \in sources, Type(c) = "child", HeardOf(c)
    PROVE  HeardOf(c)'
<1>1. c \in Sources /\ c \notin setup.limited
  BY OneChildListens DEF QueueInv
<1>2. UNCHANGED <<needChild, ready>> /\ pc' \in {"initial", "running", "finished"}
  BY DEF Dispatch, dispatch_exit, source_dispatch, event_source_enter_ratelimited
<1>3. ASSUME NEW s \in Sources, source_dispatch(s)
      PROVE  HeardOf(c)'
  <2>1. /\ enabled'[c] = enabled[c] \/ enabled'[c] = "off"
        /\ c \in pending \ pending' => c = s
        /\ c = s /\ enabled[c] = "oneshot" => enabled'[c] = "off"
    BY <1>1, <1>3, DispatchModes DEF ReadyInv
  <2>2. enabled[c] \in {"off", "oneshot"}
    BY DEF HeardOf
  <2> QED BY <1>2, <2>1, <2>2, HeardOutside
<1>4. CASE UNCHANGED <<enabled, pending>>
  BY <1>2, <1>4, HeardOutside
<1>5. event_next_pending \subseteq Sources /\ ExitSources \subseteq Sources
  BY DEF event_next_pending, ExitSources, OfType, QueueInv
<1> QED BY <1>3, <1>4, <1>5 DEF Dispatch, dispatch_exit, queueVars

\* A callback returns: one that fails turns its source off, and a child is reaped.
LEMMA HeardReturn ==
    ASSUME QueueInv, ReadyInv, setup' = setup, CallbackReturns,
           NEW c \in sources, Type(c) = "child", HeardOf(c)
    PROVE  HeardOf(c)'
<1>1. /\ c \in Sources /\ pc' \notin {"epoll", "child", "rest"} /\ UNCHANGED needChild
      /\ ready' \subseteq ready
  BY DEF CallbackReturns, QueueInv
<1>2. \A g \in Sources : Listener(g) /\ g \in ready => g \in ready'
  BY DEF CallbackReturns, Listener, ChildTypes
<1>3. CASE UNCHANGED <<enabled, queueVars>>
  BY <1>1, <1>2, <1>3, HeardOutside DEF queueVars
<1>4. CASE /\ dispatching \in sources
           /\ enabled' = [enabled EXCEPT ![dispatching] = "off"]
           /\ source_set_pending({}, Unpended(dispatching))
  <2>1. enabled'[c] = enabled[c] \/ enabled'[c] = "off"
    BY <1>1, <1>4 DEF ReadyInv
  <2>2. c \in pending => c \in pending' \/ enabled'[c] = "off"
    BY <1>1, <1>4 DEF ReadyInv, source_set_pending, Unpended
  <2> QED BY <1>1, <1>2, <2>1, <2>2, HeardOutside
<1> QED BY <1>3, <1>4 DEF CallbackReturns

\* What callbacks call: a child that is added has not exited, and the others stay.
LEMMA HeardCalls ==
    ASSUME QueueInv, ReadyInv, setup' = setup, Calls, ~ Drain,
           NEW c \in sources', Type(c) = "child", c \in sources => HeardOf(c)
    PROVE  HeardOf(c)'
<1> USE DEF ChildTypes, SignalTypes, stateVars, queueVars
<1>1. pc' \notin {"epoll", "child", "rest"}
  BY NoCallsInWait
<1>2. CASE sd_event_exit
  BY <1>1, <1>2, HeardOutside DEF sd_event_exit
<1>3. ASSUME NEW s \in Sources, sd_event_add(s) PROVE HeardOf(c)'
  <2>1. /\ s \notin sources /\ sources' = sources \cup {s}
        /\ enabled' = [enabled EXCEPT ![s] = DefaultMode(s)]
        /\ \E on : source_set_pending(on, {})
        /\ needChild => needChild'
        /\ ready' = ready
    BY <1>3 DEF sd_event_add
  <2>2. CASE c = s
    <3>1. enabled'[c] = "oneshot" /\ c \notin ready'
      BY <2>1, <2>2 DEF ReadyInv, DefaultMode
    <3> QED BY <1>1, <3>1 DEF HeardOf
  <2>3. CASE c # s
    <3>1. c \in sources /\ enabled'[c] = enabled[c] /\ (c \in pending => c \in pending')
      BY <2>1, <2>3 DEF ReadyInv, source_set_pending, QueueInv
    <3> QED BY <1>1, <2>1, <3>1, HeardOutside
  <2> QED BY <2>2, <2>3
<1>4. ASSUME NEW s \in Sources, sd_event_source_unref(s) PROVE HeardOf(c)'
  <2>1. /\ s \in setup.churn /\ sources' = sources \ {s}
        /\ enabled' = [enabled EXCEPT ![s] = "off"]
        /\ source_set_pending({}, {s})
        /\ ready' = ready \ {s} /\ UNCHANGED needChild
    BY <1>4 DEF sd_event_source_unref
  <2>2. c \in sources /\ enabled'[c] = enabled[c] /\ (c \in pending => c \in pending')
    BY <2>1 DEF ReadyInv, source_set_pending, QueueInv
  <2>3. \A g \in Sources : Listener(g) /\ g \in ready => g \in ready'
    BY <2>1 DEF Listener
  <2> QED BY <1>1, <2>1, <2>2, <2>3, HeardOutside
<1>5. ASSUME NEW s \in Sources, sd_event_source_set_time(s) PROVE HeardOf(c)'
  <2>1. /\ s \in sources /\ Type(s) = "time" /\ UNCHANGED <<sources, enabled, needChild>>
        /\ source_set_pending({}, {s}) /\ ready' = ready \ {s}
    BY <1>5, OfTypes DEF sd_event_source_set_time
  <2>2. c \in sources /\ enabled'[c] = enabled[c] /\ (c \in pending => c \in pending')
    BY <2>1 DEF source_set_pending
  <2>3. \A g \in Sources : Listener(g) /\ g \in ready => g \in ready'
    BY <2>1 DEF Listener
  <2> QED BY <1>1, <2>1, <2>2, <2>3, HeardOutside
<1>6. ASSUME NEW s \in Sources, NEW m, sd_event_source_set_enabled(s, m) PROVE HeardOf(c)'
  <2>1. /\ Type(s) # "child" /\ UNCHANGED <<sources, needChild, ready>>
        /\ enabled' = [enabled EXCEPT ![s] = m]
        /\ source_set_pending({}, Unpended(s))
    BY <1>6 DEF sd_event_source_set_enabled
  <2>2. c \in sources /\ enabled'[c] = enabled[c] /\ (c \in pending => c \in pending')
    BY <2>1 DEF ReadyInv, source_set_pending, Unpended, QueueInv
  <2> QED BY <1>1, <2>1, <2>2, HeardOutside
<1> QED BY <1>2, <1>3, <1>4, <1>5, <1>6 DEF Calls

\* process_epoll() reads a SIGCHLD only to have the children looked at.
LEMMA HeardEpoll ==
    ASSUME QueueInv, ReadyInv, setup' = setup, process_epoll,
           NEW c \in sources, Type(c) = "child", HeardOf(c)
    PROVE  HeardOf(c)'
<1> USE DEF stateVars, queueVars
<1>1. PICK signals \in SUBSET Queued :
         /\ source_set_pending({s \in Readable : Priority(s) <= threshold} \cup signals, {})
         /\ ready' = ready \ signals
  BY DEF process_epoll
<1>2. /\ pc = "epoll" /\ pc' \in {"child", "rest"}
      /\ pc' = "rest" => threshold # INT64_MAX
      /\ UNCHANGED <<enabled, threshold>>
      /\ needChild' = (needChild \/ \E g \in OfType({"sigchld"}) \cap Online :
                                       \E q \in Queued : Priority(q) = Priority(g))
  BY DEF process_epoll
<1>3. c \in pending => c \in pending'
  BY <1>1 DEF source_set_pending
<1>4. ASSUME NEW g \in Sources, Listener(g), g \in ready PROVE needChild'
  <2>1. g \in OfType({"sigchld"}) \cap Online /\ g \in Queued
    BY <1>4 DEF ReadyInv, Listener, OfType, Online, event_source_is_online, Queued,
                SignalTypes
  <2> QED BY <1>2, <2>1
<1>5. needChild => needChild'
  BY <1>2
<1>6. c \in ready' => c \in ready
  BY <1>1
<1> QED BY <1>2, <1>3, <1>4, <1>5, <1>6 DEF HeardOf

\* process_child() finds the exit, in the first round.
LEMMA HeardChild ==
    ASSUME QueueInv, ReadyInv, NumberInv, ChildHeard, setup' = setup, process_child,
           NEW c \in sources, Type(c) = "child", HeardOf(c)
    PROVE  HeardOf(c)'
<1> USE DEF stateVars, queueVars
<1> DEFINE exited == {s \in OfType({"child"}) \cap Online \cap ready :
                         needChild /\ Priority(s) <= threshold} \ pending
<1>1. /\ pc = "child" /\ source_set_pending(exited, {})
      /\ pc' \in {"epoll", "rest"} /\ (pc' = "epoll" => exited # {})
      /\ needChild' = FALSE /\ UNCHANGED <<enabled, ready>>
  BY DEF process_child
<1>2. c \in Sources /\ c \notin setup.limited /\ \A d \in Sources : Type(d) = "child" => d = c
  BY OneChildListens DEF QueueInv
<1>3. exited # {} => c \in exited
  <2>1. \A s \in exited : s \in Sources /\ Type(s) = "child"
    BY OfTypes DEF QueueInv
  <2> QED BY <1>2, <2>1
<1>4. c \in ready /\ enabled[c] # "off" /\ c \notin pending /\ needChild => c \in exited
  <2> SUFFICES ASSUME c \in ready, enabled[c] # "off", c \notin pending, needChild
               PROVE  c \in exited
    OBVIOUS
  <2>1. threshold = INT64_MAX
    BY <1>1 DEF HeardOf
  <2>2. Priority(c) <= threshold
    BY <1>2, <2>1 DEF NumberInv, INT64_MAX, INT64_MIN
  <2>3. c \in OfType({"child"}) \cap Online
    BY <1>2 DEF OfType, Online, event_source_is_online, ReadyInv
  <2> QED BY <2>2, <2>3
<1> HIDE DEF exited
<1>5. pending \cup exited \subseteq pending'
  BY <1>1 DEF source_set_pending
<1>6. \A g \in Sources : Listener(g)' <=> Listener(g)
  BY DEF Listener, Type
<1> QED BY <1>1, <1>3, <1>4, <1>5, <1>6 DEF HeardOf

\* Every step keeps HeardInv.
LEMMA NextHeardInv ==
    ASSUME ChildHeard, QueueInv, ReadyInv, NumberInv, HeardInv, [Next]_vars
    PROVE  HeardInv'
<1> USE DEF stateVars, queueVars, waitVars
<1>1. CASE UNCHANGED vars
  BY <1>1 DEF vars, HeardInv, HeardOf, Listener, Type
<1>2. CASE Next
  <2> SUFFICES ASSUME NEW c \in sources', Type(c)' = "child" PROVE HeardOf(c)'
    BY DEF HeardInv
  <2>1. Step /\ setup' = setup /\ Type(c) = "child"
    BY <1>2, Fixed DEF Next, Step, Type
  <2>2. c \in sources => HeardOf(c)
    BY <2>1 DEF HeardInv
  <2>3. CASE Calls /\ ~ Drain
    BY <2>1, <2>2, <2>3, HeardCalls
  <2>4. CASE sources' = sources /\ ~ (Calls /\ ~ Drain)
    <3>1. c \in sources /\ HeardOf(c)
      BY <2>2, <2>4
    <3>2. CASE Dispatch \/ dispatch_exit
      BY <2>1, <3>1, <3>2, HeardDispatch
    <3>3. CASE CallbackReturns
      BY <2>1, <3>1, <3>3, HeardReturn
    <3>4. CASE process_epoll
      BY <2>1, <3>1, <3>4, HeardEpoll
    <3>5. CASE process_child
      BY <2>1, <3>1, <3>5, HeardChild
    <3>6. CASE Prepare \/ PrepareNext \/ Interrupted
      BY <2>1, <3>1, <3>6, HeardOutside DEF Prepare, PrepareNext, Interrupted
    <3>7. \A g \in Sources : Listener(g)' <=> Listener(g)
      BY <2>1 DEF Listener, Type
    <3>8. CASE PrepareDone
      <4>1. /\ pc' \in {"pending", "epoll"} /\ threshold' = INT64_MAX
            /\ sleep' => ~ needChild
            /\ UNCHANGED <<enabled, ready, pending, needChild>>
        BY <3>8 DEF PrepareDone
      <4> QED BY <3>1, <3>7, <4>1 DEF HeardOf
    <3>9. CASE process_timer
      <4>1. /\ pc = "rest" /\ pc' \in {"pending", "initial", "epoll"}
            /\ pc' = "epoll" => threshold' = INT64_MAX
            /\ UNCHANGED <<enabled, ready, needChild>>
            /\ source_set_pending(Elapsed, {})
        BY <3>9 DEF process_timer
      <4>2. c \in pending => c \in pending'
        BY <4>1 DEF source_set_pending
      <4> QED BY <3>1, <3>7, <4>1, <4>2 DEF HeardOf
    <3>10. CASE Drain
      <4>1. /\ UNCHANGED <<enabled, pending, needChild, pc, waitVars>>
            /\ Type(dispatching) = "io" /\ ready' = ready \ {dispatching}
        BY <3>10, OfTypes DEF Drain
      <4>2. \A g \in Sources : Listener(g) /\ g \in ready => g \in ready'
        BY <4>1 DEF Listener
      <4> QED BY <3>1, <3>7, <4>1, <4>2 DEF HeardOf
    <3>11. ASSUME NEW s \in Sources, BecomesReady(s) PROVE HeardOf(c)'
      <4>1. /\ UNCHANGED <<enabled, pending, needChild, pc, waitVars>>
            /\ ready \subseteq ready'
        BY <3>11 DEF BecomesReady
      <4>2. CASE s = c
        <5>1. c \in Sources
          BY <3>1 DEF QueueInv
        <5>2. PICK g \in Sources : Listener(g)
          BY <2>1, <5>1, OneChildListens
        <5>3. g \in OfType({"sigchld"})
          BY <5>2 DEF ReadyInv, Listener, OfType
        <5>4. g \in ready'
          BY <2>1, <3>11, <4>2, <5>3 DEF BecomesReady, ChildTypes
        <5> QED BY <3>1, <3>7, <4>1, <5>2, <5>4 DEF HeardOf
      <4>3. CASE s # c
        <5>1. c \in ready' => c \in ready
          BY <2>1, <3>11, <4>3, OfTypes DEF BecomesReady
        <5> QED BY <3>1, <3>7, <4>1, <5>1 DEF HeardOf
      <4> QED BY <4>2, <4>3
    <3>12. ASSUME NEW s \in Sources, IntervalEnds(s) PROVE HeardOf(c)'
      <4>1. UNCHANGED <<enabled, pending, needChild, pc, waitVars, ready>>
        BY <3>12 DEF IntervalEnds
      <4> QED BY <3>1, <3>7, <4>1 DEF HeardOf
    <3> QED BY <2>1, <2>4, <3>2, <3>3, <3>4, <3>5, <3>6, <3>8, <3>9, <3>10, <3>11, <3>12
            DEF Step, Loop, Kernel
  <2>5. Calls \/ sources' = sources
    <3>1. CASE \E s \in Sources : sd_event_add(s) \/ sd_event_source_unref(s)
      BY <3>1 DEF Calls
    <3> QED BY <2>1, <3>1, SourcesKept
  <2>6. Drain => sources' = sources
    BY DEF Drain
  <2> QED BY <2>3, <2>4, <2>5, <2>6
<1> QED BY <1>1, <1>2

\* The loop never sleeps over a source that waits: when epoll_wait() blocks, the queue
\* has nothing to dispatch, and a source that is on and has something to report was
\* reported already.  For a child without a pidfd that is the work of need_process_child
\* and of the SIGCHLD that stays unread; it needs that there is one such child at a time,
\* as the second round of sd_event_wait() clears the flag and passes over the children
\* above its threshold.
THEOREM SleepsOverNothing ==
    PrioritiesBounded /\ ChildHeard /\ Spec =>
        [](pc = "epoll" /\ Blocks => /\ event_next_pending = {}
                                     /\ ready \cap Online \subseteq pending)
<1> SUFFICES ASSUME PrioritiesBounded, ChildHeard
             PROVE  Spec => [](pc = "epoll" /\ Blocks =>
                                  /\ event_next_pending = {}
                                  /\ ready \cap Online \subseteq pending)
  BY DEF PrioritiesBounded, ChildHeard
<1>1. Init => NumberInv
  BY DEF PrioritiesBounded, Init, NumberInv, Priority, INT64_MAX, INT64_MIN
<1>2. Init => SleepInv /\ HeardInv
  BY DEF Init, SleepInv, HeardInv, HeardOf, DefaultMode, SignalTypes, Type
<1>3. Init => ReadyInv
  <2> SUFFICES ASSUME Init PROVE ReadyInv
    OBVIOUS
  <2>1. \A s \in Sources : DefaultMode(s) \in {"on", "oneshot"}
    BY DEF DefaultMode
  <2>2. \A g \in Sources : Listener(g) => DefaultMode(g) = "on"
    BY DEF DefaultMode, Listener, SignalTypes
  <2> QED BY <2>1, <2>2 DEF Init, ReadyInv
<1>4. QueueInv /\ ReadyInv /\ HeardInv /\ SleepInv =>
        (pc = "epoll" /\ Blocks => /\ event_next_pending = {}
                                   /\ ready \cap Online \subseteq pending)
  <2> SUFFICES ASSUME QueueInv, ReadyInv, HeardInv, SleepInv, pc = "epoll", Blocks
               PROVE  event_next_pending = {} /\ ready \cap Online \subseteq pending
    OBVIOUS
  <2>1. event_next_pending = {}
    BY DEF SleepInv, Blocks
  <2>2. ASSUME NEW s \in ready \cap Online, s \notin pending PROVE FALSE
    <3>1. s \in sources /\ Type(s) \notin {"io", "pidfd", "time"} \cup SignalTypes
      BY <2>2 DEF Blocks, Readable, Queued, Elapsed, OfType, Online
    <3>2. Type(s) = "child" /\ enabled[s] # "off"
      BY <2>2, <3>1 DEF ReadyInv, ChildTypes, Online, event_source_is_online
    <3>3. needChild \/ \E g \in Sources : Listener(g) /\ g \in ready
      BY <2>2, <3>1, <3>2 DEF HeardInv, HeardOf
    <3>4. ~ needChild
      BY <2>2, <3>1, <3>2 DEF HeardInv, HeardOf, Blocks
    <3>5. ASSUME NEW g \in Sources, Listener(g), g \in ready PROVE FALSE
      <4>1. g \in Queued
        BY <3>5 DEF ReadyInv, Listener, OfType, Online, event_source_is_online, Queued,
                    SignalTypes
      <4> QED BY <4>1 DEF Blocks
    <3> QED BY <3>3, <3>4, <3>5
  <2> QED BY <2>1, <2>2
<1> QED BY <1>1, <1>2, <1>3, <1>4, QueueInvariant, NextNumberInv, NextSleepInv,
           NextReadyInv, NextHeardInv, PTL DEF Spec
=============================================================================
