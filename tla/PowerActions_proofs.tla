------------------------- MODULE PowerActions_proofs -------------------------
(***************************************************************************)
(* Proofs about shutdown and sleep, for any sets of actions, inhibitors    *)
(* and processes and any configuration.                                    *)
(***************************************************************************)
EXTENDS PowerActions, TLAPS

-----------------------------------------------------------------------------
(***************************************************************************)
(* One action at a time                                                    *)
(***************************************************************************)
\* The inductive invariant: what the three copies of the action have to do with
\* each other, with the timeout and with the scheduled shutdown.
CoreInv ==
    /\ delayed \in MaybeAction /\ schedAct \in MaybeAction
    /\ ActionStateAgrees
    /\ DelayBounded
    /\ ScheduleValid

\* What a step may do to the action that is wanted and the one that runs.
ActionStep ==
    \/ UNCHANGED <<delayed, job>>
    \/ delayed = Nil /\ delayed' \in Actions /\ job' \in {Nil, delayed'}
    \/ delayed # Nil /\ job = Nil /\ delayed' = delayed /\ job' = delayed
    \/ delayed' = Nil /\ job' = Nil

\* Nil, "ignore" and the actions are different.
LEMMA ActionFacts ==
    /\ Nil \notin Actions /\ "ignore" \notin Actions
    /\ \A a \in Actions : a \in ShutdownActions \/ a \in SleepActions
    /\ Nil \notin ShutdownActions
BY PowerAssumption DEF ShutdownActions, SleepActions

\* What bus_manager_shutdown_or_sleep_now_or_later() leaves behind when there is no
\* action: one that waits, one that runs, or none.
LEMMA NowOrLater ==
    ASSUME NEW a, job = Nil, now_or_later(a)
    PROVE  \/ delayed' = a /\ UNCHANGED <<job, forkAct>> /\ timer' = TRUE
           \/ delayed' = a /\ job' = a /\ forkAct' = a /\ UNCHANGED timer
           \/ delayed' = Nil /\ UNCHANGED <<job, forkAct, timer>>
BY DEF now_or_later, execute_ok, execute_failed

\* What manager_dispatch_delayed() does to an action that waits: it runs, or it is
\* given up.
LEMMA Dispatched ==
    ASSUME dispatch_delayed
    PROVE  /\ \/ UNCHANGED delayed /\ job' = delayed /\ forkAct' = delayed
              \/ delayed' = Nil /\ UNCHANGED <<job, forkAct>>
           /\ UNCHANGED <<schedAct, schedTimer>>
BY DEF dispatch_delayed, execute_ok, execute_failed, schedVars

\* The handlers that ask for an action with now_or_later(), when there is none.
LEMMA AskKeeps ==
    ASSUME CoreInv, NEW a \in Actions, delayed = Nil, now_or_later(a),
           schedAct' \in MaybeAction, ScheduleValid'
    PROVE  CoreInv' /\ ActionStep
<1>1. job = Nil /\ forkAct = Nil
  BY DEF CoreInv, ActionStateAgrees
<1>2. a # Nil /\ a \in MaybeAction /\ Nil \in MaybeAction
  BY ActionFacts DEF MaybeAction
<1> QED BY <1>1, <1>2, NowOrLater
        DEF CoreInv, ActionStateAgrees, DelayBounded, ActionStep

\* The lid switch, whose action may be refused.
LEMMA LidKeeps ==
    ASSUME CoreInv, lid_action, UNCHANGED schedVars
    PROVE  CoreInv' /\ ActionStep
<1>1. schedAct' \in MaybeAction /\ ScheduleValid'
  BY DEF CoreInv, ScheduleValid, schedVars
<1>2. CASE UNCHANGED <<actVars, told, child, lidIgnore>>
  BY <1>1, <1>2 DEF CoreInv, ActionStateAgrees, DelayBounded, actVars, ActionStep
<1>3. CASE handle_action_execute(LidSwitch, LidIgnoreInhibited)
  <2>1. LidSwitch \in Actions /\ delayed = Nil /\ now_or_later(LidSwitch)
    BY <1>3, PowerAssumption DEF handle_action_execute
  <2> QED BY <1>1, <2>1, AskKeeps
<1> QED BY <1>2, <1>3 DEF lid_action, handle_action_refused

\* CoreInv holds initially.
LEMMA CoreInit == Init => CoreInv
BY DEF Init, CoreInv, ActionStateAgrees, DelayBounded, ScheduleValid, MaybeAction

\* Every step keeps CoreInv and is an ActionStep.
LEMMA CoreStep ==
    ASSUME CoreInv, [Next]_vars
    PROVE  CoreInv' /\ ActionStep
<1> USE DEF CoreInv, ActionStateAgrees, DelayBounded, ScheduleValid, actVars, schedVars,
            ActionStep
<1>1. CASE UNCHANGED vars
  BY <1>1 DEF vars
<1>2. ASSUME NEW i \in InhibitorIds, NEW w, NEW m,
             method_inhibit(i, w, m) \/ inhibitor_dispatch_fifo(i) \/ HolderGone(i)
      PROVE  CoreInv' /\ ActionStep
  BY <1>2 DEF method_inhibit, inhibitor_dispatch_fifo, HolderGone
<1>3. ASSUME NEW a \in Actions, NEW skip \in BOOLEAN, Request(a, skip)
      PROVE  CoreInv' /\ ActionStep
  <2>1. schedAct' \in MaybeAction /\ ScheduleValid' /\ delayed = Nil /\ now_or_later(a)
    BY <1>3 DEF Request, MaybeAction
  <2> QED BY <2>1, AskKeeps
<1>4. ASSUME NEW a \in Actions, NEW dry \in BOOLEAN, ScheduleShutdown(a, dry)
      PROVE  CoreInv' /\ ActionStep
  BY <1>4 DEF ScheduleShutdown, MaybeAction
<1>5. CASE LidCloses \/ LidRecheck
  BY <1>5, LidKeeps DEF LidCloses, LidRecheck
<1>6. CASE LidOpens \/ LidHoldOffEnds \/ NologinTimeout
  BY <1>6 DEF LidOpens, LidHoldOffEnds, NologinTimeout
<1>7. CASE Idle
  <2>1. /\ IdleAction \in Actions /\ delayed = Nil /\ now_or_later(IdleAction)
        /\ schedAct' \in MaybeAction /\ ScheduleValid'
    BY <1>7, PowerAssumption DEF Idle, handle_action_execute
  <2> QED BY <2>1, AskKeeps
<1>8. CASE ScheduledShutdown
  <2>1. schedAct' \in MaybeAction /\ ScheduleValid'
    BY <1>8 DEF ScheduledShutdown, reset_scheduled_shutdown, MaybeAction
  <2>2. CASE UNCHANGED actVars
    BY <2>1, <2>2
  <2>3. CASE delayed = Nil /\ now_or_later(schedAct)
    <3>1. schedAct \in Actions
      BY <1>8, ActionFacts DEF ScheduledShutdown, MaybeAction
    <3> QED BY <2>1, <2>3, <3>1, AskKeeps
  <2> QED BY <1>8, <2>2, <2>3 DEF ScheduledShutdown
<1>9. CASE CancelScheduledShutdown
  BY <1>9 DEF CancelScheduledShutdown, cancel_delayed_action, reset_scheduled_shutdown,
              MaybeAction
<1>10. CASE Dispatch
  BY <1>10, Dispatched DEF Dispatch, MaybeAction
<1>11. CASE DispatchNothing
  BY <1>11 DEF DispatchNothing
<1>12. CASE InhibitTimeout
  <2>1. CASE delayed # Nil /\ job = Nil
    BY <1>12, <2>1, Dispatched DEF InhibitTimeout, MaybeAction
  <2>2. CASE ~ (delayed # Nil /\ job = Nil)
    BY <1>12, <2>2 DEF InhibitTimeout
  <2> QED BY <2>1, <2>2
<1>13. CASE SendPrepareForSleep
  BY <1>13 DEF SendPrepareForSleep
<1>14. CASE SigChld
  BY <1>14 DEF SigChld, MaybeAction
<1>15. ASSUME NEW c \in Pids, ChildStep(c)
       PROVE  CoreInv' /\ ActionStep
  <2>1. UNCHANGED daemonVars
    BY <1>15 DEF ChildStep, RunHelper, SleepHooks, SleepFails, Sleep, SleepDone,
       CallTimesOut
  <2> QED BY <2>1 DEF daemonVars
<1>16. CASE OtherChildExits
  BY <1>16 DEF OtherChildExits, daemonVars
<1> QED BY <1>1, <1>2, <1>3, <1>4, <1>5, <1>6, <1>7, <1>8, <1>9, <1>10, <1>11, <1>12,
           <1>13, <1>14, <1>15, <1>16
        DEF Next, EventHandler, Progress, Environment

\* Every reachable state satisfies CoreInv.
LEMMA CoreInvariance == Spec => []CoreInv
BY CoreInit, CoreStep, PTL DEF Spec

\* delayed_action, action_job and sleep_fork_action agree, and an action that waits has
\* its timeout: the assertions of execute_shutdown_or_sleep() hold, whichever of the
\* callers, timers, children and signals come first.
THEOREM ActionStateIsSound == Spec => [](ActionStateAgrees /\ DelayBounded)
BY CoreInvariance, PTL DEF CoreInv

\* The timer of a scheduled shutdown finds an action, and one that shuts down: the
\* assertion of manager_scheduled_shutdown_handler() holds although other requests,
\* cancellations and failures reset the schedule or leave their own action in it.
THEOREM ScheduleFindsItsAction == Spec => []ScheduleValid
BY CoreInvariance, PTL DEF CoreInv

\* The daemon implements ActionProtocol: one action is wanted at a time, and nothing
\* takes the place of the one that waits or runs.
THEOREM ImplementsProtocol == Spec => OneActionWanted
<1> DEFINE phase == IF job # Nil THEN "running"
                    ELSE IF delayed # Nil THEN "delayed" ELSE "idle"
<1>1. Init => Protocol!Init
  BY DEF Init, Protocol!Init
<1>2. CoreInv /\ [Next]_vars => [Protocol!Next]_<<phase, delayed>>
  <2> SUFFICES ASSUME CoreInv, [Next]_vars
               PROVE  Protocol!Next \/ UNCHANGED <<phase, delayed>>
    OBVIOUS
  <2>1. CoreInv' /\ ActionStep
    BY CoreStep
  <2>2. job # Nil => delayed = job
    BY DEF CoreInv, ActionStateAgrees
  <2>3. CASE UNCHANGED <<delayed, job>>
    BY <2>3
  <2>4. CASE delayed = Nil /\ delayed' \in Actions /\ job' \in {Nil, delayed'}
    <3>1. job = Nil /\ delayed' # Nil
      BY <2>2, <2>4, ActionFacts
    <3>2. CASE job' = Nil
      <4>1. Protocol!Delay(delayed')
        BY <2>4, <3>1, <3>2 DEF Protocol!Delay
      <4> QED BY <2>4, <4>1 DEF Protocol!Next
    <3>3. CASE job' = delayed'
      <4>1. Protocol!Start(delayed')
        BY <2>4, <3>1, <3>3 DEF Protocol!Start
      <4> QED BY <2>4, <4>1 DEF Protocol!Next
    <3> QED BY <2>4, <3>2, <3>3
  <2>5. CASE delayed # Nil /\ job = Nil /\ delayed' = delayed /\ job' = delayed
    <3>1. delayed \in Actions
      BY <2>5 DEF CoreInv, MaybeAction
    <3>2. Protocol!Start(delayed)
      BY <2>5 DEF Protocol!Start
    <3> QED BY <3>1, <3>2 DEF Protocol!Next
  <2>6. CASE delayed' = Nil /\ job' = Nil
    <3>1. CASE delayed = Nil
      BY <2>2, <2>6, <3>1
    <3>2. CASE delayed # Nil
      <4>1. Protocol!End
        BY <2>6, <3>2 DEF Protocol!End
      <4> QED BY <4>1 DEF Protocol!Next
    <3> QED BY <3>1, <3>2
  <2> QED BY <2>1, <2>3, <2>4, <2>5, <2>6 DEF ActionStep
<1> QED BY <1>1, <1>2, CoreInvariance, PTL DEF Spec, OneActionWanted, Protocol!Spec

-----------------------------------------------------------------------------
(***************************************************************************)
(* Inhibitors                                                              *)
(***************************************************************************)
\* Without delay inhibitors, or by its timeout: how an action is started.
StartStep ==
    \A a \in Actions :
        Starts(a) => \/ ~ (DelayMax /\ manager_is_inhibited(inhibit_what(a), {"delay"}))
                     \/ timer /\ ~ timer'

\* now_or_later() starts no other action than its own, and no inhibited one.
LEMMA AskStarts ==
    ASSUME NEW a \in Actions, now_or_later(a)
    PROVE  StartStep
<1> SUFFICES ASSUME NEW b \in Actions, Starts(b)
             PROVE  ~ (DelayMax /\ manager_is_inhibited(inhibit_what(b), {"delay"}))
  BY DEF StartStep
<1>1. /\ ~ (DelayMax /\ manager_is_inhibited(inhibit_what(a), {"delay"}))
      /\ job' = a
  BY DEF now_or_later, execute_ok, execute_failed, Starts
<1> QED BY <1>1 DEF Starts

\* A delay inhibitor is overridden by manager_inhibit_timeout_handler() only, never by
\* a request, a key, a schedule or manager_dispatch_delayed().
THEOREM DelayIsRespected == Spec => DelayRespected
<1>1. CoreInv /\ [Next]_vars =>
        [\A a \in Actions :
            DelayMax /\ Starts(a) /\ manager_is_inhibited(inhibit_what(a), {"delay"})
                => timer /\ ~ timer']_vars
  <2> SUFFICES ASSUME CoreInv, Next PROVE StartStep
    BY DEF StartStep
  <2>1. CASE UNCHANGED job
    BY <2>1, ActionFacts DEF StartStep, Starts
  <2>2. CASE job' = Nil
    BY <2>2 DEF StartStep, Starts
  <2>3. ASSUME NEW a \in Actions, now_or_later(a) PROVE StartStep
    BY <2>3, AskStarts
  <2>4. CASE InhibitTimeout
    BY <2>4 DEF InhibitTimeout, StartStep
  <2>5. CASE Dispatch
    <3>1. /\ ~ manager_is_inhibited(inhibit_what(delayed), {"delay"})
          /\ job' = delayed \/ UNCHANGED job
      BY <2>5, Dispatched DEF Dispatch
    <3> QED BY <2>1, <3>1 DEF StartStep, Starts
  <2>6. CASE ScheduledShutdown
    <3>1. schedAct \in Actions
      BY <2>6, ActionFacts DEF ScheduledShutdown, CoreInv, ScheduleValid, MaybeAction
    <3> QED BY <2>1, <2>3, <2>6, <3>1 DEF ScheduledShutdown, actVars
  <2>7. CASE LidCloses \/ LidRecheck
    <3>1. UNCHANGED actVars \/ (LidSwitch \in Actions /\ now_or_later(LidSwitch))
      BY <2>7, PowerAssumption DEF LidCloses, LidRecheck, lid_action,
         handle_action_execute, handle_action_refused
    <3> QED BY <2>1, <2>3, <3>1 DEF actVars
  <2>8. CASE Idle
    <3>1. IdleAction \in Actions /\ now_or_later(IdleAction)
      BY <2>8, PowerAssumption DEF Idle, handle_action_execute
    <3> QED BY <2>3, <3>1
  <2>9. ASSUME NEW a \in Actions, NEW skip \in BOOLEAN, Request(a, skip)
        PROVE  StartStep
    BY <2>3, <2>9 DEF Request
  <2>10. CASE SigChld
    BY <2>1, <2>2, <2>10 DEF SigChld
  <2>11. ASSUME NEW c \in Pids, ChildStep(c) PROVE UNCHANGED job
    BY <2>11 DEF ChildStep, RunHelper, SleepHooks, SleepFails, Sleep, SleepDone,
       CallTimesOut, daemonVars, actVars
  <2>12. ASSUME NEW i \in InhibitorIds, NEW w, NEW m,
                method_inhibit(i, w, m) \/ inhibitor_dispatch_fifo(i) \/ HolderGone(i)
         PROVE  UNCHANGED job
    BY <2>12 DEF method_inhibit, inhibitor_dispatch_fifo, HolderGone, actVars
  <2>13. ASSUME NEW a \in Actions, NEW dry \in BOOLEAN, ScheduleShutdown(a, dry)
         PROVE  UNCHANGED job
    BY <2>13 DEF ScheduleShutdown, actVars
  <2>14. CASE \/ LidOpens \/ LidHoldOffEnds \/ NologinTimeout \/ CancelScheduledShutdown
              \/ DispatchNothing \/ SendPrepareForSleep \/ OtherChildExits
    <3>1. UNCHANGED job
      BY <2>14 DEF LidOpens, LidHoldOffEnds, NologinTimeout, CancelScheduledShutdown,
         DispatchNothing, SendPrepareForSleep, OtherChildExits, daemonVars, actVars
    <3> QED BY <2>1, <3>1
  <2> QED BY <2>1, <2>4, <2>5, <2>6, <2>7, <2>8, <2>9, <2>10, <2>11, <2>12, <2>13, <2>14
          DEF Next, EventHandler, Progress, Environment
<1> QED BY <1>1, CoreInvariance, PTL DEF Spec, DelayRespected

-----------------------------------------------------------------------------
(***************************************************************************)
(* Types                                                                   *)
(***************************************************************************)
\* Where a child waits for the answer to SendPrepareForSleep().
Waits(active) == IF active THEN "announce" ELSE "resume"

\* A child whose SendPrepareForSleep() has not timed out waits for the answer, and for
\* one answer only.
CallsPending ==
    /\ \A n \in 1 .. Len(calls) :
          calls[n].open => ChildAt(calls[n].pid, Waits(calls[n].active))
    /\ \A m, n \in 1 .. Len(calls) :
          calls[m].open /\ calls[n].open /\ calls[m].pid = calls[n].pid => m = n

\* The inductive invariant of the types.
TypeInv == TypeOK /\ CallsPending

\* The part of TypeOK that starting an action is about.
ActTyped ==
    /\ delayed \in MaybeAction /\ job \in MaybeAction /\ forkAct \in MaybeAction
    /\ forkPid \in Pids \cup {Nil} /\ timer \in BOOLEAN
    /\ told \in [Kinds -> BOOLEAN]
    /\ lidIgnore \in BOOLEAN
    /\ child \in [Pids -> ChildState \cup {Nil}]

\* The rest of it, but for pc.
RestTyped ==
    /\ inhibitors \in [InhibitorIds -> Inhibitor \cup {Nil}]
    /\ schedAct \in MaybeAction /\ schedTimer \in BOOLEAN /\ nologinTimer \in BOOLEAN
    /\ dryRun \in BOOLEAN /\ nologin \in BOOLEAN /\ unlinkNologin \in BOOLEAN
    /\ lidClosed \in BOOLEAN
    /\ calls \in Seq(Call)
    /\ sigchld \in BOOLEAN /\ down \in BOOLEAN

\* A step that leaves the calls alone and changes no child that waits for an answer.
CallersKept ==
    /\ UNCHANGED calls
    /\ \A c \in Pids : ChildAt(c, "announce") \/ ChildAt(c, "resume") => child'[c] = child[c]

\* A sequence has elements of its type.
LEMMA SeqElement ==
    ASSUME NEW S, NEW s \in Seq(S), NEW n \in 1 .. Len(s)
    PROVE  s[n] \in S
OBVIOUS

\* A call comes from a process, and has an argument.
LEMMA CallTyped ==
    ASSUME TypeOK, NEW n \in 1 .. Len(calls)
    PROVE  /\ calls[n] \in Call /\ calls[n].pid \in Pids
           /\ calls[n].active \in BOOLEAN /\ calls[n].open \in BOOLEAN
<1>1. calls \in Seq(Call)
  BY DEF TypeOK
<1>2. calls[n] \in Call
  BY <1>1, SeqElement
<1> QED BY <1>2 DEF Call

\* Such a step keeps what is said of the calls.
LEMMA CallersKeptKeeps ==
    ASSUME TypeInv, CallersKept
    PROVE  CallsPending'
<1>1. \A n \in 1 .. Len(calls) : calls[n].pid \in Pids
  BY CallTyped DEF TypeInv
<1> QED BY <1>1 DEF TypeInv, CallsPending, CallersKept, ChildAt, Waits

\* What a step of a child does to the calls: nothing, and then it neither waited for an
\* answer nor does it now; or it calls and waits; or it waits no longer.
CallStep(c) ==
    \/ /\ UNCHANGED calls
       /\ ~ ChildAt(c, "announce") /\ ~ ChildAt(c, "resume")
       /\ child'[c].at \notin {"announce", "resume"}
    \/ \E active \in BOOLEAN :
          /\ ~ ChildAt(c, "announce") /\ ~ ChildAt(c, "resume")
          /\ ChildGoes(c, Waits(active))
          /\ calls' = Append(calls, [pid |-> c, active |-> active, open |-> TRUE])
    \/ CallTimesOut(c)

\* The booleans of the configuration.
LEMMA Booleans ==
    {DelayMax, HoldOff, PowerOffInterrupts, SuspendInterrupts} \subseteq BOOLEAN
BY PowerAssumption

\* inhibit_what() of an action is one of the two kinds.
LEMMA InhibitWhat == \A a : inhibit_what(a) \in Kinds
BY DEF inhibit_what, Kinds

\* Forking the child of an action, or failing to.
LEMMA ExecuteTyped ==
    ASSUME ActTyped, NEW a \in Actions, execute_ok(a)
    PROVE  /\ delayed' \in MaybeAction /\ job' \in MaybeAction /\ forkAct' \in MaybeAction
           /\ forkPid' \in Pids \cup {Nil} /\ lidIgnore' \in BOOLEAN
           /\ child' \in [Pids -> ChildState \cup {Nil}]
           /\ \A c \in Pids : child[c] # Nil => child'[c] = child[c]
<1>1. [act |-> a, at |-> "begin"] \in ChildState
  BY DEF ChildState
<1>2. lidIgnore' \in BOOLEAN
  BY Booleans, Zenon DEF execute_ok, ActTyped
<1> QED BY <1>1, <1>2 DEF execute_ok, ActTyped, MaybeAction

\* ... or not.
LEMMA ExecuteFailedTyped ==
    ASSUME ActTyped, NEW a \in Actions, execute_failed(a)
    PROVE  /\ delayed' \in MaybeAction /\ job' \in MaybeAction /\ forkAct' \in MaybeAction
           /\ forkPid' \in Pids \cup {Nil} /\ lidIgnore' \in BOOLEAN
           /\ told' \in [Kinds -> BOOLEAN]
           /\ UNCHANGED child
BY InhibitWhat DEF execute_failed, ActTyped, MaybeAction

\* now_or_later() keeps the part of TypeOK it is about.
LEMMA AskTyped ==
    ASSUME ActTyped, NEW a \in Actions, now_or_later(a)
    PROVE  /\ ActTyped'
           /\ \A c \in Pids : child[c] # Nil => child'[c] = child[c]
<1>1. [told EXCEPT ![inhibit_what(a)] = @ \/ announced(a)] \in [Kinds -> BOOLEAN]
  <2>1. (told[inhibit_what(a)] \/ announced(a)) \in BOOLEAN
    OBVIOUS
  <2> QED BY <2>1, InhibitWhat DEF ActTyped
<1>2. CASE /\ told' = [told EXCEPT ![inhibit_what(a)] = @ \/ announced(a)]
           /\ timer' = TRUE
           /\ delayed' = a
           /\ UNCHANGED <<job, forkAct, forkPid, child, lidIgnore>>
  BY <1>1, <1>2 DEF ActTyped, MaybeAction
<1>3. CASE /\ UNCHANGED timer
           /\ told' = [told EXCEPT ![inhibit_what(a)] = @ \/ announced(a)]
           /\ execute_ok(a)
  BY <1>1, <1>3, ExecuteTyped DEF ActTyped
<1>4. CASE UNCHANGED timer /\ execute_failed(a)
  BY <1>4, ExecuteFailedTyped DEF ActTyped
<1> QED BY <1>2, <1>3, <1>4 DEF now_or_later

\* manager_dispatch_delayed() does, too.
LEMMA DispatchTyped ==
    ASSUME ActTyped, RestTyped, delayed # Nil, dispatch_delayed, timer' \in BOOLEAN
    PROVE  ActTyped' /\ RestTyped' /\ CallersKept
<1>1. delayed \in Actions
  BY DEF ActTyped, MaybeAction
<1>2. RestTyped'
  BY DEF dispatch_delayed, RestTyped, schedVars
<1>3. CASE execute_ok(delayed) /\ UNCHANGED told
  BY <1>1, <1>2, <1>3, ExecuteTyped DEF ActTyped, CallersKept, ChildAt, dispatch_delayed
<1>4. CASE execute_failed(delayed)
  BY <1>1, <1>2, <1>4, ExecuteFailedTyped DEF ActTyped, CallersKept, dispatch_delayed
<1> QED BY <1>3, <1>4 DEF dispatch_delayed

\* So does manager_handle_action() for the lid.
LEMMA LidTyped ==
    ASSUME ActTyped, lid_action
    PROVE  /\ ActTyped'
           /\ \A c \in Pids : child[c] # Nil => child'[c] = child[c]
<1>1. CASE UNCHANGED <<actVars, told, child, lidIgnore>>
  BY <1>1 DEF ActTyped, actVars
<1>2. CASE handle_action_execute(LidSwitch, LidIgnoreInhibited)
  BY <1>2, AskTyped, PowerAssumption DEF handle_action_execute
<1> QED BY <1>1, <1>2 DEF lid_action, handle_action_refused

\* The call that times out: its child waited for it, and the other calls stay as they
\* are.
LEMMA TimesOut ==
    ASSUME TypeInv, NEW c \in Pids, CallTimesOut(c)
    PROVE  \E n \in 1 .. Len(calls) :
              /\ calls[n].pid = c /\ calls[n].open
              /\ ChildAt(c, Waits(calls[n].active))
              /\ ChildGoes(c, Prepared(calls[n].active))
              /\ calls' \in Seq(Call) /\ Len(calls') = Len(calls)
              /\ \A m \in 1 .. Len(calls) : m # n => calls'[m] = calls[m]
              /\ calls'[n] = [pid |-> c, active |-> calls[n].active, open |-> FALSE]
<1>1. calls \in Seq(Call) /\ DOMAIN calls = 1 .. Len(calls)
  BY DEF TypeInv, TypeOK
<1>2. PICK n \in 1 .. Len(calls) :
          /\ calls[n].pid = c /\ calls[n].open
          /\ calls' = [calls EXCEPT ![n] = [pid |-> c, active |-> calls[n].active,
                                            open |-> FALSE]]
          /\ ChildGoes(c, Prepared(calls[n].active))
  BY <1>1 DEF CallTimesOut
<1>3. [pid |-> c, active |-> calls[n].active, open |-> FALSE] \in Call
  BY CallTyped DEF TypeInv, Call
<1>4. calls' \in Seq(Call) /\ Len(calls') = Len(calls)
  BY <1>1, <1>2, <1>3
<1>5. ChildAt(c, Waits(calls[n].active))
  BY <1>2 DEF TypeInv, CallsPending
<1> QED BY <1>1, <1>2, <1>4, <1>5

\* A step of a child: it is there, is typed, and changes neither another child nor the
\* daemon.
LEMMA ChildFacts ==
    ASSUME TypeInv, NEW c \in Pids, ChildStep(c)
    PROVE  /\ child[c] \in ChildState /\ child'[c] \in ChildState
           /\ child' \in [Pids -> ChildState \cup {Nil}]
           /\ \A d \in Pids : d # c => child'[d] = child[d]
           /\ UNCHANGED <<inhibitors, actVars, told, schedVars, lidVars, pc>>
           /\ sigchld' \in BOOLEAN /\ down' \in BOOLEAN
           /\ CallStep(c)
<1>1. CASE CallTimesOut(c)
  <2>1. PICK n \in 1 .. Len(calls) : /\ ChildAt(c, Waits(calls[n].active))
                                      /\ ChildGoes(c, Prepared(calls[n].active))
    BY <1>1, TimesOut
  <2>2. child[c] \in ChildState
    BY <2>1 DEF ChildAt, TypeInv, TypeOK
  <2>3. [act |-> child[c].act, at |-> Prepared(calls[n].active)] \in ChildState
    BY <2>2 DEF ChildState, Prepared
  <2>4. child' = [child EXCEPT ![c] = [act |-> child[c].act, at |-> Prepared(calls[n].active)]]
    BY <2>1 DEF ChildGoes
  <2>5. UNCHANGED <<inhibitors, actVars, told, schedVars, lidVars, pc, sigchld, down>>
    BY <1>1 DEF CallTimesOut, daemonVars
  <2>6. /\ child'[c] \in ChildState /\ child' \in [Pids -> ChildState \cup {Nil}]
        /\ \A d \in Pids : d # c => child'[d] = child[d]
    BY <2>3, <2>4 DEF TypeInv, TypeOK
  <2> QED BY <1>1, <2>2, <2>5, <2>6 DEF CallStep, TypeInv, TypeOK
<1>2. CASE RunHelper(c) \/ SleepHooks(c) \/ SleepFails(c) \/ Sleep(c) \/ SleepDone(c)
  <2>1. child[c] \in ChildState /\ ~ ChildAt(c, "announce") /\ ~ ChildAt(c, "resume")
    BY <1>2 DEF RunHelper, SleepHooks, SleepFails, Sleep, SleepDone, ChildAt, TypeInv, TypeOK
  <2>2. /\ child' \in [Pids -> ChildState \cup {Nil}]
        /\ child'[c] \in ChildState
        /\ \A d \in Pids : d # c => child'[d] = child[d]
    BY <1>2, <2>1 DEF RunHelper, SleepHooks, SleepFails, Sleep, SleepDone, Again,
       ChildExits, ChildGoes, ChildState, TypeInv, TypeOK, prepare_for_sleep, Prepared
  <2>3. /\ UNCHANGED <<inhibitors, actVars, told, schedVars, lidVars, pc>>
        /\ sigchld' \in BOOLEAN /\ down' \in BOOLEAN
    BY <1>2 DEF RunHelper, SleepHooks, SleepFails, Sleep, SleepDone, ChildExits,
       daemonVars, TypeInv, TypeOK
  <2>4. CASE RunHelper(c) \/ SleepFails(c) \/ SleepDone(c)
    <3>1. UNCHANGED calls /\ child'[c].at \notin {"announce", "resume"}
      BY <2>1, <2>4 DEF RunHelper, SleepFails, SleepDone, Again, ChildExits, ChildGoes,
         TypeInv, TypeOK
    <3> QED BY <2>1, <2>2, <2>3, <3>1 DEF CallStep
  <2>5. CASE SleepHooks(c) \/ Sleep(c)
    <3>1. PICK active \in BOOLEAN : prepare_for_sleep(c, active, Waits(active))
      BY <2>5 DEF SleepHooks, Sleep, Waits
    <3>2. CASE ChildGoes(c, Prepared(active)) /\ UNCHANGED calls
      <4>1. child'[c].at = Prepared(active)
        BY <2>1, <3>2 DEF ChildGoes, TypeInv, TypeOK
      <4> QED BY <2>1, <2>2, <2>3, <3>2, <4>1 DEF CallStep, Prepared
    <3> QED BY <2>1, <2>2, <2>3, <3>1, <3>2 DEF CallStep, prepare_for_sleep
  <2> QED BY <1>2, <2>4, <2>5
<1> QED BY <1>1, <1>2 DEF ChildStep

\* The children keep their state well typed.
LEMMA ChildTyped ==
    ASSUME TypeInv, NEW c \in Pids, ChildStep(c)
    PROVE  TypeInv'
<1>1. /\ child[c] \in ChildState /\ child'[c] \in ChildState /\ Nil \notin ChildState
      /\ child' \in [Pids -> ChildState \cup {Nil}]
      /\ \A d \in Pids : d # c => child'[d] = child[d]
  BY ChildFacts, PowerAssumption DEF ChildState
<1>2. /\ UNCHANGED <<inhibitors, actVars, told, schedVars, lidVars, pc>>
      /\ sigchld' \in BOOLEAN /\ down' \in BOOLEAN
  BY ChildFacts
<1>3. calls \in Seq(Call) /\ Len(calls) \in Nat
  BY DEF TypeInv, TypeOK
<1>4. \A n \in 1 .. Len(calls) : calls[n].pid \in Pids
  BY CallTyped DEF TypeInv
<1>5. ASSUME calls' \in Seq(Call), CallsPending' PROVE TypeInv'
  BY <1>1, <1>2, <1>5 DEF TypeInv, TypeOK, actVars, schedVars, lidVars
<1>6. CASE UNCHANGED calls /\ ~ ChildAt(c, "announce") /\ ~ ChildAt(c, "resume")
  <2>1. CallersKept
    BY <1>1, <1>6 DEF CallersKept
  <2> QED BY <1>3, <1>5, <1>6, <2>1, CallersKeptKeeps
<1>7. ASSUME NEW active \in BOOLEAN, ~ ChildAt(c, "announce"), ~ ChildAt(c, "resume"),
             ChildGoes(c, Waits(active)),
             calls' = Append(calls, [pid |-> c, active |-> active, open |-> TRUE])
      PROVE  TypeInv'
  <2>1. [pid |-> c, active |-> active, open |-> TRUE] \in Call
    BY DEF Call
  <2>2. calls' \in Seq(Call)
    BY <1>3, <1>7, <2>1
  <2>3. \A n \in 1 .. Len(calls) : calls[n].open => calls[n].pid # c
    BY <1>7 DEF TypeInv, CallsPending, Waits
  <2>4. /\ Len(calls') = Len(calls) + 1
        /\ \A n \in 1 .. Len(calls) : calls'[n] = calls[n]
        /\ calls'[Len(calls) + 1] = [pid |-> c, active |-> active, open |-> TRUE]
    BY <1>3, <1>7, <2>1
  <2>5. ChildAt(c, Waits(active))'
    BY <1>1, <1>7 DEF ChildAt, ChildGoes, TypeInv, TypeOK
  <2>6. ASSUME NEW n \in 1 .. Len(calls'), calls'[n].open
        PROVE  ChildAt(calls[n].pid, Waits(calls[n].active))'
    <3>1. CASE n = Len(calls) + 1
      BY <2>4, <2>5, <3>1
    <3>2. CASE n \in 1 .. Len(calls)
      <4>1. calls'[n] = calls[n] /\ calls[n].pid # c /\ calls[n].pid \in Pids
        BY <1>4, <2>3, <2>4, <2>6, <3>2
      <4>2. ChildAt(calls[n].pid, Waits(calls[n].active))
        BY <2>6, <3>2, <4>1 DEF TypeInv, CallsPending
      <4> QED BY <1>1, <4>1, <4>2 DEF ChildAt
    <3> QED BY <1>3, <2>4, <3>1, <3>2
  <2>7. ASSUME NEW m \in 1 .. Len(calls'), NEW n \in 1 .. Len(calls'),
               calls'[m].open, calls'[n].open, calls'[m].pid = calls'[n].pid
        PROVE  m = n
    BY <1>3, <2>3, <2>4, <2>7 DEF TypeInv, CallsPending
  <2> QED BY <1>5, <2>2, <2>6, <2>7 DEF CallsPending
<1>8. CASE CallTimesOut(c)
  <2>1. PICK k \in 1 .. Len(calls) :
            /\ calls[k].pid = c /\ calls[k].open
            /\ calls' \in Seq(Call) /\ Len(calls') = Len(calls)
            /\ \A m \in 1 .. Len(calls) : m # k => calls'[m] = calls[m]
            /\ calls'[k] = [pid |-> c, active |-> calls[k].active, open |-> FALSE]
    BY <1>8, TimesOut
  <2>2. ASSUME NEW n \in 1 .. Len(calls'), calls'[n].open
        PROVE  /\ n \in 1 .. Len(calls) /\ n # k /\ calls'[n] = calls[n]
               /\ calls[n].pid # c
    BY <2>1, <2>2 DEF TypeInv, CallsPending
  <2>3. ASSUME NEW n \in 1 .. Len(calls'), calls'[n].open
        PROVE  ChildAt(calls[n].pid, Waits(calls[n].active))'
    <3>1. n \in 1 .. Len(calls) /\ calls'[n] = calls[n] /\ calls[n].pid # c
      BY <2>2, <2>3
    <3>2. ChildAt(calls[n].pid, Waits(calls[n].active)) /\ calls[n].pid \in Pids
      BY <1>4, <2>3, <3>1 DEF TypeInv, CallsPending
    <3> QED BY <1>1, <3>1, <3>2 DEF ChildAt
  <2>4. ASSUME NEW m \in 1 .. Len(calls'), NEW n \in 1 .. Len(calls'),
               calls'[m].open, calls'[n].open, calls'[m].pid = calls'[n].pid
        PROVE  m = n
    BY <2>2, <2>4 DEF TypeInv, CallsPending
  <2> QED BY <1>5, <2>1, <2>3, <2>4 DEF CallsPending
<1> QED BY <1>6, <1>7, <1>8, ChildFacts DEF CallStep

\* The first call: it is handled, and its caller goes on if it still waits.
LEMMA SendFacts ==
    ASSUME TypeInv, SendPrepareForSleep
    PROVE  /\ 1 \in 1 .. Len(calls) /\ Head(calls) = calls[1] /\ calls[1] \in Call
           /\ calls' = Tail(calls) /\ calls' \in Seq(Call)
           /\ Len(calls') = Len(calls) - 1 /\ Len(calls) \in Nat
           /\ \A n \in 1 .. Len(calls') : /\ n + 1 \in 1 .. Len(calls)
                                           /\ calls'[n] = calls[n + 1]
           /\ child' \in [Pids -> ChildState \cup {Nil}]
           /\ \A d \in Pids : d # calls[1].pid => child'[d] = child[d]
           /\ \/ /\ calls[1].open
                 /\ child[calls[1].pid] \in ChildState
                 /\ ChildAt(calls[1].pid, Waits(calls[1].active))
                 /\ child'[calls[1].pid] = [act |-> child[calls[1].pid].act,
                                            at |-> Prepared(calls[1].active)]
                 /\ child'[calls[1].pid] \in ChildState
              \/ ~ calls[1].open /\ UNCHANGED child
<1>1. calls \in Seq(Call) /\ calls # <<>> /\ Len(calls) \in Nat
  BY DEF TypeInv, TypeOK, SendPrepareForSleep
<1>2. 1 \in 1 .. Len(calls) /\ Head(calls) = calls[1]
  BY <1>1
<1>3. calls[1] \in Call /\ calls[1].pid \in Pids /\ calls[1].active \in BOOLEAN
  BY <1>2, CallTyped DEF TypeInv
<1>4. /\ calls' = Tail(calls) /\ calls' \in Seq(Call) /\ Len(calls') = Len(calls) - 1
      /\ \A n \in 1 .. Len(calls') : n + 1 \in 1 .. Len(calls) /\ calls'[n] = calls[n + 1]
  <2>1. calls' = Tail(calls)
    BY DEF SendPrepareForSleep
  <2> QED BY <1>1, <2>1
<1>5. CASE calls[1].open
  <2>1. ChildAt(calls[1].pid, Waits(calls[1].active))
    BY <1>2, <1>5 DEF TypeInv, CallsPending
  <2>2. child[calls[1].pid] \in ChildState
    BY <1>3, <2>1 DEF ChildAt, TypeInv, TypeOK
  <2>3. child' = [child EXCEPT ![calls[1].pid] =
                     [act |-> child[calls[1].pid].act, at |-> Prepared(calls[1].active)]]
    BY <1>2, <1>5 DEF SendPrepareForSleep, ChildGoes
  <2>4. [act |-> child[calls[1].pid].act, at |-> Prepared(calls[1].active)] \in ChildState
    BY <2>2 DEF ChildState, Prepared
  <2>5. child \in [Pids -> ChildState \cup {Nil}]
    BY DEF TypeInv, TypeOK
  <2>6. /\ child' \in [Pids -> ChildState \cup {Nil}]
        /\ \A d \in Pids : d # calls[1].pid => child'[d] = child[d]
        /\ child'[calls[1].pid] = [act |-> child[calls[1].pid].act,
                                   at |-> Prepared(calls[1].active)]
    BY <1>3, <2>3, <2>4, <2>5
  <2> QED BY <1>1, <1>2, <1>3, <1>4, <1>5, <2>1, <2>2, <2>4, <2>6
<1>6. CASE ~ calls[1].open
  <2>1. UNCHANGED child
    BY <1>2, <1>6 DEF SendPrepareForSleep
  <2> QED BY <1>1, <1>2, <1>3, <1>4, <1>6, <2>1 DEF TypeInv, TypeOK
<1> QED BY <1>5, <1>6

\* method_send_prepare_for_sleep() answers the first call.
LEMMA SendTyped ==
    ASSUME TypeInv, SendPrepareForSleep
    PROVE  TypeInv'
<1>1. /\ 1 \in 1 .. Len(calls) /\ calls' \in Seq(Call) /\ Len(calls) \in Nat
      /\ Len(calls') = Len(calls) - 1
      /\ \A n \in 1 .. Len(calls') : n + 1 \in 1 .. Len(calls) /\ calls'[n] = calls[n + 1]
      /\ \A d \in Pids : d # calls[1].pid => child'[d] = child[d]
      /\ calls[1].open \/ UNCHANGED child
      /\ Head(calls) = calls[1]
  BY SendFacts
<1>2. told' \in [Kinds -> BOOLEAN]
  BY <1>1, CallTyped DEF SendPrepareForSleep, TypeInv, TypeOK, Kinds
<1>3. ASSUME NEW n \in 1 .. Len(calls'), calls'[n].open
      PROVE  ChildAt(calls[n].pid, Waits(calls[n].active))'
  <2>1. n + 1 \in 1 .. Len(calls) /\ calls'[n] = calls[n + 1] /\ n + 1 # 1
    BY <1>1
  <2>2. calls[n + 1].pid \in Pids /\ ChildAt(calls[n + 1].pid, Waits(calls[n + 1].active))
    BY <1>3, <2>1, CallTyped DEF TypeInv, CallsPending
  <2>3. calls[1].open => calls[n + 1].pid # calls[1].pid
    BY <1>1, <1>3, <2>1 DEF TypeInv, CallsPending
  <2>4. child'[calls'[n].pid] = child[calls'[n].pid]
    BY <1>1, <2>1, <2>2, <2>3
  <2> QED BY <2>1, <2>2, <2>4 DEF ChildAt
<1>4. ASSUME NEW m \in 1 .. Len(calls'), NEW n \in 1 .. Len(calls'),
             calls'[m].open, calls'[n].open, calls'[m].pid = calls'[n].pid
      PROVE  m = n
  <2>1. m + 1 = n + 1
    BY <1>1, <1>4 DEF TypeInv, CallsPending
  <2> QED BY <1>1, <2>1
<1>5. CallsPending'
  BY <1>3, <1>4 DEF CallsPending
<1>6. child' \in [Pids -> ChildState \cup {Nil}]
  BY SendFacts
<1> QED BY <1>1, <1>2, <1>5, <1>6
        DEF TypeInv, TypeOK, SendPrepareForSleep, Handler, actVars, schedVars, lidVars

\* TypeOK in its two parts.
LEMMA TypeParts == TypeOK <=> ActTyped /\ RestTyped /\ pc \in {"dispatch", "event"}
BY DEF TypeOK, ActTyped, RestTyped

\* The types hold initially.
LEMMA TypeInit == Init => TypeInv
<1> SUFFICES ASSUME Init PROVE TypeInv
  OBVIOUS
<1>1. lidIgnore \in BOOLEAN
  BY Booleans, Zenon DEF Init
<1>2. inhibitors \in [InhibitorIds -> Inhibitor \cup {Nil}]
  BY DEF Init
<1>3. child \in [Pids -> ChildState \cup {Nil}]
  BY DEF Init
<1>4. calls \in Seq(Call) /\ Len(calls) = 0
  BY DEF Init
<1>5. TypeOK
  BY <1>1, <1>2, <1>3, <1>4 DEF Init, TypeOK, MaybeAction
<1> QED BY <1>4, <1>5 DEF TypeInv, CallsPending

\* Every step keeps the types.
LEMMA TypeStep ==
    ASSUME CoreInv, TypeInv, [Next]_vars
    PROVE  TypeInv'
<1>1. ActTyped /\ RestTyped /\ pc \in {"dispatch", "event"} /\ TypeOK
  BY TypeParts DEF TypeInv
<1>2. ASSUME ActTyped', RestTyped', pc' \in {"dispatch", "event"}, CallersKept
      PROVE  TypeInv'
  BY <1>2, TypeParts, CallersKeptKeeps DEF TypeInv, TypeOK, ActTyped, RestTyped
<1> USE DEF actVars, schedVars, lidVars, procVars, Handler
<1>3. CASE UNCHANGED vars
  BY <1>1, <1>2, <1>3 DEF vars, ActTyped, RestTyped, CallersKept
<1>4. ASSUME NEW i \in InhibitorIds, NEW w \in SUBSET Whats, NEW m \in Modes,
             method_inhibit(i, w, m)
      PROVE  TypeInv'
  <2>1. [what |-> w, mode |-> m, held |-> TRUE] \in Inhibitor
    BY DEF Inhibitor
  <2> QED BY <1>1, <1>2, <1>4, <2>1
          DEF method_inhibit, ActTyped, RestTyped, CallersKept
<1>5. ASSUME NEW i \in InhibitorIds, inhibitor_dispatch_fifo(i)
      PROVE  TypeInv'
  BY <1>1, <1>2, <1>5 DEF inhibitor_dispatch_fifo, ActTyped, RestTyped, CallersKept
<1>6. ASSUME NEW i \in InhibitorIds, HolderGone(i)
      PROVE  TypeInv'
  <2>1. inhibitors[i] \in Inhibitor
    BY <1>1, <1>6 DEF HolderGone, RestTyped
  <2>2. [what |-> inhibitors[i].what, mode |-> inhibitors[i].mode, held |-> FALSE]
           \in Inhibitor
    BY <2>1 DEF Inhibitor
  <2> QED BY <1>1, <1>2, <1>6, <2>2 DEF HolderGone, ActTyped, RestTyped, CallersKept
<1>7. ASSUME NEW a \in Actions, NEW skip \in BOOLEAN, Request(a, skip)
      PROVE  TypeInv'
  <2>1. ActTyped' /\ CallersKept
    BY <1>1, <1>7, AskTyped DEF Request, CallersKept, ChildAt
  <2>2. RestTyped' /\ pc' = "dispatch"
    BY <1>1, <1>7 DEF Request, RestTyped, MaybeAction
  <2> QED BY <1>2, <2>1, <2>2
<1>8. ASSUME NEW a \in Actions, NEW dry \in BOOLEAN, ScheduleShutdown(a, dry)
      PROVE  TypeInv'
  BY <1>1, <1>2, <1>8 DEF ScheduleShutdown, ActTyped, RestTyped, CallersKept, MaybeAction
<1>9. CASE LidCloses \/ LidRecheck
  <2>1. ActTyped' /\ CallersKept
    BY <1>1, <1>9, LidTyped DEF LidCloses, LidRecheck, CallersKept, ChildAt
  <2>2. RestTyped' /\ pc' = "dispatch"
    BY <1>1, <1>9 DEF LidCloses, LidRecheck, RestTyped
  <2> QED BY <1>2, <2>1, <2>2
<1>10. CASE LidOpens \/ LidHoldOffEnds \/ NologinTimeout
  <2>1. CallersKept /\ pc' = "dispatch"
    BY <1>10 DEF LidOpens, LidHoldOffEnds, NologinTimeout, CallersKept
  <2>2. ActTyped' /\ RestTyped'
    BY <1>1, <1>10 DEF LidOpens, LidHoldOffEnds, NologinTimeout, ActTyped, RestTyped
  <2> QED BY <1>2, <2>1, <2>2
<1>11. CASE Idle
  <2>1. IdleAction \in Actions /\ now_or_later(IdleAction)
    BY <1>11, PowerAssumption DEF Idle, handle_action_execute
  <2>2. ActTyped' /\ CallersKept
    BY <1>1, <1>11, <2>1, AskTyped DEF Idle, CallersKept, ChildAt
  <2>3. RestTyped' /\ pc' = "dispatch"
    BY <1>1, <1>11 DEF Idle, RestTyped
  <2> QED BY <1>2, <2>2, <2>3
<1>12. CASE ScheduledShutdown
  <2>1. schedAct \in Actions
    BY <1>12, ActionFacts DEF ScheduledShutdown, CoreInv, ScheduleValid, MaybeAction
  <2>2. ActTyped' /\ CallersKept
    <3>1. CASE UNCHANGED <<actVars, told, lidIgnore, child>>
      BY <1>1, <1>12, <3>1 DEF ScheduledShutdown, ActTyped, CallersKept
    <3>2. CASE now_or_later(schedAct)
      BY <1>1, <1>12, <2>1, <3>2, AskTyped DEF ScheduledShutdown, CallersKept, ChildAt
    <3> QED BY <1>12, <3>1, <3>2 DEF ScheduledShutdown
  <2>3. RestTyped' /\ pc' = "dispatch"
    <3>1. /\ schedAct' \in MaybeAction /\ schedTimer' \in BOOLEAN
          /\ nologinTimer' \in BOOLEAN /\ dryRun' \in BOOLEAN
          /\ unlinkNologin' \in BOOLEAN
      BY <1>1, <1>12
         DEF ScheduledShutdown, reset_scheduled_shutdown, RestTyped, MaybeAction
    <3>2. nologin' \in BOOLEAN
      BY <1>1, <1>12 DEF ScheduledShutdown, reset_scheduled_shutdown, RestTyped
    <3> QED BY <1>1, <1>12, <3>1, <3>2 DEF ScheduledShutdown, RestTyped
  <2> QED BY <1>2, <2>2, <2>3
<1>13. CASE CancelScheduledShutdown
  <2>1. nologin' \in BOOLEAN
    BY <1>1, <1>13 DEF CancelScheduledShutdown, reset_scheduled_shutdown, RestTyped
  <2> QED BY <1>1, <1>2, <1>13, <2>1
          DEF CancelScheduledShutdown, cancel_delayed_action, reset_scheduled_shutdown,
              ActTyped, RestTyped, CallersKept, MaybeAction
<1>14. CASE Dispatch
  BY <1>1, <1>2, <1>14, DispatchTyped DEF Dispatch, ActTyped
<1>15. CASE DispatchNothing
  BY <1>1, <1>2, <1>15 DEF DispatchNothing, ActTyped, RestTyped, CallersKept
<1>16. CASE InhibitTimeout
  <2>1. CASE delayed # Nil /\ job = Nil
    BY <1>1, <1>2, <1>16, <2>1, DispatchTyped DEF InhibitTimeout
  <2>2. CASE ~ (delayed # Nil /\ job = Nil)
    BY <1>1, <1>2, <1>16, <2>2 DEF InhibitTimeout, ActTyped, RestTyped, CallersKept
  <2> QED BY <2>1, <2>2
<1>17. CASE SigChld
  <2>1. child' \in [Pids -> ChildState \cup {Nil}] /\ forkPid' \in Pids \cup {Nil}
    BY <1>1, <1>17 DEF SigChld, ActTyped
  <2>2. told' \in [Kinds -> BOOLEAN]
    BY <1>1, <1>17 DEF SigChld, ActTyped
  <2>3. CallersKept
    BY <1>1, <1>17 DEF SigChld, CallersKept, ChildAt, ActTyped
  <2>4. delayed' \in MaybeAction /\ job' \in MaybeAction /\ forkAct' \in MaybeAction
    BY <1>1, <1>17 DEF SigChld, ActTyped, MaybeAction
  <2>5. ActTyped'
    BY <1>1, <1>17, <2>1, <2>2, <2>4 DEF SigChld, ActTyped
  <2>6. RestTyped' /\ pc' = "dispatch"
    BY <1>1, <1>17 DEF SigChld, RestTyped
  <2> QED BY <1>2, <2>3, <2>5, <2>6
<1>18. CASE OtherChildExits
  BY <1>1, <1>2, <1>18 DEF OtherChildExits, daemonVars, ActTyped, RestTyped, CallersKept
<1> QED BY <1>3, <1>4, <1>5, <1>6, <1>7, <1>8, <1>9, <1>10, <1>11, <1>12, <1>13, <1>14,
           <1>15, <1>16, <1>17, <1>18, SendTyped, ChildTyped
        DEF Next, EventHandler, Progress, Environment

\* Every reachable state is well typed; for one, every child that the answer to a
\* SendPrepareForSleep() call is sent to is there to take it.
THEOREM TypeCorrect == Spec => [](TypeOK /\ CallsPending)
BY TypeInit, TypeStep, CoreInvariance, PTL DEF Spec, TypeInv

-----------------------------------------------------------------------------
(***************************************************************************)
(* Block inhibitors                                                        *)
(***************************************************************************)
\* Somebody holds a block inhibitor against the action.
Blocked(a) == manager_is_inhibited(inhibit_what(a), {"block"})

\* No action waits or runs below a block inhibitor: method_inhibit() refuses the ones
\* that would come too late.
BlockInv ==
    /\ ~ schedTimer
    /\ delayed # Nil => ~ Blocked(delayed)

\* A step keeps BlockInv, and changes the job or the inhibitors but not both.
LEMMA BlockStep ==
    ASSUME ~ SkipInhibitors, ~ LidIgnoreInhibited, ~ Schedules,
           CoreInv, TypeInv, BlockInv, [Next]_vars
    PROVE  BlockInv' /\ (UNCHANGED job \/ UNCHANGED inhibitors)
<1> USE DEF actVars, schedVars
<1>1. ASSUME UNCHANGED inhibitors, ~ schedTimer', delayed' = delayed \/ delayed' = Nil
      PROVE  BlockInv'
  BY <1>1 DEF BlockInv, Blocked, manager_is_inhibited
<1>2. ASSUME NEW a \in Actions, UNCHANGED inhibitors, ~ schedTimer', delayed = Nil,
             now_or_later(a), ~ Blocked(a)
      PROVE  BlockInv'
  <2>1. job = Nil
    BY <1>2 DEF CoreInv, ActionStateAgrees
  <2>2. delayed' = a \/ delayed' = Nil
    BY <1>2, <2>1, NowOrLater
  <2> QED BY <1>2, <2>2 DEF BlockInv, Blocked, manager_is_inhibited
<1>3. ~ schedTimer /\ inhibitors \in [InhibitorIds -> Inhibitor \cup {Nil}]
  BY DEF BlockInv, TypeInv, TypeOK
<1>4. CASE UNCHANGED vars
  BY <1>1, <1>3, <1>4 DEF vars
<1>5. ASSUME NEW i \in InhibitorIds, NEW w \in SUBSET Whats, NEW m \in Modes,
             method_inhibit(i, w, m)
      PROVE  BlockInv' /\ UNCHANGED job
  <2>1. /\ UNCHANGED <<delayed, job, schedTimer>>
        /\ inhibitors' = [inhibitors EXCEPT ![i] = [what |-> w, mode |-> m, held |-> TRUE]]
    BY <1>5 DEF method_inhibit
  <2>2. ASSUME delayed # Nil, ~ Blocked(delayed) PROVE ~ Blocked(delayed)'
    <3>1. inhibit_what(delayed) \notin w
      BY <1>5, <2>2 DEF method_inhibit
    <3>2. \A j \in InhibitorIds : inhibitors'[j] = inhibitors[j] \/ inhibitors'[j].what = w
      BY <1>3, <2>1
    <3> QED BY <2>1, <2>2, <3>1, <3>2 DEF Blocked, manager_is_inhibited, inhibit_what
  <2> QED BY <1>3, <2>1, <2>2 DEF BlockInv
<1>6. ASSUME NEW i \in InhibitorIds, inhibitor_dispatch_fifo(i) \/ HolderGone(i)
      PROVE  BlockInv' /\ UNCHANGED job
  <2>1. /\ UNCHANGED <<delayed, job, schedTimer>>
        /\ \A j \in InhibitorIds : \/ inhibitors'[j] = inhibitors[j]
                                   \/ inhibitors'[j] = Nil
                                   \/ /\ inhibitors[j] # Nil
                                      /\ inhibitors'[j].what = inhibitors[j].what
                                      /\ inhibitors'[j].mode = inhibitors[j].mode
    BY <1>3, <1>6 DEF inhibitor_dispatch_fifo, HolderGone
  <2> QED BY <1>3, <2>1 DEF BlockInv, Blocked, manager_is_inhibited, inhibit_what
<1>7. ASSUME NEW a \in Actions, NEW skip \in BOOLEAN, Request(a, skip)
      PROVE  BlockInv' /\ UNCHANGED inhibitors
  BY <1>2, <1>7 DEF Request, verify_shutdown_creds, Blocked
<1>8. ASSUME NEW a, NEW b, ScheduleShutdown(a, b) PROVE FALSE
  BY <1>8 DEF ScheduleShutdown
<1>9. CASE ScheduledShutdown
  BY <1>3, <1>9 DEF ScheduledShutdown
<1>10. ASSUME NEW a \in Actions \cup {"ignore"}, handle_action_execute(a, FALSE),
              UNCHANGED inhibitors, ~ schedTimer'
       PROVE  BlockInv'
  <2>1. a \in Actions /\ delayed = Nil /\ now_or_later(a) /\ ~ Blocked(a)
    BY <1>10 DEF handle_action_execute, Blocked, manager_is_inhibited
  <2> QED BY <1>2, <1>10, <2>1
<1>11. CASE LidCloses \/ LidRecheck
  <2>1. UNCHANGED inhibitors /\ ~ schedTimer'
    BY <1>3, <1>11 DEF LidCloses, LidRecheck
  <2>2. CASE UNCHANGED actVars
    BY <1>1, <2>1, <2>2
  <2>3. CASE handle_action_execute(LidSwitch, LidIgnoreInhibited)
    <3>1. LidIgnoreInhibited = FALSE /\ LidSwitch \in Actions \cup {"ignore"}
      BY PowerAssumption
    <3> QED BY <1>10, <2>1, <2>3, <3>1
  <2> QED BY <1>11, <2>1, <2>2, <2>3
          DEF LidCloses, LidRecheck, lid_action, handle_action_refused
<1>12. CASE Idle
  BY <1>3, <1>10, <1>12, PowerAssumption DEF Idle
<1>13. CASE Dispatch \/ InhibitTimeout
  <2>1. UNCHANGED inhibitors /\ ~ schedTimer' /\ (delayed' = delayed \/ delayed' = Nil)
    BY <1>3, <1>13, Dispatched DEF Dispatch, InhibitTimeout, dispatch_delayed
  <2> QED BY <1>1, <2>1
<1>14. CASE SigChld \/ CancelScheduledShutdown
  BY <1>1, <1>3, <1>14 DEF SigChld, CancelScheduledShutdown, cancel_delayed_action,
     reset_scheduled_shutdown
<1>15. CASE \/ LidOpens \/ LidHoldOffEnds \/ NologinTimeout
            \/ DispatchNothing \/ SendPrepareForSleep \/ OtherChildExits
  BY <1>1, <1>3, <1>15 DEF LidOpens, LidHoldOffEnds, NologinTimeout, DispatchNothing,
     SendPrepareForSleep, OtherChildExits, daemonVars
<1>16. ASSUME NEW c \in Pids, ChildStep(c)
       PROVE  BlockInv' /\ UNCHANGED inhibitors
  <2>1. UNCHANGED <<inhibitors, delayed, schedTimer>>
    BY <1>16 DEF ChildStep, RunHelper, SleepHooks, SleepFails, Sleep, SleepDone,
       CallTimesOut, daemonVars
  <2> QED BY <1>1, <1>3, <2>1
<1> QED BY <1>4, <1>5, <1>6, <1>7, <1>8, <1>9, <1>11, <1>12, <1>13, <1>14, <1>15, <1>16
        DEF Next, EventHandler, Progress, Environment, vars

\* Unless somebody may override it, LidSwitchIgnoreInhibited= is set or a shutdown was
\* scheduled, no action is started below a block inhibitor, however long it was put
\* off: verify_shutdown_creds() and method_inhibit() between them see to it.
THEOREM BlockIsRespected ==
    ASSUME ~ SkipInhibitors, ~ LidIgnoreInhibited, ~ Schedules
    PROVE  Spec => BlockRespected
<1>1. Init => BlockInv
  BY DEF Init, BlockInv
<1>2. CoreInv /\ TypeInv /\ BlockInv /\ [Next]_vars => BlockInv'
  BY BlockStep
<1>3. CoreInv /\ TypeInv /\ BlockInv /\ [Next]_vars =>
        [\A a \in Actions :
            Starts(a) => ~ manager_is_inhibited(inhibit_what(a), {"block"})]_vars
  <2> SUFFICES ASSUME CoreInv, TypeInv, BlockInv, [Next]_vars,
                      NEW a \in Actions, Starts(a)
               PROVE  ~ Blocked(a)
    BY DEF Blocked
  <2>1. CoreInv' /\ BlockInv' /\ (UNCHANGED job \/ UNCHANGED inhibitors)
    BY BlockStep, CoreStep
  <2>2. delayed' = a /\ a # Nil /\ UNCHANGED inhibitors
    BY <2>1 DEF Starts, CoreInv, ActionStateAgrees
  <2> QED BY <2>1, <2>2 DEF BlockInv, Blocked, manager_is_inhibited
<1>4. Spec => []TypeInv
  BY TypeInit, TypeStep, CoreInvariance, PTL DEF Spec
<1> QED BY <1>1, <1>2, <1>3, <1>4, CoreInvariance, PTL DEF Spec, BlockRespected

-----------------------------------------------------------------------------
(***************************************************************************)
(* PrepareForSleep                                                         *)
(***************************************************************************)
\* A call that announces a sleep is followed by the one that takes it back, or its child
\* has that one yet to make; unless calls may be lost.
CallsPaired ==
    \A n \in 1 .. Len(calls) :
        calls[n].active =>
            \/ \E m \in 1 .. Len(calls) : n < m /\ ~ calls[m].active
            \/ ChildAt(calls[n].pid, "announce") \/ ChildAt(calls[n].pid, "sleep")
            \/ "unsent" \in CallFailures

\* What WakeIsTold says of a step.
WakeStep ==
    told'["sleep"] /\ ~ WakeOwed' =>
        \/ told["sleep"] /\ ~ WakeOwed
        \/ delayed \in SleepActions /\ job = Nil /\ delayed' = Nil
        \/ /\ "unsent" \in CallFailures
           /\ \/ \E c \in Pids : ChildAt(c, "sleep") /\ child'[c].at = "post"
              \/ calls # <<>> /\ ~ Head(calls).open /\ calls' = Tail(calls)

\* A child that is about to sleep stays as it is.
Unwoken == \A c \in Pids : child[c] # Nil /\ child[c].at # "exited" => child'[c] = child[c]

\* A step that leaves the calls and the children about to sleep alone keeps the pairs.
LEMMA UnwokenPaired ==
    ASSUME TypeInv, CallsPaired, UNCHANGED calls, Unwoken
    PROVE  CallsPaired'
<1>1. \A n \in 1 .. Len(calls) : calls[n].pid \in Pids
  BY CallTyped DEF TypeInv
<1> QED BY <1>1 DEF CallsPaired, Unwoken, ChildAt

\* ... and if it tells nobody of a sleep that the daemon does not want, and gives up none
\* that was told, it is as WakeIsTold says.
LEMMA UnwokenTold ==
    ASSUME TypeInv, UNCHANGED calls, Unwoken,
           \/ delayed' \in SleepActions
           \/ ~ told'["sleep"]
           \/ (told'["sleep"] => told["sleep"]) /\ (delayed \in SleepActions => delayed' = delayed)
    PROVE  WakeStep
<1>1. ASSUME NEW c \in Pids, ChildAt(c, "announce") \/ ChildAt(c, "sleep")
      PROVE  ChildAt(c, "announce")' \/ ChildAt(c, "sleep")'
  BY <1>1 DEF Unwoken, ChildAt
<1> QED BY <1>1 DEF WakeStep, WakeOwed

\* Forking a child leaves the others as they are.
LEMMA ForkUnwoken ==
    ASSUME TypeInv, NEW a, execute_ok(a) \/ UNCHANGED child
    PROVE  Unwoken
BY DEF execute_ok, Unwoken, TypeInv, TypeOK

\* now_or_later() when there is no action.
LEMMA AskTold ==
    ASSUME TypeInv, NEW a \in Actions, delayed = Nil, now_or_later(a), UNCHANGED calls
    PROVE  Unwoken /\ WakeStep
<1>1. Unwoken
  BY ForkUnwoken DEF now_or_later, execute_failed
<1>2. told \in [Kinds -> BOOLEAN] /\ Kinds = {"shutdown", "sleep"}
  BY DEF TypeInv, TypeOK, Kinds
<1>3. CASE a \in SleepActions
  <2>1. inhibit_what(a) = "sleep"
    BY <1>3 DEF inhibit_what, SleepActions, ShutdownActions
  <2>2. delayed' \in SleepActions \/ ~ told'["sleep"]
    BY <1>2, <1>3, <2>1 DEF now_or_later, execute_ok, execute_failed
  <2> QED BY <1>1, <2>2, UnwokenTold
<1>4. CASE a \notin SleepActions
  <2>1. inhibit_what(a) = "shutdown"
    BY <1>4, ActionFacts DEF inhibit_what
  <2>2. told'["sleep"] = told["sleep"] /\ delayed \notin SleepActions
    BY <1>2, <2>1, PowerAssumption DEF now_or_later, execute_ok, execute_failed
  <2> QED BY <1>1, <2>2, UnwokenTold
<1> QED BY <1>3, <1>4

\* A child: it calls before it goes on, or its call is lost.
LEMMA ChildTold ==
    ASSUME TypeInv, CallsPaired, NEW c \in Pids, ChildStep(c)
    PROVE  CallsPaired' /\ WakeStep
<1>1. /\ child[c] \in ChildState /\ child'[c] \in ChildState /\ Nil \notin ChildState
      /\ \A d \in Pids : d # c => child'[d] = child[d]
      /\ UNCHANGED <<delayed, told>> /\ CallStep(c)
  BY ChildFacts, PowerAssumption DEF ChildState, actVars
<1>2. calls \in Seq(Call) /\ Len(calls) \in Nat /\ DOMAIN calls = 1 .. Len(calls)
  BY DEF TypeInv, TypeOK
<1>3. \A n \in 1 .. Len(calls) : calls[n].pid \in Pids
  BY CallTyped DEF TypeInv
<1>4. CASE UNCHANGED calls /\ ~ ChildAt(c, "sleep") /\ ~ ChildAt(c, "announce")
  <2>1. \A d \in Pids : ChildAt(d, "announce") \/ ChildAt(d, "sleep") => child'[d] = child[d]
    BY <1>1, <1>4
  <2>2. CallsPaired'
    BY <1>3, <1>4, <2>1 DEF CallsPaired, ChildAt
  <2>3. WakeOwed => WakeOwed'
    BY <1>1, <1>4, <2>1 DEF WakeOwed, ChildAt
  <2> QED BY <1>1, <2>2, <2>3 DEF WakeStep
<1>5. CASE UNCHANGED calls /\ ChildAt(c, "sleep")
  <2>1. Sleep(c) /\ ~ (calls' = Append(calls, [pid |-> c, active |-> FALSE, open |-> TRUE]))
    <3>1. ~ CallTimesOut(c)
      <4>1. ASSUME CallTimesOut(c) PROVE FALSE
        BY <1>5, <4>1, TimesOut DEF Waits, ChildAt
      <4> QED BY <4>1
    <3>2. [pid |-> c, active |-> FALSE, open |-> TRUE] \in Call
      BY DEF Call
    <3>3. ASSUME calls' = Append(calls, [pid |-> c, active |-> FALSE, open |-> TRUE])
          PROVE  FALSE
      <4>1. Len(calls') = Len(calls) + 1
        BY <1>2, <3>2, <3>3
      <4>2. Len(calls') = Len(calls)
        BY <1>5
      <4>3. Len(calls) \in Nat
        BY <1>2
      <4> QED BY <4>1, <4>2, <4>3
    <3>4. Sleep(c)
      BY <1>5, <3>1 DEF ChildStep, RunHelper, SleepHooks, SleepFails, SleepDone, ChildAt
    <3> QED BY <3>3, <3>4
  <2>2. "unsent" \in CallFailures /\ ChildGoes(c, "post")
    BY <2>1 DEF Sleep, prepare_for_sleep, Prepared
  <2>3. child'[c].at = "post"
    BY <1>1, <2>2 DEF ChildGoes, TypeInv, TypeOK
  <2> QED BY <1>5, <2>2, <2>3 DEF CallsPaired, WakeStep
<1>6. ASSUME NEW active \in BOOLEAN, ~ ChildAt(c, "announce"), ~ ChildAt(c, "resume"),
             ChildGoes(c, Waits(active)),
             calls' = Append(calls, [pid |-> c, active |-> active, open |-> TRUE])
      PROVE  CallsPaired' /\ WakeStep
  <2>1. [pid |-> c, active |-> active, open |-> TRUE] \in Call
    BY DEF Call
  <2>2. /\ Len(calls') = Len(calls) + 1 /\ DOMAIN calls' = 1 .. Len(calls')
        /\ \A n \in 1 .. Len(calls) : n \in 1 .. Len(calls') /\ calls'[n] = calls[n]
        /\ calls'[Len(calls) + 1].active = active /\ calls'[Len(calls) + 1].pid = c
        /\ Len(calls) + 1 \in 1 .. Len(calls')
    BY <1>2, <1>6, <2>1
  <2>3. child'[c].at = Waits(active) /\ child'[c] # Nil
    BY <1>1, <1>6 DEF ChildGoes, TypeInv, TypeOK
  <2>4. CASE active
    <3>1. ~ ChildAt(c, "sleep")
      <4>1. ~ Sleep(c)
        <5>1. ASSUME Sleep(c) PROVE FALSE
          <6>1. child'[c].at \in {"resume", "post"}
            BY <1>1, <5>1 DEF Sleep, prepare_for_sleep, ChildGoes, Prepared, TypeInv, TypeOK
          <6> QED BY <2>3, <2>4, <6>1 DEF Waits
        <5> QED BY <5>1
      <4>2. ~ CallTimesOut(c)
        <5>1. ASSUME CallTimesOut(c) PROVE FALSE
          <6>1. Len(calls') = Len(calls)
            BY <5>1, TimesOut
          <6> QED BY <1>2, <2>2, <6>1
        <5> QED BY <5>1
      <4> QED BY <4>1, <4>2 DEF ChildStep, RunHelper, SleepHooks, SleepFails, SleepDone, ChildAt
    <3>2. \A d \in Pids : ChildAt(d, "announce") \/ ChildAt(d, "sleep") => child'[d] = child[d]
      BY <1>1, <1>6, <3>1
    <3>3. ChildAt(c, "announce")'
      BY <2>3, <2>4 DEF ChildAt, Waits
    <3>4. ASSUME NEW n \in 1 .. Len(calls'), calls'[n].active
          PROVE  \/ \E m \in 1 .. Len(calls') : n < m /\ ~ calls'[m].active
                 \/ ChildAt(calls[n].pid, "announce")' \/ ChildAt(calls[n].pid, "sleep")'
                 \/ "unsent" \in CallFailures
      <4>1. CASE n = Len(calls) + 1
        BY <2>2, <3>3, <4>1
      <4>2. CASE n \in 1 .. Len(calls)
        <5>1. calls'[n] = calls[n] /\ calls[n].active /\ calls[n].pid \in Pids
          BY <1>3, <2>2, <3>4, <4>2
        <5>2. CASE \E m \in 1 .. Len(calls) : n < m /\ ~ calls[m].active
          BY <2>2, <5>2
        <5>3. CASE ChildAt(calls[n].pid, "announce") \/ ChildAt(calls[n].pid, "sleep")
          BY <3>2, <5>1, <5>3 DEF ChildAt
        <5> QED BY <4>2, <5>1, <5>2, <5>3 DEF CallsPaired
      <4> QED BY <1>2, <2>2, <4>1, <4>2
    <3>5. CallsPaired'
      BY <3>4 DEF CallsPaired
    <3> QED BY <3>3, <3>5 DEF WakeStep, WakeOwed
  <2>5. CASE ~ active
    <3>1. Len(calls) + 1 \in 1 .. Len(calls') /\ ~ calls'[Len(calls) + 1].active
      BY <2>2, <2>5
    <3>2. ASSUME NEW n \in 1 .. Len(calls'), calls'[n].active
          PROVE  \E m \in 1 .. Len(calls') : n < m /\ ~ calls'[m].active
      <4>1. n < Len(calls) + 1
        BY <1>2, <2>2, <3>1, <3>2
      <4> QED BY <3>1, <4>1
    <3>3. CallsPaired'
      BY <3>2 DEF CallsPaired
    <3>4. WakeOwed'
      BY <2>2, <3>1 DEF WakeOwed
    <3> QED BY <3>3, <3>4 DEF WakeStep
  <2> QED BY <2>4, <2>5
<1>7. CASE CallTimesOut(c)
  <2>1. PICK k \in 1 .. Len(calls) :
            /\ ChildAt(c, Waits(calls[k].active))
            /\ ChildGoes(c, Prepared(calls[k].active))
            /\ calls' \in Seq(Call) /\ Len(calls') = Len(calls)
            /\ \A m \in 1 .. Len(calls) : m # k => calls'[m] = calls[m]
            /\ calls'[k] = [pid |-> c, active |-> calls[k].active, open |-> FALSE]
            /\ calls[k].pid = c
    BY <1>7, TimesOut
  <2>2. /\ DOMAIN calls' = 1 .. Len(calls)
        /\ \A m \in 1 .. Len(calls) : /\ calls'[m].active = calls[m].active
                                       /\ calls'[m].pid = calls[m].pid
    BY <2>1
  <2>3. child'[c].at = Prepared(calls[k].active) /\ child'[c] # Nil
    BY <1>1, <2>1 DEF ChildGoes, TypeInv, TypeOK
  <2>4. ASSUME NEW d \in Pids, ChildAt(d, "announce") \/ ChildAt(d, "sleep")
        PROVE  ChildAt(d, "announce")' \/ ChildAt(d, "sleep")'
    BY <1>1, <2>1, <2>3, <2>4 DEF ChildAt, Waits, Prepared
  <2>5. ASSUME NEW n \in 1 .. Len(calls'), calls'[n].active
        PROVE  \/ \E m \in 1 .. Len(calls') : n < m /\ ~ calls'[m].active
               \/ ChildAt(calls[n].pid, "announce")' \/ ChildAt(calls[n].pid, "sleep")'
               \/ "unsent" \in CallFailures
    <3>1. n \in 1 .. Len(calls) /\ calls[n].active /\ calls'[n].pid = calls[n].pid
          /\ calls[n].pid \in Pids
      BY <1>3, <2>1, <2>2, <2>5
    <3>2. CASE \E m \in 1 .. Len(calls) : n < m /\ ~ calls[m].active
      BY <2>1, <2>2, <3>2
    <3>3. CASE ChildAt(calls[n].pid, "announce") \/ ChildAt(calls[n].pid, "sleep")
      <4>1. PICK d \in Pids : d = calls[n].pid
        BY <3>1
      <4>2. ChildAt(d, "announce")' \/ ChildAt(d, "sleep")'
        BY <2>4, <3>3, <4>1
      <4> QED BY <3>1, <4>1, <4>2 DEF ChildAt
    <3> QED BY <3>1, <3>2, <3>3 DEF CallsPaired
  <2>6. CallsPaired'
    BY <2>5 DEF CallsPaired
  <2>7. WakeOwed => WakeOwed'
    BY <1>1, <1>2, <2>2, <2>4 DEF WakeOwed
  <2> QED BY <1>1, <2>6, <2>7 DEF WakeStep
<1> QED BY <1>1, <1>4, <1>5, <1>6, <1>7 DEF CallStep

\* method_send_prepare_for_sleep(): the call that takes the announcement back is behind
\* it, or its child goes on to sleep.
LEMMA SendTold ==
    ASSUME TypeInv, CallsPaired, SendPrepareForSleep
    PROVE  CallsPaired' /\ WakeStep
<1>1. /\ 1 \in 1 .. Len(calls) /\ calls[1] \in Call /\ Head(calls) = calls[1]
      /\ calls' = Tail(calls) /\ calls' \in Seq(Call)
      /\ Len(calls') = Len(calls) - 1 /\ Len(calls) \in Nat
      /\ \A n \in 1 .. Len(calls') : n + 1 \in 1 .. Len(calls) /\ calls'[n] = calls[n + 1]
      /\ \A d \in Pids : d # calls[1].pid => child'[d] = child[d]
      /\ \/ /\ calls[1].open
            /\ child[calls[1].pid] \in ChildState
            /\ ChildAt(calls[1].pid, Waits(calls[1].active))
            /\ child'[calls[1].pid] = [act |-> child[calls[1].pid].act,
                                       at |-> Prepared(calls[1].active)]
            /\ child'[calls[1].pid] \in ChildState
         \/ ~ calls[1].open /\ UNCHANGED child
  BY SendFacts
<1>2. /\ calls[1].pid \in Pids /\ calls[1].active \in BOOLEAN /\ calls[1].open \in BOOLEAN
      /\ Nil \notin ChildState
  BY <1>1, PowerAssumption DEF Call, ChildState
<1>3. told' = [told EXCEPT !["sleep"] = calls[1].active]
  BY <1>1 DEF SendPrepareForSleep
<1>4. told'["sleep"] = calls[1].active
  BY <1>3 DEF TypeInv, TypeOK, Kinds
<1>5. ASSUME NEW m \in 1 .. Len(calls), m # 1
      PROVE  m - 1 \in 1 .. Len(calls') /\ calls'[m - 1] = calls[m]
  <2>1. m - 1 \in 1 .. Len(calls')
    BY <1>1, <1>5
  <2>2. calls'[m - 1] = calls[(m - 1) + 1] /\ (m - 1) + 1 = m
    BY <1>1, <2>1
  <2> QED BY <2>1, <2>2
<1>6. ASSUME NEW d \in Pids, ChildAt(d, "announce") \/ ChildAt(d, "sleep")
      PROVE  ChildAt(d, "announce")' \/ ChildAt(d, "sleep")'
  <2>1. CASE child'[d] = child[d]
    BY <1>6, <2>1 DEF ChildAt
  <2>2. CASE d = calls[1].pid /\ calls[1].open
    <3>1. calls[1].active
      BY <1>1, <1>2, <1>6, <2>2 DEF ChildAt, Waits
    <3> QED BY <1>1, <1>2, <2>2, <3>1 DEF ChildAt, Prepared
  <2> QED BY <1>1, <2>1, <2>2
<1>7. ASSUME NEW n \in 1 .. Len(calls), calls[n].active
      PROVE  \/ \E m \in 1 .. Len(calls) : n < m /\ ~ calls[m].active
             \/ \E d \in Pids : /\ d = calls[n].pid
                                /\ ChildAt(d, "announce")' \/ ChildAt(d, "sleep")'
             \/ "unsent" \in CallFailures
  <2>1. calls[n].pid \in Pids
    BY CallTyped DEF TypeInv
  <2>2. PICK d \in Pids : d = calls[n].pid
    BY <2>1
  <2> QED BY <1>6, <1>7, <2>2 DEF CallsPaired
<1>8. ASSUME NEW n \in 1 .. Len(calls'), calls'[n].active
      PROVE  \/ \E m \in 1 .. Len(calls') : n < m /\ ~ calls'[m].active
             \/ ChildAt(calls[n].pid, "announce")' \/ ChildAt(calls[n].pid, "sleep")'
             \/ "unsent" \in CallFailures
  <2>1. n + 1 \in 1 .. Len(calls) /\ calls'[n] = calls[n + 1] /\ calls[n + 1].active
    BY <1>1, <1>8
  <2>2. CASE \E m \in 1 .. Len(calls) : n + 1 < m /\ ~ calls[m].active
    <3>1. PICK m \in 1 .. Len(calls) : n + 1 < m /\ ~ calls[m].active
      BY <2>2
    <3>2. m # 1 /\ n < m - 1
      BY <1>1, <3>1
    <3> QED BY <1>5, <3>1, <3>2
  <2>3. CASE \E d \in Pids : /\ d = calls[n + 1].pid
                             /\ ChildAt(d, "announce")' \/ ChildAt(d, "sleep")'
    BY <2>1, <2>3 DEF ChildAt
  <2> QED BY <1>7, <2>1, <2>2, <2>3
<1>9. CallsPaired'
  BY <1>8 DEF CallsPaired
<1>10. DOMAIN calls' = 1 .. Len(calls') /\ calls # <<>>
  BY <1>1 DEF SendPrepareForSleep
<1>11. CASE ~ calls[1].active
  BY <1>4, <1>9, <1>11 DEF WakeStep
<1>12. CASE calls[1].active
  <2>1. CASE \E m \in 1 .. Len(calls) : 1 < m /\ ~ calls[m].active
    <3>1. PICK m \in 1 .. Len(calls) : 1 < m /\ ~ calls[m].active
      BY <2>1
    <3>2. m - 1 \in DOMAIN calls' /\ ~ calls'[m - 1].active
      BY <1>1, <1>5, <1>10, <3>1
    <3>3. WakeOwed'
      BY <3>2 DEF WakeOwed
    <3> QED BY <1>9, <3>3 DEF WakeStep
  <2>2. CASE \E d \in Pids : ChildAt(d, "announce")' \/ ChildAt(d, "sleep")'
    <3>1. WakeOwed'
      BY <2>2 DEF WakeOwed
    <3> QED BY <1>9, <3>1 DEF WakeStep
  <2>3. CASE "unsent" \in CallFailures
    <3>1. CASE calls[1].open
      <4>1. ChildAt(calls[1].pid, "announce")
        BY <1>1, <1>12, <3>1 DEF Waits
      <4> QED BY <1>2, <1>6, <2>2, <4>1
    <3>2. CASE ~ calls[1].open
      BY <1>1, <1>9, <1>10, <2>3, <3>2 DEF WakeStep
    <3> QED BY <3>1, <3>2
  <2> QED BY <1>1, <1>7, <1>12, <2>1, <2>2, <2>3
<1> QED BY <1>2, <1>11, <1>12

\* Every step keeps the pairs and is as WakeIsTold says.
LEMMA ToldStep ==
    ASSUME CoreInv, TypeInv, CallsPaired, [Next]_vars
    PROVE  CallsPaired' /\ (WakeStep \/ UNCHANGED vars)
<1> USE DEF actVars, schedVars, procVars, lidVars
<1>1. CASE UNCHANGED vars
  <2>1. UNCHANGED <<calls, child>>
    BY <1>1 DEF vars
  <2> QED BY <1>1, <2>1, UnwokenPaired DEF Unwoken
<1>2. ASSUME UNCHANGED <<calls, child, told, delayed>>
      PROVE  CallsPaired' /\ WakeStep
  BY <1>2, UnwokenPaired, UnwokenTold DEF Unwoken
<1>3. ASSUME NEW a \in Actions, delayed = Nil, now_or_later(a), UNCHANGED calls
      PROVE  CallsPaired' /\ WakeStep
  BY <1>3, AskTold, UnwokenPaired
<1>4. ASSUME NEW i \in InhibitorIds, NEW w, NEW m,
             method_inhibit(i, w, m) \/ inhibitor_dispatch_fifo(i) \/ HolderGone(i)
      PROVE  CallsPaired' /\ WakeStep
  <2>1. UNCHANGED <<calls, child, told, delayed>>
    BY <1>4 DEF method_inhibit, inhibitor_dispatch_fifo, HolderGone
  <2> QED BY <1>2, <2>1
<1>5. ASSUME NEW a \in Actions, NEW skip \in BOOLEAN, Request(a, skip)
      PROVE  CallsPaired' /\ WakeStep
  BY <1>3, <1>5 DEF Request
<1>6. ASSUME NEW a \in Actions, NEW dry \in BOOLEAN, ScheduleShutdown(a, dry)
      PROVE  CallsPaired' /\ WakeStep
  <2>1. UNCHANGED <<calls, child, told, delayed>>
    BY <1>6 DEF ScheduleShutdown
  <2> QED BY <1>2, <2>1
<1>7. CASE LidCloses \/ LidRecheck
  <2>1. \/ UNCHANGED <<calls, child, told, delayed>>
        \/ /\ LidSwitch \in Actions /\ delayed = Nil /\ now_or_later(LidSwitch)
           /\ UNCHANGED calls
    BY <1>7, PowerAssumption DEF LidCloses, LidRecheck, lid_action,
       handle_action_execute, handle_action_refused
  <2> QED BY <1>2, <1>3, <2>1
<1>8. CASE LidOpens \/ LidHoldOffEnds \/ NologinTimeout \/ DispatchNothing
  BY <1>2, <1>8 DEF LidOpens, LidHoldOffEnds, NologinTimeout, DispatchNothing
<1>9. CASE Idle
  <2>1. /\ IdleAction \in Actions /\ delayed = Nil /\ now_or_later(IdleAction)
        /\ UNCHANGED calls
    BY <1>9, PowerAssumption DEF Idle, handle_action_execute
  <2> QED BY <1>3, <2>1
<1>10. CASE ScheduledShutdown
  <2>1. schedAct \in Actions
    BY <1>10, ActionFacts DEF ScheduledShutdown, CoreInv, ScheduleValid, MaybeAction
  <2>2. \/ UNCHANGED <<calls, child, told, delayed>>
        \/ delayed = Nil /\ now_or_later(schedAct) /\ UNCHANGED calls
    BY <1>10 DEF ScheduledShutdown
  <2> QED BY <1>2, <1>3, <2>1, <2>2
<1>11. CASE CancelScheduledShutdown
  <2>1. UNCHANGED <<calls, child, told, job>> /\ Unwoken
    BY <1>11 DEF CancelScheduledShutdown, Unwoken
  <2>2. CallsPaired'
    BY <2>1, UnwokenPaired
  <2>3. CASE job = Nil
    <3>1. delayed' = Nil
      BY <1>11, <2>3 DEF CancelScheduledShutdown, cancel_delayed_action
    <3>2. CASE delayed \in SleepActions
      BY <2>2, <2>3, <3>1, <3>2 DEF WakeStep
    <3>3. CASE delayed \notin SleepActions
      BY <2>1, <2>2, <3>3, UnwokenTold
    <3> QED BY <3>2, <3>3
  <2>4. CASE job # Nil
    <3>1. delayed' = delayed
      BY <1>11, <2>4 DEF CancelScheduledShutdown, cancel_delayed_action
    <3> QED BY <1>2, <2>1, <3>1
  <2> QED BY <2>3, <2>4
<1>12. CASE Dispatch \/ InhibitTimeout
  <2>1. CASE delayed # Nil /\ dispatch_delayed
    <3>1. delayed \in Actions /\ UNCHANGED calls
      BY <2>1 DEF CoreInv, MaybeAction, dispatch_delayed
    <3>2. Unwoken
      BY <2>1, ForkUnwoken DEF dispatch_delayed, execute_failed
    <3>3. CASE delayed' = delayed /\ UNCHANGED told
      BY <3>1, <3>2, <3>3, UnwokenPaired, UnwokenTold
    <3>4. CASE execute_failed(delayed)
      <4>1. told \in [Kinds -> BOOLEAN] /\ Kinds = {"shutdown", "sleep"}
        BY DEF TypeInv, TypeOK, Kinds
      <4>2. CASE delayed \in SleepActions
        <5>1. inhibit_what(delayed) = "sleep"
          BY <4>2 DEF inhibit_what, SleepActions, ShutdownActions
        <5>2. ~ told'["sleep"]
          BY <3>4, <4>1, <5>1 DEF execute_failed
        <5> QED BY <3>1, <3>2, <5>2, UnwokenPaired, UnwokenTold
      <4>3. CASE delayed \notin SleepActions
        <5>1. inhibit_what(delayed) = "shutdown"
          BY <3>1, <4>3, ActionFacts DEF inhibit_what
        <5>2. told'["sleep"] = told["sleep"]
          BY <3>4, <4>1, <5>1 DEF execute_failed
        <5> QED BY <3>1, <3>2, <4>3, <5>2, UnwokenPaired, UnwokenTold
      <4> QED BY <4>2, <4>3
    <3> QED BY <2>1, <3>3, <3>4 DEF dispatch_delayed, execute_ok
  <2>2. CASE UNCHANGED <<calls, child, told, delayed>>
    BY <1>2, <2>2
  <2> QED BY <1>12, <2>1, <2>2 DEF Dispatch, InhibitTimeout
<1>13. CASE SigChld
  <2>1. UNCHANGED calls /\ Unwoken
    BY <1>13 DEF SigChld, Unwoken, TypeInv, TypeOK
  <2>2. \/ ~ told'["sleep"]
        \/ UNCHANGED <<told, delayed>>
    BY <1>13 DEF SigChld, TypeInv, TypeOK, Kinds
  <2> QED BY <2>1, <2>2, UnwokenPaired, UnwokenTold
<1>14. CASE OtherChildExits
  BY <1>2, <1>14 DEF OtherChildExits, daemonVars
<1> QED BY <1>1, <1>4, <1>5, <1>6, <1>7, <1>8, <1>9, <1>10, <1>11, <1>12, <1>13, <1>14,
           SendTold, ChildTold
        DEF Next, EventHandler, Progress, Environment

\* PrepareForSleep(true) does not stand for ever: the daemon wants the sleep and hears of
\* its end, or a child has the call that takes it back before it, or that call waits,
\* whichever children exit, and whichever calls of prepare_for_sleep() time out.  What leaves
\* it standing is a delayed sleep that is cancelled, and a call that was never sent.
THEOREM WakeIsAnnounced == Spec => WakeIsTold
<1>1. Init => CallsPaired
  BY DEF Init, CallsPaired
<1>2. CoreInv /\ TypeInv /\ CallsPaired /\ [Next]_vars => CallsPaired' /\ [WakeStep]_vars
  BY ToldStep
<1>3. Spec => []TypeInv
  BY TypeInit, TypeStep, CoreInvariance, PTL DEF Spec
<1>4. Spec => [][WakeStep]_vars
  BY <1>1, <1>2, <1>3, CoreInvariance, PTL DEF Spec
<1> QED BY <1>4 DEF WakeStep, WakeIsTold

-----------------------------------------------------------------------------
(***************************************************************************)
(* The end of a sleep.  That it comes is liveness and left to TLC; what it *)
(* rests on is proved.                                                     *)
(***************************************************************************)
\* A call of the child, one that it waits for the answer to, is to be handled.
Called(c) == \E n \in 1 .. Len(calls) : calls[n].pid = c /\ calls[n].open

\* The child waits for the answer to its call.
AwaitsAnswer(c) == ChildAt(c, "announce") \/ ChildAt(c, "resume")

\* The daemon knows the child of a sleep, has the signal of its exit to read when it has
\* exited, and the call of every child that waits for an answer.
WatchInv ==
    /\ forkAct \in SleepActions =>
          /\ forkPid \in Pids /\ child[forkPid] # Nil
          /\ ChildAt(forkPid, "exited") => sigchld
    /\ \A c \in Pids : AwaitsAnswer(c) => Called(c)

\* Who moves next when the child is there: the child itself, or the daemon, for the call
\* or the signal that it has to handle.
Driven(c) ==
    \/ ChildAt(c, "begin") \/ ChildAt(c, "sleep") \/ ChildAt(c, "post")
    \/ AwaitsAnswer(c) /\ Called(c)
    \/ ChildAt(c, "exited") /\ sigchld

\* A step that leaves the children, their calls and the signal alone.
WatchFrame == UNCHANGED <<forkAct, forkPid, child, sigchld, calls>>

\* WatchInv is about these variables only.
LEMMA WatchFrameKeeps ==
    ASSUME WatchInv, WatchFrame
    PROVE  WatchInv'
BY DEF WatchInv, WatchFrame, ChildAt, AwaitsAnswer, Called

\* Forking the child: it has not exited and has called nobody.
LEMMA ExecuteWatched ==
    ASSUME TypeInv, WatchInv, NEW a \in Actions, execute_ok(a), UNCHANGED <<sigchld, calls>>
    PROVE  WatchInv'
<1>1. PICK c \in Pids : /\ child[c] = Nil /\ forkPid' = c
                        /\ child' = [child EXCEPT ![c] = [act |-> a, at |-> "begin"]]
  BY DEF execute_ok
<1>2. [act |-> a, at |-> "begin"] \in ChildState /\ Nil \notin ChildState
  BY PowerAssumption DEF ChildState
<1>3. /\ child'[c] # Nil /\ child'[c].at = "begin"
      /\ \A d \in Pids : d # c => child'[d] = child[d]
  BY <1>1, <1>2 DEF TypeInv, TypeOK
<1> QED BY <1>1, <1>3 DEF WatchInv, ChildAt, AwaitsAnswer, Called

\* now_or_later() forks it, or changes nothing of it.
LEMMA AskWatched ==
    ASSUME TypeInv, WatchInv, NEW a \in Actions, now_or_later(a), UNCHANGED <<sigchld, calls>>
    PROVE  WatchInv'
<1>1. CASE execute_ok(a)
  BY <1>1, ExecuteWatched
<1>2. CASE UNCHANGED <<forkAct, forkPid, child>>
  BY <1>2, WatchFrameKeeps DEF WatchFrame
<1> QED BY <1>1, <1>2 DEF now_or_later, execute_failed

\* A child makes a call and waits for the answer, or exits with a signal.
LEMMA ChildWatched ==
    ASSUME TypeInv, WatchInv, NEW c \in Pids, ChildStep(c)
    PROVE  WatchInv'
<1>1. /\ child[c] \in ChildState /\ child'[c] \in ChildState /\ Nil \notin ChildState
      /\ \A d \in Pids : d # c => child'[d] = child[d]
      /\ UNCHANGED <<forkAct, forkPid>> /\ CallStep(c)
      /\ calls \in Seq(Call) /\ Len(calls) \in Nat
  BY ChildFacts, PowerAssumption DEF ChildState, actVars, TypeInv, TypeOK
<1>2. (child'[c].at = "exited" => sigchld') /\ (sigchld => sigchld')
  <2>1. CASE CallTimesOut(c)
    <3>1. PICK k \in 1 .. Len(calls) : ChildGoes(c, Prepared(calls[k].active))
      BY <2>1, TimesOut
    <3>2. child'[c].at = Prepared(calls[k].active)
      BY <1>1, <3>1 DEF ChildGoes, TypeInv, TypeOK
    <3> QED BY <2>1, <3>2 DEF CallTimesOut, Prepared
  <2>2. CASE RunHelper(c) \/ SleepHooks(c) \/ SleepFails(c) \/ Sleep(c) \/ SleepDone(c)
    BY <1>1, <2>2 DEF RunHelper, SleepHooks, SleepFails, Sleep, SleepDone, Again,
       ChildExits, ChildGoes, prepare_for_sleep, Prepared, TypeInv, TypeOK
  <2> QED BY <2>1, <2>2 DEF ChildStep
<1>3. ASSUME NEW d \in Pids, AwaitsAnswer(d)' PROVE Called(d)'
  <2>1. CASE calls' = calls /\ child'[c].at \notin {"announce", "resume"}
    <3>1. AwaitsAnswer(d)
      BY <1>1, <1>3, <2>1 DEF AwaitsAnswer, ChildAt
    <3> QED BY <2>1, <3>1 DEF WatchInv, Called
  <2>2. ASSUME NEW active \in BOOLEAN,
               calls' = Append(calls, [pid |-> c, active |-> active, open |-> TRUE])
        PROVE  Called(d)'
    <3>1. /\ Len(calls') = Len(calls) + 1
          /\ \A n \in 1 .. Len(calls) : calls'[n] = calls[n]
          /\ calls'[Len(calls) + 1].pid = c /\ calls'[Len(calls) + 1].open
      BY <1>1, <2>2
    <3>2. CASE d = c
      BY <1>1, <3>1, <3>2 DEF Called
    <3>3. CASE d # c
      <4>1. Called(d)
        BY <1>1, <1>3, <3>3 DEF AwaitsAnswer, ChildAt, WatchInv
      <4> QED BY <1>1, <3>1, <4>1 DEF Called
    <3> QED BY <3>2, <3>3
  <2>3. CASE CallTimesOut(c)
    <3>1. PICK k \in 1 .. Len(calls) :
              /\ calls[k].pid = c /\ ChildGoes(c, Prepared(calls[k].active))
              /\ Len(calls') = Len(calls)
              /\ \A m \in 1 .. Len(calls) : m # k => calls'[m] = calls[m]
      BY <2>3, TimesOut
    <3>2. child'[c].at = Prepared(calls[k].active)
      BY <1>1, <3>1 DEF ChildGoes, TypeInv, TypeOK
    <3>3. d # c /\ AwaitsAnswer(d)
      BY <1>1, <1>3, <3>2 DEF AwaitsAnswer, ChildAt, Prepared
    <3>4. PICK n \in 1 .. Len(calls) : calls[n].pid = d /\ calls[n].open
      BY <3>3 DEF WatchInv, Called
    <3>5. n \in 1 .. Len(calls') /\ calls'[n] = calls[n]
      BY <3>1, <3>3, <3>4
    <3> QED BY <3>4, <3>5 DEF Called
  <2> QED BY <1>1, <2>1, <2>2, <2>3 DEF CallStep
<1> QED BY <1>1, <1>2, <1>3 DEF WatchInv, ChildAt

\* method_send_prepare_for_sleep() lets the caller of the first call go on.
LEMMA SendWatched ==
    ASSUME TypeInv, WatchInv, SendPrepareForSleep
    PROVE  WatchInv'
<1>1. /\ 1 \in 1 .. Len(calls) /\ calls[1] \in Call /\ Len(calls) \in Nat
      /\ Len(calls') = Len(calls) - 1
      /\ \A n \in 1 .. Len(calls') : n + 1 \in 1 .. Len(calls) /\ calls'[n] = calls[n + 1]
      /\ \A d \in Pids : d # calls[1].pid => child'[d] = child[d]
      /\ \/ /\ calls[1].open
            /\ child[calls[1].pid] \in ChildState
            /\ child'[calls[1].pid] = [act |-> child[calls[1].pid].act,
                                       at |-> Prepared(calls[1].active)]
            /\ child'[calls[1].pid] \in ChildState
         \/ ~ calls[1].open /\ UNCHANGED child
  BY SendFacts
<1>2. calls[1].pid \in Pids /\ Nil \notin ChildState /\ UNCHANGED <<forkAct, forkPid, sigchld>>
  BY <1>1, PowerAssumption DEF Call, ChildState, SendPrepareForSleep, actVars
<1>3. ASSUME NEW d \in Pids
      PROVE  \/ child'[d] = child[d] /\ (calls[1].open => d # calls[1].pid)
             \/ child'[d] # Nil /\ child'[d].at \in {"sleep", "post"}
  BY <1>1, <1>2 DEF Prepared
<1>4. ASSUME NEW d \in Pids, AwaitsAnswer(d)' PROVE Called(d)'
  <2>1. AwaitsAnswer(d) /\ (calls[1].open => d # calls[1].pid)
    BY <1>3, <1>4 DEF AwaitsAnswer, ChildAt
  <2>2. PICK n \in 1 .. Len(calls) : calls[n].pid = d /\ calls[n].open
    BY <2>1 DEF WatchInv, Called
  <2>3. n # 1
    BY <2>1, <2>2
  <2>4. n - 1 \in 1 .. Len(calls') /\ (n - 1) + 1 = n
    BY <1>1, <2>3
  <2>5. calls'[n - 1] = calls[n]
    BY <1>1, <2>4
  <2> QED BY <2>2, <2>4, <2>5 DEF Called
<1> QED BY <1>2, <1>3, <1>4 DEF WatchInv, ChildAt

\* Every step keeps WatchInv.
LEMMA WatchStep ==
    ASSUME CoreInv, TypeInv, WatchInv, [Next]_vars
    PROVE  WatchInv'
<1> USE DEF actVars, schedVars, procVars, lidVars
<1>1. CASE WatchFrame
  BY <1>1, WatchFrameKeeps
<1>2. CASE UNCHANGED vars
  BY <1>1, <1>2 DEF vars, WatchFrame
<1>3. ASSUME NEW i \in InhibitorIds, NEW w, NEW m,
             method_inhibit(i, w, m) \/ inhibitor_dispatch_fifo(i) \/ HolderGone(i)
      PROVE  WatchInv'
  BY <1>1, <1>3 DEF method_inhibit, inhibitor_dispatch_fifo, HolderGone, WatchFrame
<1>4. ASSUME NEW a \in Actions, NEW skip \in BOOLEAN, Request(a, skip)
      PROVE  WatchInv'
  BY <1>4, AskWatched DEF Request
<1>5. ASSUME NEW a \in Actions, NEW dry \in BOOLEAN, ScheduleShutdown(a, dry)
      PROVE  WatchInv'
  BY <1>1, <1>5 DEF ScheduleShutdown, WatchFrame
<1>6. CASE LidCloses \/ LidRecheck
  <2>1. WatchFrame \/ (LidSwitch \in Actions /\ now_or_later(LidSwitch)
                        /\ UNCHANGED <<sigchld, calls>>)
    BY <1>6, PowerAssumption DEF LidCloses, LidRecheck, lid_action, WatchFrame,
       handle_action_execute, handle_action_refused
  <2> QED BY <1>1, <2>1, AskWatched
<1>7. CASE \/ LidOpens \/ LidHoldOffEnds \/ NologinTimeout
           \/ CancelScheduledShutdown \/ DispatchNothing
  BY <1>1, <1>7 DEF LidOpens, LidHoldOffEnds, NologinTimeout, CancelScheduledShutdown,
     DispatchNothing, WatchFrame
<1>8. CASE Idle
  <2>1. IdleAction \in Actions /\ now_or_later(IdleAction) /\ UNCHANGED <<sigchld, calls>>
    BY <1>8, PowerAssumption DEF Idle, handle_action_execute
  <2> QED BY <2>1, AskWatched
<1>9. CASE ScheduledShutdown
  <2>1. schedAct \in Actions
    BY <1>9, ActionFacts DEF ScheduledShutdown, CoreInv, ScheduleValid, MaybeAction
  <2>2. WatchFrame \/ (now_or_later(schedAct) /\ UNCHANGED <<sigchld, calls>>)
    BY <1>9 DEF ScheduledShutdown, WatchFrame
  <2> QED BY <1>1, <2>1, <2>2, AskWatched
<1>10. CASE Dispatch \/ InhibitTimeout
  <2>1. CASE delayed # Nil /\ dispatch_delayed
    <3>1. delayed \in Actions /\ UNCHANGED <<sigchld, calls>>
      BY <2>1 DEF CoreInv, MaybeAction, dispatch_delayed
    <3>2. CASE execute_failed(delayed)
      BY <1>1, <3>1, <3>2 DEF execute_failed, WatchFrame
    <3> QED BY <2>1, <3>1, <3>2, ExecuteWatched DEF dispatch_delayed
  <2>2. CASE WatchFrame
    BY <1>1, <2>2
  <2> QED BY <1>10, <2>1, <2>2 DEF Dispatch, InhibitTimeout, WatchFrame
<1>11. CASE SigChld
  <2>1. forkAct' \notin SleepActions
    BY <1>11, PowerAssumption DEF SigChld, WatchInv
  <2>2. calls' = calls /\ \A c \in Pids : child'[c] = child[c] \/ child'[c] = Nil
    BY <1>11 DEF SigChld, TypeInv, TypeOK
  <2> QED BY <2>1, <2>2 DEF WatchInv, AwaitsAnswer, ChildAt, Called
<1>12. CASE OtherChildExits
  BY <1>12 DEF OtherChildExits, daemonVars, WatchInv, ChildAt, AwaitsAnswer, Called
<1> QED BY <1>2, <1>3, <1>4, <1>5, <1>6, <1>7, <1>8, <1>9, <1>10, <1>11, <1>12,
           SendWatched, ChildWatched
        DEF Next, EventHandler, Progress, Environment

\* A sleep that is wanted is never stranded: while it is delayed the timeout that ends
\* the delay is armed, and while it runs the daemon knows its child, and the child has a
\* step of its own to take, or the daemon its call or the signal of its exit to handle.
\* elogind_sigchld_handler() ends the sleep.
THEOREM SleepIsDriven ==
    Spec => /\ [](delayed \in SleepActions =>
                     \/ job = Nil /\ timer
                     \/ job = delayed /\ forkPid \in Pids /\ Driven(forkPid))
            /\ [][SigChld /\ job \in SleepActions => delayed' = Nil]_vars
<1>1. Init => WatchInv
  BY PowerAssumption DEF Init, WatchInv, AwaitsAnswer, ChildAt
<1>2. CoreInv /\ TypeInv /\ WatchInv /\ [Next]_vars => WatchInv'
  BY WatchStep
<1>3. CoreInv /\ TypeInv /\ WatchInv =>
        (delayed \in SleepActions =>
            \/ job = Nil /\ timer
            \/ job = delayed /\ forkPid \in Pids /\ Driven(forkPid))
  <2> SUFFICES ASSUME CoreInv, TypeInv, WatchInv, delayed \in SleepActions, job # Nil
               PROVE  job = delayed /\ forkPid \in Pids /\ Driven(forkPid)
    BY PowerAssumption DEF CoreInv, DelayBounded
  <2>1. job = delayed /\ forkAct \in SleepActions
    BY DEF CoreInv, ActionStateAgrees
  <2>2. forkPid \in Pids /\ child[forkPid] # Nil /\ (ChildAt(forkPid, "exited") => sigchld)
    BY <2>1 DEF WatchInv
  <2>3. child[forkPid] \in ChildState
    BY <2>2 DEF TypeInv, TypeOK
  <2>4. child[forkPid].at \in {"begin", "announce", "sleep", "resume", "post", "exited"}
    BY <2>3 DEF ChildState
  <2> QED BY <2>1, <2>2, <2>4 DEF WatchInv, Driven, AwaitsAnswer, ChildAt
<1>4. CoreInv /\ WatchInv /\ [Next]_vars =>
        [SigChld /\ job \in SleepActions => delayed' = Nil]_vars
  BY PowerAssumption DEF CoreInv, ActionStateAgrees, WatchInv, SigChld
<1>5. Spec => []TypeInv
  BY TypeInit, TypeStep, CoreInvariance, PTL DEF Spec
<1> QED BY <1>1, <1>2, <1>3, <1>4, <1>5, CoreInvariance, PTL DEF Spec

\* How many steps a child is from its exit: hybrid sleep may be followed by suspend.
StagesLeft(k) ==
    (IF k.act = "hybrid-sleep" THEN 6 ELSE 0)
    + (CASE k.at = "begin"    -> 5
         [] k.at = "announce" -> 4
         [] k.at = "sleep"    -> 3
         [] k.at = "resume"   -> 2
         [] k.at = "post"     -> 1
         [] OTHER             -> 0)

\* What the child of an action does: every step of it, and every answer of the daemon to
\* it, brings it nearer to its exit, and only then it goes.  Suspend-then-hibernate, which
\* may suspend any number of times, is excepted.
THEOREM ChildAdvances ==
    Spec => [][\A c \in Pids :
                  child[c] # Nil /\ child[c].act # "suspend-then-hibernate"
                                 /\ child'[c] # child[c] =>
                      \/ child[c].at = "exited" /\ child'[c] = Nil
                      \/ child'[c] # Nil /\ StagesLeft(child'[c]) < StagesLeft(child[c])]_vars
<1> DEFINE P(c) == child[c] # Nil /\ child[c].act # "suspend-then-hibernate"
                                 /\ child'[c] # child[c] =>
                      \/ child[c].at = "exited" /\ child'[c] = Nil
                      \/ child'[c] # Nil /\ StagesLeft(child'[c]) < StagesLeft(child[c])
<1>1. CoreInv /\ TypeInv /\ [Next]_vars => [\A c \in Pids : P(c)]_vars
  <2> SUFFICES ASSUME CoreInv, TypeInv, Next, NEW c \in Pids,
                      child[c] # Nil, child[c].act # "suspend-then-hibernate",
                      child'[c] # child[c]
               PROVE  \/ child[c].at = "exited" /\ child'[c] = Nil
                      \/ child'[c] # Nil /\ StagesLeft(child'[c]) < StagesLeft(child[c])
    OBVIOUS
  <2> USE DEF actVars, schedVars, procVars, lidVars
  <2>1. child \in [Pids -> ChildState \cup {Nil}] /\ child[c] \in ChildState /\ ActTyped
    BY TypeParts DEF TypeInv, TypeOK
  <2>2. ASSUME \A d \in Pids : child[d] # Nil => child'[d] = child[d] PROVE FALSE
    BY <2>2
  <2>3. ASSUME NEW d \in Pids, ChildStep(d)
        PROVE  child'[c] # Nil /\ StagesLeft(child'[c]) < StagesLeft(child[c])
    <3>1. d = c
      BY <2>3, ChildFacts
    <3>2. ASSUME NEW a \in Actions \cup {"suspend"},
                 NEW q \in {"announce", "sleep", "resume", "post", "exited"},
                 a = child[c].act, child[c].at # "exited",
                 q = "announce" => child[c].at = "begin",
                 q = "sleep" => child[c].at \in {"begin", "announce"},
                 q = "resume" => child[c].at = "sleep",
                 q = "post" => child[c].at \in {"sleep", "resume"},
                 child'[c] = [act |-> a, at |-> q]
          PROVE  child'[c] # Nil /\ StagesLeft(child'[c]) < StagesLeft(child[c])
      <4>1. child'[c] \in ChildState
        BY <3>2 DEF ChildState
      <4>2. child'[c].act = child[c].act /\ child'[c].at = q
        BY <3>2
      <4>3. child[c].at \in {"begin", "announce", "sleep", "resume", "post"}
        BY <2>1, <3>2 DEF ChildState
      <4>4. StagesLeft(child'[c]) < StagesLeft(child[c])
        BY <3>2, <4>2, <4>3 DEF StagesLeft
      <4> QED BY <4>1, <4>4, PowerAssumption DEF ChildState
    <3>3. ASSUME child[c].act = "hybrid-sleep", child'[c] = [act |-> "suspend", at |-> "begin"]
          PROVE  child'[c] # Nil /\ StagesLeft(child'[c]) < StagesLeft(child[c])
      <4>1. child'[c] \in ChildState
        BY <3>3 DEF ChildState
      <4>2. child'[c].act = "suspend" /\ child'[c].at = "begin"
        BY <3>3
      <4>3. child[c].at \in {"begin", "announce", "sleep", "resume", "post", "exited"}
        BY <2>1 DEF ChildState
      <4>4. StagesLeft(child'[c]) < StagesLeft(child[c])
        BY <3>3, <4>2, <4>3 DEF StagesLeft
      <4> QED BY <4>1, <4>4, PowerAssumption DEF ChildState
    <3>4. child[c].act \in Actions \cup {"suspend"}
      BY <2>1 DEF ChildState
    <3>5. ASSUME NEW q \in {"announce", "sleep", "resume", "post", "exited"}, ChildGoes(c, q)
          PROVE  child'[c] = [act |-> child[c].act, at |-> q]
      BY <2>1, <3>5 DEF ChildGoes
    <3>6. CASE RunHelper(c)
      BY <3>2, <3>4, <3>5, <3>6 DEF RunHelper, ChildExits, ChildAt
    <3>7. CASE SleepHooks(c)
      <4>1. PICK q \in {"announce", "sleep"} : ChildGoes(c, q)
        BY <3>7 DEF SleepHooks, prepare_for_sleep, Prepared
      <4>2. child'[c] = [act |-> child[c].act, at |-> q] /\ child[c].at = "begin"
        BY <3>5, <3>7, <4>1 DEF SleepHooks, ChildAt
      <4> QED BY <3>2, <3>4, <4>1, <4>2
    <3>8. CASE SleepFails(c)
      <4>1. CASE child[c].act = "hybrid-sleep"
        BY <2>1, <3>3, <3>8, <4>1 DEF SleepFails
      <4>2. CASE child[c].act # "hybrid-sleep"
        BY <3>2, <3>4, <3>5, <3>8, <4>2 DEF SleepFails, ChildExits, ChildAt
      <4> QED BY <4>1, <4>2
    <3>9. CASE Sleep(c)
      <4>1. PICK q \in {"resume", "post"} : ChildGoes(c, q)
        BY <3>9 DEF Sleep, prepare_for_sleep, Prepared
      <4>2. child'[c] = [act |-> child[c].act, at |-> q] /\ child[c].at = "sleep"
        BY <3>5, <3>9, <4>1 DEF Sleep, ChildAt
      <4> QED BY <3>2, <3>4, <4>1, <4>2
    <3>10. CASE SleepDone(c)
      <4>1. CASE ChildExits(c)
        BY <3>2, <3>4, <3>5, <3>10, <4>1 DEF SleepDone, ChildExits, ChildAt
      <4>2. ASSUME NEW a \in Again(c), child' = [child EXCEPT ![c] = [act |-> a, at |-> "begin"]]
            PROVE  child'[c] # Nil /\ StagesLeft(child'[c]) < StagesLeft(child[c])
        <5>1. child[c].act = "hybrid-sleep" /\ a = "suspend"
          BY <4>2 DEF Again
        <5> QED BY <2>1, <3>3, <4>2, <5>1
      <4> QED BY <3>10, <4>1, <4>2 DEF SleepDone
    <3>11. CASE CallTimesOut(c)
      <4>1. PICK k \in 1 .. Len(calls) : /\ ChildAt(c, Waits(calls[k].active))
                                          /\ ChildGoes(c, Prepared(calls[k].active))
        BY <3>11, TimesOut
      <4>2. child'[c] = [act |-> child[c].act, at |-> Prepared(calls[k].active)]
        BY <3>5, <4>1 DEF Prepared
      <4>3. child[c].at = Waits(calls[k].active)
        BY <4>1 DEF ChildAt
      <4>4. CASE calls[k].active
        BY <3>2, <3>4, <4>2, <4>3, <4>4 DEF Waits, Prepared
      <4>5. CASE ~ calls[k].active
        BY <3>2, <3>4, <4>2, <4>3, <4>5 DEF Waits, Prepared
      <4> QED BY <4>4, <4>5
    <3> QED BY <2>3, <3>1, <3>6, <3>7, <3>8, <3>9, <3>10, <3>11 DEF ChildStep
  <2>4. CASE SendPrepareForSleep
    <3>1. /\ calls[1].open /\ calls[1] \in Call /\ c = calls[1].pid
          /\ ChildAt(calls[1].pid, Waits(calls[1].active))
          /\ child'[calls[1].pid] = [act |-> child[calls[1].pid].act,
                                     at |-> Prepared(calls[1].active)]
          /\ child'[calls[1].pid] \in ChildState
      BY <2>4, SendFacts
    <3>2. /\ child'[c].act = child[c].act /\ child'[c].at = Prepared(calls[1].active)
          /\ child[c].at = Waits(calls[1].active)
      BY <3>1 DEF ChildAt
    <3>3. StagesLeft(child'[c]) < StagesLeft(child[c])
      BY <3>2 DEF Prepared, Waits, StagesLeft
    <3> QED BY <3>1, <3>3, PowerAssumption DEF ChildState
  <2>5. CASE SigChld
    BY <2>1, <2>5 DEF SigChld
  <2>6. ASSUME NEW a \in Actions, now_or_later(a) PROVE FALSE
    BY <2>1, <2>2, <2>6, AskTyped
  <2>7. CASE UNCHANGED child
    BY <2>7
  <2>8. CASE EventHandler
    <3>1. CASE \E a \in Actions, skip \in BOOLEAN : Request(a, skip)
      BY <2>6, <3>1 DEF Request
    <3>2. CASE ScheduledShutdown
      <4>1. schedAct \in Actions
        BY <3>2, ActionFacts DEF ScheduledShutdown, CoreInv, ScheduleValid, MaybeAction
      <4> QED BY <2>6, <2>7, <3>2, <4>1 DEF ScheduledShutdown
    <3>3. CASE LidCloses \/ LidRecheck
      BY <2>1, <2>2, <3>3, LidTyped DEF LidCloses, LidRecheck
    <3>4. CASE Idle
      <4>1. IdleAction \in Actions /\ now_or_later(IdleAction)
        BY <3>4, PowerAssumption DEF Idle, handle_action_execute
      <4> QED BY <2>6, <4>1
    <3>5. CASE \/ LidOpens \/ LidHoldOffEnds \/ NologinTimeout \/ CancelScheduledShutdown
      BY <2>7, <3>5 DEF LidOpens, LidHoldOffEnds, NologinTimeout, CancelScheduledShutdown
    <3>6. CASE \E a \in Actions, dry \in BOOLEAN : ScheduleShutdown(a, dry)
      BY <2>7, <3>6 DEF ScheduleShutdown
    <3>7. CASE \E i \in InhibitorIds :
                  \/ \E w \in SUBSET Whats, m \in Modes : method_inhibit(i, w, m)
                  \/ inhibitor_dispatch_fifo(i)
      BY <2>7, <3>7 DEF method_inhibit, inhibitor_dispatch_fifo
    <3> QED BY <2>8, <3>1, <3>2, <3>3, <3>4, <3>5, <3>6, <3>7 DEF EventHandler
  <2>9. CASE Dispatch \/ DispatchNothing \/ InhibitTimeout
    <3>1. CASE delayed # Nil /\ dispatch_delayed
      <4>1. delayed \in Actions
        BY <3>1 DEF CoreInv, MaybeAction
      <4> QED BY <2>1, <2>2, <2>7, <3>1, <4>1, ExecuteTyped
              DEF dispatch_delayed, execute_failed
    <3> QED BY <2>7, <2>9, <3>1 DEF Dispatch, DispatchNothing, InhibitTimeout
  <2>10. CASE (\E i \in InhibitorIds : HolderGone(i)) \/ OtherChildExits
    BY <2>7, <2>10 DEF HolderGone, OtherChildExits
  <2> QED BY <2>3, <2>4, <2>5, <2>8, <2>9, <2>10 DEF Next, Progress, Environment
<1>2. Spec => []TypeInv
  BY TypeInit, TypeStep, CoreInvariance, PTL DEF Spec
<1>3. Spec => [][\A c \in Pids : P(c)]_vars
  BY <1>1, <1>2, CoreInvariance, PTL DEF Spec
<1> QED BY <1>3

=============================================================================
