-------------------------- MODULE Brightness_proofs --------------------------
(***************************************************************************)
(* Proofs about the coalescing of brightness writes, for any number of     *)
(* requests.                                                               *)
(***************************************************************************)
EXTENDS Brightness, TLAPS

\* What WriterConsistent needs to be inductive: requests to come are not answered.
IInv ==
    /\ TypeOK
    /\ WriterConsistent
    /\ \A k \in Requests : k > asked => reply[k] = "none"

USE DEF Requests, Writer, Child

\* No writer and no child is Nil.
LEMMA NotNil ==
    /\ \A w \in Writer : w # Nil
    /\ \A c \in Child : c # Nil
BY BrightnessAssumption

\* The invariant holds before the first request.
LEMMA InitIInv == Init => IInv
BY BrightnessAssumption DEF Init, IInv, TypeOK, WriterConsistent, Waiting

\* manager_write_brightness() on a writer that is at work keeps the invariant.
LEMMA AppendKeeps ==
    ASSUME IInv, NEW expect_reply \in BOOLEAN, AppendRequest(expect_reply)
    PROVE  IInv'
<1> USE BrightnessAssumption, NotNil DEF IInv, AppendRequest
<1>1. writer \in Writer /\ child \in Child /\ asked + 1 \in Requests
  BY DEF TypeOK, WriterConsistent
<1>2. writer' \in Writer /\ writer' # Nil
  BY <1>1
<1>3. TypeOK'
  BY <1>1, <1>2 DEF TypeOK
<1>4. \A k \in Waiting' : k \in Waiting \/ k = asked + 1
  BY <1>1, <1>2 DEF Waiting
<1>5. WriterConsistent'
  <2>1. \A k \in Waiting' : k <= asked' /\ reply'[k] = "none"
    <3>1. asked \in Nat /\ reply' = reply /\ asked' = asked + 1
      BY DEF TypeOK
    <3>2. Waiting \subseteq Requests
      BY <1>1 DEF Waiting
    <3>3. \A k \in Waiting : k <= asked /\ reply[k] = "none"
      BY DEF WriterConsistent
    <3>4. reply[asked + 1] = "none"
      BY <1>1, <3>1
    <3> TAKE k \in Waiting'
    <3>5. CASE k \in Waiting
      <4>1. k \in Nat /\ k <= asked /\ reply[k] = "none"
        BY <3>2, <3>3, <3>5
      <4> QED BY <3>1, <4>1
    <3>6. CASE k = asked + 1
      BY <3>1, <3>4, <3>6
    <3> QED BY <1>4, <3>5, <3>6
  <2>2. writer'.current \cap writer'.pending = {}
    BY <1>1 DEF WriterConsistent, TypeOK, Waiting
  <2> QED BY <1>1, <1>2, <2>1, <2>2 DEF WriterConsistent, TypeOK
<1> QED BY <1>3, <1>5 DEF TypeOK

\* So does manager_write_brightness() on a device nobody writes to.
LEMMA NewKeeps ==
    ASSUME IInv, NEW expect_reply \in BOOLEAN, NewWriter(expect_reply)
    PROVE  IInv'
<1> USE BrightnessAssumption, NotNil DEF IInv, NewWriter
<1>1. asked + 1 \in Requests /\ asked \in Nat
  BY DEF TypeOK
<1>2. CASE /\ brightness_writer_fork(
                [brightness |-> asked + 1, again |-> FALSE, pending |-> {},
                 current |-> IF expect_reply THEN {asked + 1} ELSE {}])
           /\ UNCHANGED reply
  <2>1. writer' \in Writer /\ child' \in Child
    BY <1>1, <1>2 DEF brightness_writer_fork
  <2>2. TypeOK'
    BY <1>1, <1>2, <2>1 DEF brightness_writer_fork, TypeOK
  <2>3. /\ writer'.current \subseteq {asked + 1} /\ writer'.pending = {}
        /\ writer'.brightness = asked + 1 /\ child'.brightness = asked + 1
        /\ ~ writer'.again
    BY <1>2 DEF brightness_writer_fork
  <2>4. Waiting' \subseteq {asked + 1} /\ reply'[asked + 1] = "none"
    BY <1>1, <1>2, <2>1, <2>3 DEF Waiting
  <2>5. WriterConsistent'
    BY <1>1, <2>1, <2>3, <2>4 DEF WriterConsistent
  <2> QED BY <1>1, <1>2, <2>2, <2>5 DEF TypeOK
<1>3. CASE /\ brightness_writer_fork_failed(asked + 1)
           /\ brightness_writer_reply(IF expect_reply THEN {asked + 1} ELSE {}, "error")
  <2>1. TypeOK'
    <3>1. reply' \in [Requests -> {"none", "ok", "error"}]
      BY <1>3 DEF brightness_writer_reply, TypeOK
    <3>2. orphans' \in [Requests -> {"none", "writing", "gone"}]
      BY <1>1, <1>3 DEF brightness_writer_fork_failed, TypeOK
    <3> QED BY <1>1, <1>3, <3>1, <3>2 DEF brightness_writer_fork_failed, TypeOK
  <2>2. WriterConsistent'
    BY <1>1, <1>3 DEF brightness_writer_fork_failed, WriterConsistent, Waiting
  <2> QED BY <1>1, <1>3, <2>1, <2>2 DEF brightness_writer_reply, TypeOK
<1> QED BY <1>2, <1>3

\* So does what the children do.
LEMMA ChildKeeps ==
    ASSUME IInv, ChildWrites \/ \E k \in Requests : OrphanWrites(k)
    PROVE  IInv'
<1> USE BrightnessAssumption, NotNil DEF IInv
<1>1. CASE ChildWrites
  <2>1. child \in Child /\ child' \in Child /\ child'.brightness = child.brightness
    BY <1>1 DEF ChildWrites, TypeOK
  <2> QED BY <1>1, <2>1 DEF ChildWrites, TypeOK, WriterConsistent, Waiting
<1>2. ASSUME NEW k \in Requests, OrphanWrites(k) PROVE IInv'
  BY <1>2 DEF OrphanWrites, TypeOK, WriterConsistent, Waiting
<1> QED BY <1>1, <1>2

\* And so does on_brightness_writer_exit(), in each of its three outcomes.
LEMMA ExitKeeps ==
    ASSUME IInv, on_brightness_writer_exit
    PROVE  IInv'
<1> DEFINE with == IF child.at = "written" THEN "ok" ELSE "error"
<1> USE BrightnessAssumption, NotNil DEF IInv
<1>1. writer \in Writer /\ child \in Child /\ with \in {"ok", "error"}
  BY DEF on_brightness_writer_exit, TypeOK, WriterConsistent
<1>2. UNCHANGED <<asked, device>> /\ asked \in Nat /\ asked \in Requests
  BY <1>1 DEF on_brightness_writer_exit, TypeOK, WriterConsistent
<1>3. \A k \in writer.current \cup writer.pending :
         k \in Requests /\ k <= asked /\ reply[k] = "none"
  BY <1>1 DEF WriterConsistent, Waiting
<1>4. CASE /\ ~ writer.again
           /\ brightness_writer_reply(writer.current, with)
           /\ writer' = Nil /\ child' = Nil
           /\ UNCHANGED orphans
  BY <1>1, <1>2, <1>3, <1>4
     DEF brightness_writer_reply, TypeOK, WriterConsistent, Waiting
<1>5. CASE /\ writer.again
           /\ brightness_writer_reply(writer.current, with)
           /\ brightness_writer_fork(NextWriter)
  <2>1. /\ writer' \in Writer /\ child' \in Child
        /\ writer'.current = writer.pending /\ writer'.pending = {}
        /\ ~ writer'.again /\ writer'.brightness = asked /\ child'.brightness = asked
    BY <1>1, <1>2, <1>5 DEF brightness_writer_fork, NextWriter, WriterConsistent
  <2>2. TypeOK'
    BY <1>1, <1>2, <1>5, <2>1
       DEF brightness_writer_fork, brightness_writer_reply, TypeOK
  <2>3. \A k \in writer.pending : reply'[k] = "none"
    BY <1>1, <1>3, <1>5 DEF brightness_writer_reply, WriterConsistent
  <2>4. WriterConsistent'
    BY <1>1, <1>2, <1>3, <2>1, <2>3 DEF WriterConsistent, Waiting
  <2> QED BY <1>1, <1>2, <1>3, <1>5, <2>2, <2>4 DEF brightness_writer_reply
<1>6. CASE /\ writer.again
           /\ reply' = [k \in Requests |->
                          IF k \in writer.current THEN with
                          ELSE IF k \in NextWriter.current THEN "error"
                          ELSE reply[k]]
           /\ brightness_writer_fork_failed(writer.brightness)
  <2>1. NextWriter.current = writer.pending
    BY <1>1 DEF NextWriter
  <2>2. \A k \in Requests :
           reply'[k] = IF k \in writer.current THEN with
                       ELSE IF k \in writer.pending THEN "error" ELSE reply[k]
    BY <1>6, <2>1
  <2>3. TypeOK'
    <3>1. reply' \in [Requests -> {"none", "ok", "error"}]
      <4>1. \A k \in Requests : reply'[k] \in {"none", "ok", "error"}
        BY <1>1, <2>2 DEF TypeOK
      <4>2. reply' = [k \in Requests |-> reply'[k]]
        BY <1>6
      <4> QED BY <4>1, <4>2
    <3> QED BY <1>1, <1>2, <1>6, <3>1 DEF brightness_writer_fork_failed, TypeOK
  <2>4. WriterConsistent'
    BY <1>6 DEF brightness_writer_fork_failed, WriterConsistent, Waiting
  <2> QED BY <1>1, <1>2, <1>3, <2>2, <2>3, <2>4
<1> QED BY <1>4, <1>5, <1>6 DEF on_brightness_writer_exit

\* Every reachable state satisfies the invariant.
LEMMA Invariance == Spec => []IInv
<1>1. IInv /\ [Next]_vars => IInv'
  <2> SUFFICES ASSUME IInv, [Next]_vars PROVE IInv'
    OBVIOUS
  <2>1. CASE UNCHANGED vars
    BY <2>1 DEF vars, IInv, TypeOK, WriterConsistent, Waiting
  <2> QED BY <2>1, AppendKeeps, NewKeeps, ChildKeeps, ExitKeeps DEF Next
<1> QED BY <1>1, InitIInv, PTL DEF Spec

\* A writer and its child come and go together, each message waits in one set, and
\* the child's brightness is the newest one unless the writer is to run again,
\* whatever the order of requests, exits and failures of brightness_writer_fork().
THEOREM WriterIsConsistent == Spec => [](TypeOK /\ WriterConsistent)
BY Invariance, PTL DEF IInv

\* on_brightness_writer_exit() never reports success to a caller whose request came
\* after the write had begun.
THEOREM RepliesAreTrue == Spec => ReplyMeansWritten
<1>1. IInv /\ [Next]_vars =>
        [\A k \in Requests :
            reply[k] # "ok" /\ reply'[k] = "ok"
                => child # Nil /\ child.at = "written" /\ child.brightness >= k]_vars
  <2> SUFFICES ASSUME IInv, Next, NEW k \in Requests,
                      reply[k] # "ok", reply'[k] = "ok"
               PROVE  child # Nil /\ child.at = "written" /\ child.brightness >= k
    BY DEF vars
  <2> USE BrightnessAssumption, NotNil DEF IInv
  <2>1. on_brightness_writer_exit
    <3>1. ASSUME NEW e \in BOOLEAN, AppendRequest(e) PROVE FALSE
      BY <3>1 DEF AppendRequest
    <3>2. ASSUME NEW e \in BOOLEAN, NewWriter(e) PROVE FALSE
      BY <3>2 DEF NewWriter, brightness_writer_reply
    <3>3. ASSUME NEW j \in Requests, OrphanWrites(j) PROVE FALSE
      BY <3>3 DEF OrphanWrites
    <3>4. CASE ChildWrites
      BY <3>4 DEF ChildWrites
    <3> QED BY <3>1, <3>2, <3>3, <3>4 DEF Next
  <2>2. writer \in Writer /\ child \in Child
    BY <2>1 DEF on_brightness_writer_exit, TypeOK, WriterConsistent
  <2>3. k \in writer.current /\ child.at = "written"
    BY <2>1, <2>2
       DEF on_brightness_writer_exit, brightness_writer_reply, NextWriter
  <2> QED BY <2>2, <2>3 DEF WriterConsistent
<1> QED BY <1>1, Invariance, PTL DEF Spec, ReplyMeansWritten

\* What NewestWins needs to be inductive.
NInv ==
    /\ child # Nil /\ child.at = "written" => device = child.brightness \/ Stray
    /\ \A k \in Requests :
          k = asked /\ reply[k] = "ok" => writer = Nil /\ (device = k \/ Stray)

\* A step that leaves the device alone does not undo a stray write.
LEMMA StrayKept ==
    ASSUME IInv, Next, device' = device, Stray
    PROVE  Stray'
<1> USE BrightnessAssumption DEF IInv, TypeOK
<1>1. \A k \in Requests : orphans[k] # "none" => orphans'[k] # "none"
  <2>1. ASSUME NEW b \in Requests, brightness_writer_fork_failed(b)
        PROVE  \A k \in Requests : orphans[k] # "none" => orphans'[k] # "none"
    BY <2>1 DEF brightness_writer_fork_failed
  <2>2. ASSUME NEW e \in BOOLEAN, AppendRequest(e) PROVE orphans' = orphans
    BY <2>2 DEF AppendRequest
  <2>3. ASSUME NEW e \in BOOLEAN, NewWriter(e)
        PROVE  orphans' = orphans \/ brightness_writer_fork_failed(asked + 1)
    BY <2>3 DEF NewWriter, brightness_writer_fork
  <2>4. CASE ChildWrites
    BY <2>4 DEF ChildWrites
  <2>5. ASSUME NEW j \in Requests, OrphanWrites(j)
        PROVE  \A k \in Requests : orphans[k] # "none" => orphans'[k] # "none"
    BY <2>5 DEF OrphanWrites
  <2>6. CASE on_brightness_writer_exit
    <3>1. writer \in Writer
      BY <2>6 DEF on_brightness_writer_exit, WriterConsistent
    <3>2. orphans' = orphans \/ brightness_writer_fork_failed(writer.brightness)
      BY <2>6 DEF on_brightness_writer_exit, brightness_writer_fork
    <3> QED BY <3>1, <3>2, <2>1
  <2>7. ASSUME NEW e \in BOOLEAN, NewWriter(e) PROVE asked + 1 \in Requests
    BY <2>7 DEF NewWriter
  <2> QED BY <2>1, <2>2, <2>3, <2>4, <2>5, <2>6, <2>7 DEF Next
<1> QED BY <1>1 DEF Stray

\* The newest request that was answered with success is in effect, unless a child
\* that sd_event_add_child() failed to watch wrote later.
THEOREM NewestInEffect == Spec => []NewestWins
<1>1. Init => NInv
  BY DEF Init, NInv
<1>2. IInv /\ IInv' /\ NInv /\ [Next]_vars => NInv'
  <2> SUFFICES ASSUME IInv, IInv', NInv, [Next]_vars PROVE NInv'
    OBVIOUS
  <2> USE BrightnessAssumption, NotNil DEF IInv
  <2>1. CASE UNCHANGED vars
    BY <2>1 DEF vars, NInv, Stray
  <2>2. ASSUME NEW e \in BOOLEAN, AppendRequest(e) PROVE NInv'
    <3>1. reply'[asked'] # "ok" /\ child' = child /\ device' = device
      BY <2>2 DEF AppendRequest, TypeOK
    <3>2. Stray' = Stray
      BY <2>2 DEF AppendRequest, Stray
    <3> QED BY <3>1, <3>2 DEF NInv
  <2>3. ASSUME NEW e \in BOOLEAN, NewWriter(e) PROVE NInv'
    <3>1. reply'[asked'] # "ok"
      BY <2>3 DEF NewWriter, NInv, TypeOK, brightness_writer_reply
    <3>2. child' # Nil => child'.at = "writing"
      BY <2>3 DEF NewWriter, brightness_writer_fork, brightness_writer_fork_failed
    <3> QED BY <3>1, <3>2 DEF NInv
  <2>4. ASSUME NEW j \in Requests, OrphanWrites(j) PROVE NInv'
    <3>1. device' = j \/ (device' = device /\ (Stray => Stray'))
      BY <2>4, StrayKept DEF OrphanWrites, Next
    <3>2. device' = j => Stray'
      BY <2>4 DEF OrphanWrites, Stray, TypeOK
    <3> QED BY <2>4, <3>1, <3>2 DEF OrphanWrites, NInv
  <2>5. CASE ChildWrites
    <3>1. child \in Child
      BY <2>5 DEF ChildWrites, TypeOK
    <3> QED BY <2>5, <3>1 DEF ChildWrites, NInv, WriterConsistent
  <2>6. CASE on_brightness_writer_exit
    <3>1. writer \in Writer /\ child \in Child /\ asked \in Nat
      BY <2>6 DEF on_brightness_writer_exit, TypeOK, WriterConsistent
    <3>2. child' # Nil => child'.at = "writing"
      BY <2>6 DEF on_brightness_writer_exit, brightness_writer_fork,
                  brightness_writer_fork_failed
    <3>3. ASSUME NEW k \in Requests, k = asked', reply'[k] = "ok"
          PROVE  writer' = Nil /\ (device' = k \/ Stray')
      <4>1. asked' = asked /\ device' = device /\ reply[k] # "ok"
        BY <2>6, <3>1, <3>3 DEF on_brightness_writer_exit, NInv
      <4>2. k \in writer.current /\ child.at = "written"
        BY <2>6, <3>1, <3>3, <4>1
           DEF on_brightness_writer_exit, brightness_writer_reply, NextWriter
      <4>3. child.brightness = asked /\ ~ writer.again
        BY <3>1, <3>3, <4>1, <4>2 DEF WriterConsistent
      <4>4. writer' = Nil
        BY <2>6, <4>3 DEF on_brightness_writer_exit
      <4>5. device = k \/ Stray
        BY <3>1, <3>3, <4>1, <4>2, <4>3 DEF NInv
      <4> QED BY <2>6, <4>1, <4>4, <4>5, StrayKept DEF Next
    <3> QED BY <3>2, <3>3 DEF NInv
  <2> QED BY <2>1, <2>2, <2>3, <2>4, <2>5, <2>6 DEF Next
<1>3. NInv => NewestWins
  BY DEF NInv, NewestWins
<1> QED BY <1>1, <1>2, <1>3, Invariance, PTL DEF Spec

-----------------------------------------------------------------------------
(***************************************************************************)
(* How long a message waits.  That every message is answered is liveness   *)
(* and left to TLC; what it rests on is proved.                            *)
(***************************************************************************)
\* How many steps of the child and of on_brightness_writer_exit() the answer to k is away:
\* two for a message the running write answers, four for one that came after it began.
StepsLeft(k) ==
    IF k \notin Waiting THEN 0
    ELSE (IF k \in writer.current THEN 0 ELSE 2) + (IF child.at = "writing" THEN 2 ELSE 1)

\* The write and its end bring the answer to a message nearer, nothing else moves it, and
\* a message that does not wait any more was answered: requests that override the
\* brightness again and again never hold back those that came before them.
THEOREM TwoWritesAnswer ==
    Spec => [][\A k \in Requests : k \in Waiting =>
                  /\ ChildWrites \/ on_brightness_writer_exit => StepsLeft(k)' < StepsLeft(k)
                  /\ ChildWrites \/ on_brightness_writer_exit \/ StepsLeft(k)' = StepsLeft(k)
                  /\ k \notin Waiting' => reply'[k] # "none"]_vars
<1> DEFINE P(k) == k \in Waiting =>
                  /\ ChildWrites \/ on_brightness_writer_exit => StepsLeft(k)' < StepsLeft(k)
                  /\ ChildWrites \/ on_brightness_writer_exit \/ StepsLeft(k)' = StepsLeft(k)
                  /\ k \notin Waiting' => reply'[k] # "none"
<1>1. IInv /\ IInv' /\ [Next]_vars => [\A k \in Requests : P(k)]_vars
  <2> SUFFICES ASSUME IInv, IInv', Next, NEW k \in Requests, k \in Waiting
               PROVE  /\ ChildWrites \/ on_brightness_writer_exit
                           => StepsLeft(k)' < StepsLeft(k)
                      /\ ChildWrites \/ on_brightness_writer_exit
                           \/ StepsLeft(k)' = StepsLeft(k)
                      /\ k \notin Waiting' => reply'[k] # "none"
    BY DEF vars
  <2> USE BrightnessAssumption, NotNil
  <2>1. writer \in Writer /\ child \in Child /\ writer # Nil
        /\ k \in writer.current \cup writer.pending
        /\ writer.current \cap writer.pending = {}
    BY DEF IInv, TypeOK, WriterConsistent, Waiting
  <2>2. StepsLeft(k) = (IF k \in writer.current THEN 0 ELSE 2)
                          + (IF child.at = "writing" THEN 2 ELSE 1)
    BY DEF StepsLeft
  <2>3. ASSUME NEW e \in BOOLEAN, AppendRequest(e)
        PROVE  StepsLeft(k)' = StepsLeft(k) /\ k \in Waiting'
    <3>3. asked + 1 \in Requests /\ child' = child
      BY <2>3 DEF IInv, TypeOK, AppendRequest
    <3>4. writer' \in Writer /\ writer' # Nil
      BY <2>1, <2>3, <3>3 DEF AppendRequest
    <3>5. writer'.current = writer.current
      BY <2>3 DEF AppendRequest
    <3>6. writer.pending \subseteq writer'.pending
      BY <2>3 DEF AppendRequest
    <3>1. /\ writer' # Nil /\ writer'.current = writer.current
          /\ writer.pending \subseteq writer'.pending /\ child' = child
      BY <3>3, <3>4, <3>5, <3>6
    <3>2. k \in Waiting'
      BY <2>1, <3>1 DEF Waiting
    <3> QED BY <2>2, <3>1, <3>2 DEF StepsLeft
  <2>4. ASSUME NEW e \in BOOLEAN, NewWriter(e) PROVE FALSE
    BY <2>1, <2>4 DEF NewWriter
  <2>5. ASSUME NEW j \in Requests, OrphanWrites(j)
        PROVE  StepsLeft(k)' = StepsLeft(k) /\ k \in Waiting'
    BY <2>5 DEF OrphanWrites, StepsLeft, Waiting
  <2>6. CASE ChildWrites
    <3>1. child.at = "writing" /\ child'.at # "writing" /\ writer' = writer
      BY <2>6 DEF ChildWrites
    <3>2. k \in Waiting' /\ StepsLeft(k)' < StepsLeft(k)
      BY <2>2, <3>1 DEF StepsLeft, Waiting
    <3> QED BY <2>6, <3>2
  <2>7. CASE on_brightness_writer_exit
    <3> DEFINE with == IF child.at = "written" THEN "ok" ELSE "error"
    <3>1. child.at # "writing"
      BY <2>7 DEF on_brightness_writer_exit
    <3>2. CASE ~ writer.again /\ brightness_writer_reply(writer.current, with)
               /\ writer' = Nil
      <4>1. k \in writer.current
        BY <2>1, <3>2 DEF IInv, WriterConsistent
      <4>2. k \notin Waiting' /\ reply'[k] # "none"
        BY <3>2, <4>1 DEF Waiting, brightness_writer_reply
      <4> QED BY <2>2, <2>7, <4>2 DEF StepsLeft
    <3>3. CASE brightness_writer_reply(writer.current, with)
               /\ brightness_writer_fork(NextWriter)
      <4>1. /\ writer' # Nil /\ writer'.current = writer.pending /\ writer'.pending = {}
            /\ child'.at = "writing"
        BY <2>1, <3>3 DEF brightness_writer_fork, NextWriter
      <4>2. CASE k \in writer.current
        <5>1. k \notin Waiting' /\ reply'[k] # "none"
          BY <2>1, <3>3, <4>1, <4>2 DEF Waiting, brightness_writer_reply
        <5> QED BY <2>2, <2>7, <5>1 DEF StepsLeft
      <4>3. CASE k \in writer.pending
        <5>1. k \in Waiting' /\ StepsLeft(k)' = 2
          BY <4>1, <4>3 DEF Waiting, StepsLeft
        <5> QED BY <2>1, <2>2, <2>7, <3>1, <4>3, <5>1
      <4> QED BY <2>1, <4>2, <4>3
    <3>4. CASE /\ reply' = [j \in Requests |->
                              IF j \in writer.current THEN with
                              ELSE IF j \in NextWriter.current THEN "error"
                              ELSE reply[j]]
               /\ brightness_writer_fork_failed(writer.brightness)
      <4>1. writer' = Nil /\ NextWriter.current = writer.pending
        BY <3>4 DEF brightness_writer_fork_failed, NextWriter
      <4>2. k \notin Waiting' /\ reply'[k] # "none"
        BY <2>1, <3>4, <4>1 DEF Waiting
      <4> QED BY <2>2, <2>7, <4>2 DEF StepsLeft
    <3> QED BY <2>7, <3>2, <3>3, <3>4 DEF on_brightness_writer_exit
  <2> QED BY <2>3, <2>4, <2>5, <2>6, <2>7 DEF Next
<1>2. Spec => [][\A k \in Requests : P(k)]_vars
  BY <1>1, Invariance, PTL DEF Spec
<1> QED BY <1>2

=============================================================================
