----------------------------- MODULE Brightness -----------------------------
(***************************************************************************)
(* Setting the brightness of a device (logind-brightness.c).  Writing to   *)
(* the device is slow, so a forked child does it, and what is asked for    *)
(* meanwhile is coalesced into one more write.  Writers of different       *)
(* devices share nothing; this is one device.                              *)
(*                                                                         *)
(* Requests are numbered as they come.  A number stands both for the bus   *)
(* message that is to be answered and for the brightness it asks for.      *)
(***************************************************************************)
EXTENDS Naturals

CONSTANTS
    MaxRequests,   \* bound: how many requests there are
    Nil            \* no writer, no child

ASSUME BrightnessAssumption ==
    /\ MaxRequests \in Nat
    /\ Nil \notin [brightness : 1 .. MaxRequests, again : BOOLEAN,
                   current : SUBSET (1 .. MaxRequests),
                   pending : SUBSET (1 .. MaxRequests)]
    /\ Nil \notin [brightness : 1 .. MaxRequests, at : {"writing", "written", "failed"}]

Requests == 1 .. MaxRequests

VARIABLES
    asked,     \* how many requests there were
    writer,    \* the BrightnessWriter: its brightness, again, and message sets
    child,     \* the child it watches
    orphans,   \* by request: whether a child nobody watches is, or was, to write it
    device,    \* the request whose brightness the device has, 0 at first
    reply      \* by request: "none", "ok" or "error"

vars == <<asked, writer, child, orphans, device, reply>>

-----------------------------------------------------------------------------
\* The requests of S are answered.
brightness_writer_reply(S, with) ==
    reply' = [k \in Requests |-> IF k \in S THEN with ELSE reply[k]]

\* brightness_writer_fork() succeeds; the child has its own copy of brightness.
brightness_writer_fork(w) ==
    /\ writer' = w
    /\ child' = [brightness |-> w.brightness, at |-> "writing"]
    /\ UNCHANGED orphans

\* It fails, or the child is forked but cannot be watched; the caller frees the
\* writer.
brightness_writer_fork_failed(brightness) ==
    /\ writer' = Nil /\ child' = Nil
    /\ \/ UNCHANGED orphans
       \/ orphans' = [orphans EXCEPT ![brightness] = "writing"]

\* Mutant: the message joins those the running write will answer.
AppendRequest_current(expect_reply) ==
    /\ asked < MaxRequests /\ asked' = asked + 1
    /\ writer # Nil
    /\ writer' = [writer EXCEPT !.brightness = asked + 1, !.again = TRUE,
                    !.current = IF expect_reply THEN @ \cup {asked + 1} ELSE @]
    /\ UNCHANGED <<child, orphans, device, reply>>

\* manager_write_brightness() while there is a writer.  The message is put into
\* pending_messages, if a reply to it is expected.
AppendRequest(expect_reply) ==
    /\ asked < MaxRequests /\ asked' = asked + 1
    /\ writer # Nil
    /\ writer' = [brightness |-> asked + 1, again |-> TRUE, current |-> writer.current,
                  pending |-> IF expect_reply THEN writer.pending \cup {asked + 1}
                              ELSE writer.pending]
    /\ UNCHANGED <<child, orphans, device, reply>>

\* manager_write_brightness() for a device without a writer
NewWriter(expect_reply) ==
    /\ asked < MaxRequests /\ asked' = asked + 1
    /\ writer = Nil
    /\ \/ /\ brightness_writer_fork(
               [brightness |-> asked + 1, again |-> FALSE, pending |-> {},
                current |-> IF expect_reply THEN {asked + 1} ELSE {}])
          /\ UNCHANGED reply
       \/ /\ brightness_writer_fork_failed(asked + 1)
          /\ brightness_writer_reply(IF expect_reply THEN {asked + 1} ELSE {}, "error")
    /\ UNCHANGED device

\* The child writes to the device, or fails to; then it exits.
ChildWrites ==
    /\ child # Nil /\ child.at = "writing"
    /\ \E at \in {"written", "failed"} :
          /\ child' = [brightness |-> child.brightness, at |-> at]
          /\ device' = IF at = "written" THEN child.brightness ELSE device
    /\ UNCHANGED <<asked, writer, orphans, reply>>

\* Nothing stops a child that is not watched: it writes when it gets to it.
OrphanWrites(k) ==
    /\ orphans[k] = "writing"
    /\ orphans' = [orphans EXCEPT ![k] = "gone"]
    /\ \/ device' = k
       \/ UNCHANGED device
    /\ UNCHANGED <<asked, writer, child, reply>>

\* Mutant: the pending messages are dropped.
NextWriter_lost == [writer EXCEPT !.again = FALSE, !.current = {}, !.pending = {}]

\* The writer when it is run again: the pending messages are the current ones.
NextWriter == [brightness |-> writer.brightness, again |-> FALSE,
               current |-> writer.pending, pending |-> {}]

\* Mutant: "again" is not looked at.
on_brightness_writer_exit_once ==
    /\ child # Nil /\ child.at # "writing"
    /\ brightness_writer_reply(writer.current \cup writer.pending,
                               IF child.at = "written" THEN "ok" ELSE "error")
    /\ writer' = Nil /\ child' = Nil
    /\ UNCHANGED <<asked, device, orphans>>

\* on_brightness_writer_exit()
on_brightness_writer_exit ==
    /\ child # Nil /\ child.at # "writing"
    /\ LET with == IF child.at = "written" THEN "ok" ELSE "error"
       IN \/ /\ ~ writer.again
             /\ brightness_writer_reply(writer.current, with)
             /\ writer' = Nil /\ child' = Nil
             /\ UNCHANGED orphans
          \/ /\ writer.again
             /\ brightness_writer_reply(writer.current, with)
             /\ brightness_writer_fork(NextWriter)
          \/ /\ writer.again
             /\ reply' = [k \in Requests |->
                            IF k \in writer.current THEN with
                            ELSE IF k \in NextWriter.current THEN "error"
                            ELSE reply[k]]
             /\ brightness_writer_fork_failed(writer.brightness)
    /\ UNCHANGED <<asked, device>>

-----------------------------------------------------------------------------
Init ==
    /\ asked = 0
    /\ writer = Nil /\ child = Nil
    /\ orphans = [k \in Requests |-> "none"]
    /\ device = 0
    /\ reply = [k \in Requests |-> "none"]

Next ==
    \/ \E expect_reply \in BOOLEAN : AppendRequest(expect_reply) \/ NewWriter(expect_reply)
    \/ ChildWrites
    \/ \E k \in Requests : OrphanWrites(k)
    \/ on_brightness_writer_exit

Spec == Init /\ [][Next]_vars

\* The kernel lets the write come to an end, and the event loop goes on.
FairSpec == Spec /\ WF_vars(ChildWrites) /\ WF_vars(on_brightness_writer_exit)

-----------------------------------------------------------------------------
Writer == [brightness : Requests, again : BOOLEAN,
           current : SUBSET Requests, pending : SUBSET Requests]
Child  == [brightness : Requests, at : {"writing", "written", "failed"}]

\* Every variable has its type.
TypeOK ==
    /\ asked \in 0 .. MaxRequests
    /\ writer \in Writer \cup {Nil}
    /\ child \in Child \cup {Nil}
    /\ orphans \in [Requests -> {"none", "writing", "gone"}]
    /\ device \in 0 .. MaxRequests
    /\ reply \in [Requests -> {"none", "ok", "error"}]

\* The messages a writer is to answer.
Waiting == IF writer = Nil THEN {} ELSE writer.current \cup writer.pending

\* A writer exists as long as its child does; it waits for messages nobody answered,
\* and a message waits in one of its two sets.  The child writes what the writer was
\* asked for last, unless it is to run again.
WriterConsistent ==
    /\ writer = Nil <=> child = Nil
    /\ \A k \in Waiting : k <= asked /\ reply[k] = "none"
    /\ writer # Nil =>
          /\ writer.brightness = asked /\ child.brightness <= asked
          /\ writer.again <=> child.brightness # asked
          /\ writer.current \cap writer.pending = {}
          /\ \A k \in writer.current : k <= child.brightness
          /\ ~ writer.again => writer.pending = {}

\* "The bus messages are answered when the first write operation finishes that
\* started either due to the request or due to a later request that overrode the
\* requested one": success is never reported for a write that began before.
ReplyMeansWritten ==
    [][\A k \in Requests :
          reply[k] # "ok" /\ reply'[k] = "ok"
              => child # Nil /\ child.at = "written" /\ child.brightness >= k]_vars

\* The brightness in effect was written by a child that was not watched.
Stray == device \in Requests /\ orphans[device] # "none"

\* "the newest requested brightness is the one we'll put into effect": when the
\* newest request was answered with success, the device has its brightness.  The
\* one exception is a child brightness_writer_fork() lost after the fork, whose
\* write may come last.
NewestWins ==
    \A k \in Requests : k = asked /\ reply[k] = "ok" => device = k \/ Stray

\* Every message is answered, however many requests follow it.
AllAnswered == \A k \in Requests : k \in Waiting ~> reply[k] # "none"

=============================================================================
