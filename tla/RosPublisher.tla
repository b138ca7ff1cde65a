---------------------------- MODULE RosPublisher ----------------------------
(***************************************************************************)
(* An output port streamed to a ROS topic: the RTT buffer the port writes  *)
(* to, RosPublisherChannelElement, its Waitable, and the spinner threads   *)
(* of the node's executor that drain the buffer into the publisher.        *)
(*                                                                         *)
(* The writing component never publishes a buffered sample itself: it      *)
(* stores the sample, sets has_work_ and triggers a guard condition.  A    *)
(* spinner thread woken by the guard finds has_work_ set, clears it and    *)
(* reads until the buffer is empty.  Writer, spinners and the thread that  *)
(* destroys the channel share only the atomic has_work_, the guard         *)
(* condition, the (thread-safe) buffer and execute_mutex_.                 *)
(*                                                                         *)
(* The executor is rclcpp's, modelled from what the Waitable relies on:    *)
(* one thread at a time waits and collects what is ready; callbacks of one *)
(* callback group exclude each other; a guard condition that ends a wait   *)
(* is consumed by it.                                                      *)
(***************************************************************************)
EXTENDS Naturals, Sequences

CONSTANTS
    Spinners,   \* threads of the node's executor (spinner_threads)
    Size,       \* ConnPolicy::size of buffered connections
    MaxWrites   \* bound on the samples the component writes

ASSUME SizeAssumption   == Size \in Nat \ {0}
ASSUME WritesAssumption == MaxWrites \in Nat

VARIABLES
    policy,     \* ConnPolicy::type of the connection
    loans,      \* the middleware lends messages: can_loan_messages()
    written,    \* samples written so far; they are numbered
    accepted,   \* samples whose write() did not fail
    buffer,     \* unread samples of the buffer element
    has_work,   \* Waitable::has_work_
    guard,      \* the guard condition of the Waitable is triggered
    func,       \* Waitable::func_ is not empty
    writer,     \* place of the writing component in write()
    exec,       \* place of each spinner thread
    ready,      \* ready handlers the executor still has to hand out
    collected,  \* the current wait includes the callback group
    interrupt,  \* the executor's interrupt guard condition is triggered
    inflight,   \* the sample that is read and not yet published
    published,  \* samples handed to the ROS publisher
    channel     \* life of the RosPublisherChannelElement

vars == <<policy, loans, written, accepted, buffer, has_work, guard, func,
          writer, exec, ready, collected, interrupt, inflight, published,
          channel>>

executorVars == <<ready, collected, interrupt>>

-----------------------------------------------------------------------------
Samples  == 1 .. MaxWrites
Policies == {"DATA", "BUFFER", "CIRCULAR_BUFFER", "UNBUFFERED"}
Handlers == {"waitable", "other"}

\* Places inside Waitable::execute() with execute_mutex_ held; those inside
\* func_(), the publish() of the channel element; and those, with the
\* callback of another entity, in which a thread occupies the callback group.
LockedPlaces == {"read", "publish", "has_work", "guard"}
FuncPlaces   == {"read", "publish"}
GroupPlaces  == {"execute", "other"} \cup LockedPlaces

Locked    == \E e \in Spinners : exec[e] \in LockedPlaces
GroupBusy == \E e \in Spinners : exec[e] \in GroupPlaces
Waiting   == \E e \in Spinners : exec[e] = "waiting"

\* A DATA connection keeps the newest unread sample.
Capacity == IF policy = "DATA" THEN 1 ELSE Size

\* Mutant of Full: one sample too many.
FullOffByOne == Len(buffer) = Capacity + 1

\* Push() finds no room.
Full == Len(buffer) = Capacity

TypeOK ==
    /\ policy \in Policies
    /\ loans \in BOOLEAN
    /\ written \in 0 .. MaxWrites
    /\ accepted \in Seq(Samples)
    /\ buffer \in Seq(Samples)
    /\ Len(buffer) =< Capacity
    /\ has_work \in BOOLEAN
    /\ guard \in BOOLEAN
    /\ func \in BOOLEAN
    /\ writer \in {"idle", "signal", "trigger"}
    /\ exec \in [Spinners -> {"idle", "waiting"} \cup GroupPlaces]
    /\ ready \in SUBSET Handlers
    /\ collected \in BOOLEAN
    /\ interrupt \in BOOLEAN
    /\ inflight \in Seq(Samples)
    /\ published \in Seq(Samples)
    /\ channel \in {"alive", "removed", "destroyed"}

\* createStream() made the chain and the constructor added the Waitable.
Init ==
    /\ policy \in Policies
    /\ loans \in BOOLEAN
    /\ written = 0
    /\ accepted = <<>>
    /\ buffer = <<>>
    /\ has_work = FALSE
    /\ guard = FALSE
    /\ func = TRUE
    /\ writer = "idle"
    /\ exec = [e \in Spinners |-> "idle"]
    /\ ready = {}
    /\ collected = FALSE
    /\ interrupt = FALSE
    /\ inflight = <<>>
    /\ published = <<>>
    /\ channel = "alive"

-----------------------------------------------------------------------------
(* The thread of the writing component.                                    *)

\* A write to an unbuffered connection publishes in the writer's thread.
WriteUnbuffered ==
    /\ policy = "UNBUFFERED"
    /\ writer = "idle"
    /\ channel = "alive"
    /\ written < MaxWrites
    /\ written' = written + 1
    /\ accepted' = Append(accepted, written')
    /\ published' = Append(published, written')
    /\ UNCHANGED <<policy, loans, buffer, has_work, guard, func, writer, exec,
                   executorVars, inflight, channel>>

\* A write to the buffer element: a full BUFFER refuses the sample and does
\* not signal, the other types make room by dropping the oldest one.
Write ==
    /\ policy # "UNBUFFERED"
    /\ writer = "idle"
    /\ channel = "alive"
    /\ written < MaxWrites
    /\ written' = written + 1
    /\ \/ /\ ~Full
          /\ buffer' = Append(buffer, written')
          /\ accepted' = Append(accepted, written')
          /\ writer' = "signal"
       \/ /\ Full
          /\ policy # "BUFFER"
          /\ buffer' = Append(Tail(buffer), written')
          /\ accepted' = Append(accepted, written')
          /\ writer' = "signal"
       \/ /\ Full
          /\ policy = "BUFFER"
          /\ UNCHANGED <<buffer, accepted, writer>>
    /\ UNCHANGED <<policy, loans, has_work, guard, func, exec, executorVars,
                   inflight, published, channel>>

\* Mutant of Signal: the guard condition is not triggered.
SignalWithoutGuard ==
    /\ writer = "signal"
    /\ has_work' = TRUE
    /\ writer' = "idle"
    /\ UNCHANGED <<policy, loans, written, accepted, buffer, guard, func, exec,
                   executorVars, inflight, published, channel>>

\* signal() -> Waitable::trigger(): first the flag ...
Signal ==
    /\ writer = "signal"
    /\ has_work' = TRUE
    /\ writer' = "trigger"
    /\ UNCHANGED <<policy, loans, written, accepted, buffer, guard, func, exec,
                   executorVars, inflight, published, channel>>

\* ... then the guard condition.
Trigger ==
    /\ writer = "trigger"
    /\ guard' = TRUE
    /\ writer' = "idle"
    /\ UNCHANGED <<policy, loans, written, accepted, buffer, has_work, func,
                   exec, executorVars, inflight, published, channel>>

-----------------------------------------------------------------------------
(* ~RosPublisherChannelElement(), in the thread that drops the connection. *)
(* RTT does not disconnect a channel in the middle of a write() to it.     *)

\* remove_waitable() also wakes the executor.
Remove ==
    /\ channel = "alive"
    /\ writer = "idle"
    /\ channel' = "removed"
    /\ interrupt' = TRUE
    /\ UNCHANGED <<policy, loans, written, accepted, buffer, has_work, guard,
                   func, writer, exec, ready, collected, inflight, published>>

\* Mutant of Cancel: func_ is emptied without execute_mutex_.
CancelUnlocked ==
    /\ channel = "removed"
    /\ func' = FALSE
    /\ channel' = "destroyed"
    /\ UNCHANGED <<policy, loans, written, accepted, buffer, has_work, guard,
                   writer, exec, executorVars, inflight, published>>

\* Waitable::cancel() waits for execute_mutex_ and empties func_.
Cancel ==
    /\ channel = "removed"
    /\ ~Locked
    /\ func' = FALSE
    /\ channel' = "destroyed"
    /\ UNCHANGED <<policy, loans, written, accepted, buffer, has_work, guard,
                   writer, exec, executorVars, inflight, published>>

-----------------------------------------------------------------------------
(* The executor: waiting for work and handing it out.                      *)

Goto(e, place) == exec' = [exec EXCEPT ![e] = place]

\* A thread takes a handler that the last wait found ready.
Take(e, h) ==
    /\ exec[e] = "idle"
    /\ ~Waiting
    /\ ~GroupBusy
    /\ h \in ready
    /\ ready' = ready \ {h}
    /\ Goto(e, IF h = "waitable" THEN "execute" ELSE "other")
    /\ UNCHANGED <<policy, loans, written, accepted, buffer, has_work, guard,
                   func, writer, collected, interrupt, inflight, published,
                   channel>>

\* With nothing to take, a thread collects the entities of the groups nobody
\* is in, add_to_wait_set() included, and waits for them.
Wait(e) ==
    /\ exec[e] = "idle"
    /\ ~Waiting
    /\ GroupBusy \/ ready = {}
    /\ Goto(e, "waiting")
    /\ ready' = {}
    /\ collected' = ~GroupBusy
    /\ UNCHANGED <<policy, loans, written, accepted, buffer, has_work, guard,
                   func, writer, interrupt, inflight, published, channel>>

\* The wait ends; is_ready() of every collected waitable is asked.
EndWait(e, other) ==
    /\ exec[e] = "waiting"
    /\ Goto(e, "idle")
    /\ ready' = {h \in Handlers :
                   /\ collected
                   /\ h = "waitable" => channel = "alive" /\ has_work
                   /\ h = "other" => other}
    /\ guard' = (guard /\ ~collected)
    /\ interrupt' = FALSE
    /\ UNCHANGED <<policy, loans, written, accepted, buffer, has_work, func,
                   writer, collected, inflight, published, channel>>

\* The wait is ended by the Waitable's guard or by the interrupt guard ...
Wake(e) ==
    /\ (guard /\ collected) \/ interrupt
    /\ EndWait(e, FALSE)

\* ... or by another entity of the node.
WakeByOther(e) ==
    EndWait(e, TRUE)

\* The callback of another entity in the group returns.
OtherReturns(e) ==
    /\ exec[e] = "other"
    /\ Goto(e, "idle")
    /\ interrupt' = TRUE
    /\ UNCHANGED <<policy, loans, written, accepted, buffer, has_work, guard,
                   func, writer, ready, collected, inflight, published, channel>>

-----------------------------------------------------------------------------
(* Waitable::execute() and the publish() it calls.                         *)

\* execute() returns; rclcpp frees the group and interrupts the wait.
Finish(e) ==
    /\ Goto(e, "idle")
    /\ interrupt' = TRUE

\* execute_mutex_ is taken; has_work_ is cleared before the buffer is read.
Execute(e) ==
    /\ exec[e] = "execute"
    /\ ~Locked
    /\ \/ /\ func
          /\ has_work' = FALSE
          /\ Goto(e, "read")
          /\ UNCHANGED interrupt
       \/ /\ ~func
          /\ Finish(e)
          /\ UNCHANGED has_work
    /\ UNCHANGED <<policy, loans, written, accepted, buffer, guard, func,
                   writer, ready, collected, inflight, published, channel>>

\* Mutant of Read: the newest sample is read first.
ReadNewest(e) ==
    /\ exec[e] = "read"
    /\ buffer # <<>>
    /\ inflight' = <<buffer[Len(buffer)]>>
    /\ buffer' = SubSeq(buffer, 1, Len(buffer) - 1)
    /\ Goto(e, "publish")
    /\ UNCHANGED <<policy, loans, written, accepted, has_work, guard, func,
                   writer, executorVars, published, channel>>

\* One turn of publish_impl() or publish_impl_loaned_message(): a new sample
\* is read (into a loaned message where there are any).
Read(e) ==
    /\ exec[e] = "read"
    /\ buffer # <<>>
    /\ inflight' = <<Head(buffer)>>
    /\ buffer' = Tail(buffer)
    /\ Goto(e, "publish")
    /\ UNCHANGED <<policy, loans, written, accepted, has_work, guard, func,
                   writer, executorVars, published, channel>>

\* publish(std::move(message)).
Publish(e) ==
    /\ exec[e] = "publish"
    /\ published' = published \o inflight
    /\ inflight' = <<>>
    /\ Goto(e, "read")
    /\ UNCHANGED <<policy, loans, written, accepted, buffer, has_work, guard,
                   func, writer, executorVars, channel>>

\* Mutant of NoMoreWork: publish() polls for the next sample.
NoMoreWorkPolls(e) ==
    /\ exec[e] = "read"
    /\ buffer = <<>>
    /\ UNCHANGED vars

\* Nothing new to read: func_() returns true.
NoMoreWork(e) ==
    /\ exec[e] = "read"
    /\ buffer = <<>>
    /\ Finish(e)
    /\ UNCHANGED <<policy, loans, written, accepted, buffer, has_work, guard,
                   func, writer, ready, collected, inflight, published, channel>>

\* Mutant of NoLoan: the result of func_() is ignored.
NoLoanIgnored(e) ==
    /\ exec[e] = "read"
    /\ loans
    /\ Finish(e)
    /\ UNCHANGED <<policy, loans, written, accepted, buffer, has_work, guard,
                   func, writer, ready, collected, inflight, published, channel>>

\* Mutant of NoLoan: the sample is read before the message is borrowed.
NoLoanAfterRead(e) ==
    /\ exec[e] = "read"
    /\ loans
    /\ buffer # <<>>
    /\ buffer' = Tail(buffer)
    /\ Goto(e, "has_work")
    /\ UNCHANGED <<policy, loans, written, accepted, has_work, guard, func,
                   writer, executorVars, inflight, published, channel>>

\* No message could be borrowed: func_() returns false.
NoLoan(e) ==
    /\ exec[e] = "read"
    /\ loans
    /\ Goto(e, "has_work")
    /\ UNCHANGED <<policy, loans, written, accepted, buffer, has_work, guard,
                   func, writer, executorVars, inflight, published, channel>>

\* execute() calls trigger(), still under execute_mutex_: the flag ...
Retrigger(e) ==
    /\ exec[e] = "has_work"
    /\ has_work' = TRUE
    /\ Goto(e, "guard")
    /\ UNCHANGED <<policy, loans, written, accepted, buffer, guard, func,
                   writer, executorVars, inflight, published, channel>>

\* ... and the guard condition.
RetriggerGuard(e) ==
    /\ exec[e] = "guard"
    /\ guard' = TRUE
    /\ Finish(e)
    /\ UNCHANGED <<policy, loans, written, accepted, buffer, has_work, func,
                   writer, ready, collected, inflight, published, channel>>

-----------------------------------------------------------------------------
Writer == WriteUnbuffered \/ Write \/ Signal \/ Trigger

Destructor == Remove \/ Cancel

\* What a spinner thread does without waiting for anybody outside.
Spin(e) ==
    \/ \E h \in Handlers : Take(e, h)
    \/ Wait(e)
    \/ Wake(e)
    \/ OtherReturns(e)
    \/ Execute(e)
    \/ Read(e)
    \/ Publish(e)
    \/ NoMoreWork(e)
    \/ NoLoan(e)
    \/ Retrigger(e)
    \/ RetriggerGuard(e)

Next ==
    \/ Writer
    \/ Destructor
    \/ \E e \in Spinners : Spin(e) \/ WakeByOther(e)

Spec == Init /\ [][Next]_vars

\* The writer leaves signal(), spinner threads keep running, a destructor
\* that started goes on, and the middleware does not refuse to lend messages
\* for ever.  No other entity of the node needs ever to become ready.
Fairness ==
    /\ WF_vars(Signal \/ Trigger)
    /\ WF_vars(Cancel)
    /\ \A e \in Spinners : WF_vars(Spin(e)) /\ SF_vars(Read(e))

FairSpec == Spec /\ Fairness

-----------------------------------------------------------------------------
(* Properties.                                                             *)

\* The way of the samples that are not lost: published, read, still buffered.
Flow == (published \o inflight) \o buffer

Increasing(s) == \A i, j \in 1 .. Len(s) : i < j => s[i] < s[j]

\* A sample in the buffer is never forgotten: as long as the channel exists,
\* the flag is set, or the writer is about to set it, or a spinner thread is
\* in execute() and will read the buffer again or set the flag itself.
NoForgottenSample ==
    channel = "alive" /\ buffer # <<>> =>
        \/ has_work
        \/ writer = "signal"
        \/ \E e \in Spinners : exec[e] \in {"read", "publish", "has_work"}

\* Samples are published in the order they were written, none of them twice,
\* whatever the writer, several spinner threads and failing loans do.
InOrder == Increasing(Flow)

\* BUFFER and UNBUFFERED connections lose no sample that write() accepted;
\* the others never lose the newest.
AcceptedIsKept ==
    /\ policy \in {"BUFFER", "UNBUFFERED"} => Flow = accepted
    /\ accepted # <<>> =>
          Flow # <<>> /\ Flow[Len(Flow)] = accepted[Len(accepted)]

\* waitable.hpp:85: "func_() must not be called anymore after cancel()
\* returned" -- nor may a call still be running then, as func_ is bound to
\* the channel element that is being destroyed.
NoFuncAfterCancel ==
    channel = "destroyed" => \A e \in Spinners : exec[e] \notin FuncPlaces

\* Every buffered sample is published, unless a newer one took its place or
\* the connection is removed.
EventuallyPublished ==
    \A s \in Samples :
        (\E i \in DOMAIN buffer : buffer[i] = s) ~>
            \/ \E i \in DOMAIN published : published[i] = s
            \/ \A i \in DOMAIN Flow : Flow[i] # s
            \/ channel # "alive"

\* The destructor does not wait for ever for execute_mutex_, not even when
\* the middleware has no message to lend.
DestructorReturns == channel = "removed" ~> channel = "destroyed"

-----------------------------------------------------------------------------
(* The strengthening that makes the safety properties inductive.           *)

\* Callbacks of the group exclude each other, so one thread at most reads.
OneInGroup ==
    \A e, f \in Spinners :
        exec[e] \in GroupPlaces /\ exec[f] \in GroupPlaces => e = f

\* func_ is emptied by cancel() only, when nobody is inside execute(), and
\* with an empty func_ nobody gets further than its test.
FuncUntilCancel ==
    /\ channel # "destroyed" => func
    /\ channel = "destroyed" =>
          ~func /\ \A e \in Spinners : exec[e] \notin LockedPlaces

\* A sample is in flight only while a thread is about to publish it.
InflightIsRead ==
    inflight # <<>> => \E e \in Spinners : exec[e] = "publish"

\* An unbuffered connection has nothing to drain.
UnbufferedIsEmpty ==
    policy = "UNBUFFERED" =>
        buffer = <<>> /\ inflight = <<>> /\ writer = "idle"

\* Samples are numbered in the order they are written.
FlowBelow == \A i \in 1 .. Len(Flow) : Flow[i] =< written

IInv ==
    /\ TypeOK
    /\ OneInGroup
    /\ FuncUntilCancel
    /\ InflightIsRead
    /\ UnbufferedIsEmpty
    /\ FlowBelow
    /\ NoForgottenSample
    /\ NoFuncAfterCancel
    /\ InOrder
    /\ AcceptedIsKept

=============================================================================
