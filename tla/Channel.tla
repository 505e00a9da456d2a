------------------------------ MODULE Channel ------------------------------
(***************************************************************************)
(* The bounded channel of src/src/dataset_rt/channel.rs: one mutex, one    *)
(* queue, two condition variables ("readable" for receivers, "writable"    *)
(* for senders) and a flag per side that the drop of the side's last       *)
(* handle clears.                                                          *)
(*                                                                         *)
(* Every critical section of the code runs from the moment a thread holds  *)
(* the mutex to the moment it releases it, by returning or by waiting on a *)
(* condition variable; each is one step here.  A thread inside a call that *)
(* competes for the mutex, for the first time or after a wakeup, is "in";  *)
(* one parked on its condition variable is "wait".  Nothing orders the     *)
(* threads that compete, so a thread that was never parked may overtake    *)
(* one that was just notified.                                             *)
(***************************************************************************)
EXTENDS Naturals, Sequences, FiniteSets

CONSTANTS
  Senders,    \* threads that may own a Sender handle
  Receivers,  \* threads that may own a Receiver handle
  Values,     \* the values to transport; each is moved into at most one send
  Capacity,   \* the argument of bounded()
  NoValue     \* what a thread that is not sending carries

ASSUME ChannelAssumption ==
  /\ Capacity \in Nat \ {0}
  /\ IsFiniteSet(Senders)
  /\ IsFiniteSet(Receivers)
  /\ NoValue \notin Values

VARIABLES
  queue,          \* State.queue
  sendersOpen,    \* State.senders_open
  receiversOpen,  \* State.receivers_open
  sender,         \* what each sender thread is doing
  sending,        \* the value a sender thread has moved into its call
  receiver,       \* what each receiver thread is doing
  timed,          \* the receiver's call is recv_timeout, not recv
  expired,        \* the deadline of that call has passed
  unsent,         \* values no call has taken yet
  sent,           \* history: values pushed, in the order of the pushes
  received,       \* history: values popped, in the order of the pops
  discarded       \* history: values the last receiver's drop took

senderVars   == <<sender, sending, unsent>>
receiverVars == <<receiver, timed, expired>>
history      == <<sent, received, discarded>>
vars == <<queue, sendersOpen, receiversOpen, senderVars, receiverVars, history>>

\* "none": owns no handle yet; "out": owns one, in no call; "dropped": gave it up.
ThreadState == {"none", "out", "in", "wait", "dropped"}

In(st)      == {t \in DOMAIN st : st[t] = "in"}
Waiting(st) == {t \in DOMAIN st : st[t] = "wait"}
Owners(st)  == {t \in DOMAIN st : st[t] \in {"out", "in", "wait"}}

-----------------------------------------------------------------------------
(* Condition variables *)

\* Condvar::notify_one: an arbitrary waiter, if there is one, is made runnable.
NotifyOne(st) ==
  IF Waiting(st) = {} THEN {st} ELSE {[st EXCEPT ![t] = "in"] : t \in Waiting(st)}

\* Condvar::notify_all.
NotifyAll(st) == [t \in DOMAIN st |-> IF st[t] = "wait" THEN "in" ELSE st[t]]

\* The predicates of the two wait_while loops.
SendBlocked == receiversOpen /\ Len(queue) = Capacity
RecvBlocked == sendersOpen /\ queue = <<>>

-----------------------------------------------------------------------------
(* Construction and handles *)

\* bounded(): one handle on each side; the other threads get clones later.
Init ==
  /\ queue = <<>>
  /\ sendersOpen = TRUE
  /\ receiversOpen = TRUE
  /\ \E s \in Senders : sender = [t \in Senders |-> IF t = s THEN "out" ELSE "none"]
  /\ \E r \in Receivers : receiver = [t \in Receivers |-> IF t = r THEN "out" ELSE "none"]
  /\ sending = [t \in Senders |-> NoValue]
  /\ timed = [t \in Receivers |-> FALSE]
  /\ expired = [t \in Receivers |-> FALSE]
  /\ unsent = Values
  /\ sent = <<>>
  /\ received = <<>>
  /\ discarded = <<>>

\* Sender::clone: thread s hands a clone to thread t.
CloneSender(s, t) ==
  /\ sender[s] = "out"
  /\ sender[t] = "none"
  /\ sender' = [sender EXCEPT ![t] = "out"]
  /\ UNCHANGED <<queue, sendersOpen, receiversOpen, sending, unsent, receiverVars, history>>

\* Receiver::clone.
CloneReceiver(r, t) ==
  /\ receiver[r] = "out"
  /\ receiver[t] = "none"
  /\ receiver' = [receiver EXCEPT ![t] = "out"]
  /\ UNCHANGED <<queue, sendersOpen, receiversOpen, timed, expired, senderVars, history>>

\* A variant of SenderOwner::drop that wakes a single receiver.
DropSenderNotifyOne(s) ==
  /\ sender[s] = "out"
  /\ sender' = [sender EXCEPT ![s] = "dropped"]
  /\ IF Owners(sender) = {s}
       THEN sendersOpen' = FALSE /\ receiver' \in NotifyOne(receiver)
       ELSE UNCHANGED <<sendersOpen, receiver>>
  /\ UNCHANGED <<queue, receiversOpen, sending, unsent, timed, expired, history>>

\* A sender handle is dropped; SenderOwner::drop runs for the last one.  A
\* thread inside a call borrows its handle, so only a thread in no call drops.
DropSender(s) ==
  /\ sender[s] = "out"
  /\ sender' = [sender EXCEPT ![s] = "dropped"]
  /\ IF Owners(sender) = {s}
       THEN sendersOpen' = FALSE /\ receiver' = NotifyAll(receiver)
       ELSE UNCHANGED <<sendersOpen, receiver>>
  /\ UNCHANGED <<queue, receiversOpen, sending, unsent, timed, expired, history>>

\* A receiver handle is dropped; ReceiverOwner::drop runs for the last one: it
\* takes the queue and wakes every sender before it releases the mutex.
DropReceiver(r) ==
  /\ receiver[r] = "out"
  /\ receiver' = [receiver EXCEPT ![r] = "dropped"]
  /\ IF Owners(receiver) = {r}
       THEN /\ receiversOpen' = FALSE
            /\ queue' = <<>>
            /\ discarded' = queue
            /\ sender' = NotifyAll(sender)
       ELSE UNCHANGED <<receiversOpen, queue, discarded, sender>>
  /\ UNCHANGED <<sendersOpen, sending, unsent, timed, expired, sent, received>>

-----------------------------------------------------------------------------
(* Sender::send *)

CallSend(s, v) ==
  /\ sender[s] = "out"
  /\ v \in unsent
  /\ sender' = [sender EXCEPT ![s] = "in"]
  /\ sending' = [sending EXCEPT ![s] = v]
  /\ unsent' = unsent \ {v}
  /\ UNCHANGED <<queue, sendersOpen, receiversOpen, receiverVars, history>>

SendWait(s) ==
  /\ sender[s] = "in"
  /\ SendBlocked
  /\ sender' = [sender EXCEPT ![s] = "wait"]
  /\ UNCHANGED <<queue, sendersOpen, receiversOpen, sending, unsent, receiverVars, history>>

\* A variant of SendPush that forgets to signal.
SendPushSilently(s) ==
  /\ sender[s] = "in"
  /\ ~SendBlocked
  /\ receiversOpen
  /\ queue' = Append(queue, sending[s])
  /\ sent' = Append(sent, sending[s])
  /\ sender' = [sender EXCEPT ![s] = "out"]
  /\ sending' = [sending EXCEPT ![s] = NoValue]
  /\ UNCHANGED <<sendersOpen, receiversOpen, unsent, receiverVars, received, discarded>>

\* send finds a free slot, pushes and signals one receiver.
SendPush(s) ==
  /\ sender[s] = "in"
  /\ ~SendBlocked
  /\ receiversOpen
  /\ queue' = Append(queue, sending[s])
  /\ sent' = Append(sent, sending[s])
  /\ receiver' \in NotifyOne(receiver)
  /\ sender' = [sender EXCEPT ![s] = "out"]
  /\ sending' = [sending EXCEPT ![s] = NoValue]
  /\ UNCHANGED <<sendersOpen, receiversOpen, unsent, timed, expired, received, discarded>>

\* Every receiver is gone: the value is dropped with the failed call.
SendRefused(s) ==
  /\ sender[s] = "in"
  /\ ~receiversOpen
  /\ sender' = [sender EXCEPT ![s] = "out"]
  /\ sending' = [sending EXCEPT ![s] = NoValue]
  /\ UNCHANGED <<queue, sendersOpen, receiversOpen, unsent, receiverVars, history>>

SendStep(s) == SendWait(s) \/ SendPush(s) \/ SendRefused(s)

-----------------------------------------------------------------------------
(* Receiver::recv and Receiver::recv_timeout *)

CallRecv(r, withTimeout) ==
  /\ receiver[r] = "out"
  /\ receiver' = [receiver EXCEPT ![r] = "in"]
  /\ timed' = [timed EXCEPT ![r] = withTimeout]
  /\ expired' = [expired EXCEPT ![r] = FALSE]
  /\ UNCHANGED <<queue, sendersOpen, receiversOpen, senderVars, history>>

\* The one deadline of a recv_timeout call passes; a parked thread is woken.
Expire(r) ==
  /\ timed[r]
  /\ ~expired[r]
  /\ receiver[r] \in {"in", "wait"}
  /\ expired' = [expired EXCEPT ![r] = TRUE]
  /\ receiver' = [receiver EXCEPT ![r] = "in"]
  /\ UNCHANGED <<queue, sendersOpen, receiversOpen, timed, senderVars, history>>

RecvWait(r) ==
  /\ receiver[r] = "in"
  /\ RecvBlocked
  /\ ~expired[r]
  /\ receiver' = [receiver EXCEPT ![r] = "wait"]
  /\ UNCHANGED <<queue, sendersOpen, receiversOpen, timed, expired, senderVars, history>>

\* A variant of RecvPop that returns the newest value.
RecvPopNewest(r) ==
  /\ receiver[r] = "in"
  /\ queue /= <<>>
  /\ queue' = SubSeq(queue, 1, Len(queue) - 1)
  /\ received' = Append(received, queue[Len(queue)])
  /\ sender' \in NotifyOne(sender)
  /\ receiver' = [receiver EXCEPT ![r] = "out"]
  /\ UNCHANGED <<sendersOpen, receiversOpen, sending, unsent, timed, expired, sent, discarded>>

\* A variant of RecvPop that does not signal.
RecvPopSilently(r) ==
  /\ receiver[r] = "in"
  /\ queue /= <<>>
  /\ queue' = Tail(queue)
  /\ received' = Append(received, Head(queue))
  /\ receiver' = [receiver EXCEPT ![r] = "out"]
  /\ UNCHANGED <<sendersOpen, receiversOpen, sender, sending, unsent, timed, expired, sent, discarded>>

RecvPop(r) ==
  /\ receiver[r] = "in"
  /\ queue /= <<>>
  /\ queue' = Tail(queue)
  /\ received' = Append(received, Head(queue))
  /\ sender' \in NotifyOne(sender)
  /\ receiver' = [receiver EXCEPT ![r] = "out"]
  /\ UNCHANGED <<sendersOpen, receiversOpen, sending, unsent, timed, expired, sent, discarded>>

\* A variant of RecvDisconnected that reports the close before draining.
RecvDisconnectedEagerly(r) ==
  /\ receiver[r] = "in"
  /\ ~sendersOpen
  /\ receiver' = [receiver EXCEPT ![r] = "out"]
  /\ UNCHANGED <<queue, sendersOpen, receiversOpen, timed, expired, senderVars, history>>

\* Every sender is gone and the queue is drained.
RecvDisconnected(r) ==
  /\ receiver[r] = "in"
  /\ queue = <<>>
  /\ ~sendersOpen
  /\ receiver' = [receiver EXCEPT ![r] = "out"]
  /\ UNCHANGED <<queue, sendersOpen, receiversOpen, timed, expired, senderVars, history>>

\* The deadline passed while the queue was empty and a sender remained.
RecvTimeout(r) ==
  /\ receiver[r] = "in"
  /\ RecvBlocked
  /\ expired[r]
  /\ receiver' = [receiver EXCEPT ![r] = "out"]
  /\ UNCHANGED <<queue, sendersOpen, receiversOpen, timed, expired, senderVars, history>>

RecvStep(r) == RecvWait(r) \/ RecvPop(r) \/ RecvDisconnected(r) \/ RecvTimeout(r)

-----------------------------------------------------------------------------
\* A condition variable may wake a thread nobody notified.
SpuriousWakeup ==
  \/ \E s \in Waiting(sender) :
       /\ sender' = [sender EXCEPT ![s] = "in"]
       /\ UNCHANGED <<queue, sendersOpen, receiversOpen, sending, unsent, receiverVars, history>>
  \/ \E r \in Waiting(receiver) :
       /\ receiver' = [receiver EXCEPT ![r] = "in"]
       /\ UNCHANGED <<queue, sendersOpen, receiversOpen, timed, expired, senderVars, history>>

\* Every handle is gone on both sides: the channel is freed.
Freed ==
  /\ Owners(sender) = {}
  /\ Owners(receiver) = {}
  /\ UNCHANGED vars

Next ==
  \/ \E s \in Senders :
       \/ \E t \in Senders : CloneSender(s, t)
       \/ \E v \in Values : CallSend(s, v)
       \/ SendStep(s)
       \/ DropSender(s)
  \/ \E r \in Receivers :
       \/ \E t \in Receivers : CloneReceiver(r, t)
       \/ \E withTimeout \in BOOLEAN : CallRecv(r, withTimeout)
       \/ Expire(r)
       \/ RecvStep(r)
       \/ DropReceiver(r)
  \/ SpuriousWakeup
  \/ Freed

Spec == Init /\ [][Next]_vars

(***************************************************************************)
(* Scheduling.  A thread inside a call eventually gets the mutex (the      *)
(* critical sections are finite); a producer thread eventually calls send  *)
(* or gives its handle up; a consumer thread keeps calling recv, as the    *)
(* worker threads of worker_pool.rs and the wait loop of writer.rs do,     *)
(* unless its owner drops it.  No thread is promised a particular turn, a  *)
(* notification, a timeout or a spurious wakeup.                           *)
(***************************************************************************)
Fairness ==
  /\ \A s \in Senders :
       /\ WF_vars(SendStep(s))
       /\ WF_vars(DropSender(s))
  /\ \A r \in Receivers :
       /\ WF_vars(RecvStep(r))
       /\ WF_vars(\E withTimeout \in BOOLEAN : CallRecv(r, withTimeout))

FairSpec == Spec /\ Fairness

-----------------------------------------------------------------------------
(* Properties *)

\* Every variable has its type, the queue never grows past the capacity that
\* bounded() was given, and each open flag says whether a handle is alive.
TypeOK ==
  /\ queue \in Seq(Values) /\ Len(queue) <= Capacity
  /\ sendersOpen \in BOOLEAN /\ receiversOpen \in BOOLEAN
  /\ sender \in [Senders -> ThreadState]
  /\ receiver \in [Receivers -> ThreadState]
  /\ sending \in [Senders -> Values \cup {NoValue}]
  /\ timed \in [Receivers -> BOOLEAN] /\ expired \in [Receivers -> BOOLEAN]
  /\ unsent \subseteq Values
  /\ sent \in Seq(Values) /\ received \in Seq(Values) /\ discarded \in Seq(Values)
  /\ \A s \in Senders : sending[s] \in Values <=> sender[s] \in {"in", "wait"}
  /\ sendersOpen <=> Owners(sender) /= {}
  /\ receiversOpen <=> Owners(receiver) /= {}

\* No value is lost, duplicated or overtaken between send and recv, with any
\* number of cloned handles: what was pushed is what was popped, followed by
\* what is queued, followed by what the last receiver's drop took.
FifoOrder == sent = received \o queue \o discarded

\* No notification to receivers is lost: while one is parked on "readable"
\* there are at least as many runnable receivers as queued values, so a
\* parked receiver never sleeps next to a value nobody is coming for.
NoLostReadable == Waiting(receiver) /= {} => Len(queue) <= Cardinality(In(receiver))

\* The same for "writable": while a sender is parked every free slot of the
\* queue has a runnable sender coming for it.
NoLostWritable == Waiting(sender) /= {} => Capacity - Len(queue) <= Cardinality(In(sender))

\* Closing a side leaves nobody of the other side parked for good: the drop
\* of the last handle wakes every waiter and no later call parks.
CloseWakesAll ==
  /\ ~sendersOpen => Waiting(receiver) = {}
  /\ ~receiversOpen => Waiting(sender) = {}

\* No wakeup is lost: neither a value nor a free slot nor a closed side leaves
\* a thread asleep that somebody should have come for.
NoLostWakeup == NoLostReadable /\ NoLostWritable /\ CloseWakesAll

\* A receiver is told that the senders are gone only when nothing is left: a
\* step in which a receive call of r ends without a pop (timeout or
\* disconnection) never leaves a value behind.
NoValueAbandoned ==
  [][\A r \in Receivers :
       (receiver[r] = "in" /\ receiver'[r] = "out" /\ received' = received) => queue = <<>>]_vars

\* Every call returns, without relying on a timeout: backpressure on send ends
\* because a value is received or the last receiver goes away, and recv ends
\* because a value arrives or the last sender goes away.
CallsReturn ==
  /\ \A s \in Senders : (sender[s] \in {"in", "wait"}) ~> (sender[s] = "out")
  /\ \A r \in Receivers : (receiver[r] \in {"in", "wait"}) ~> (receiver[r] = "out")

-----------------------------------------------------------------------------
(* The channel implements the bounded FIFO of BoundedFifo. *)

Abstract == INSTANCE BoundedFifo WITH
  buffer <- queue, putOpen <- sendersOpen, getOpen <- receiversOpen, delivered <- received

\* Every step of the channel is a put, a get or a close of the bounded FIFO, or
\* invisible to it: values leave in push order, a closed sender side is drained,
\* and only the last receiver's drop throws queued values away.
ImplementsFifo == Abstract!Spec

\* Under the fairness above it implements the fair FIFO too: a queued value is
\* eventually received unless the last receiver goes away: no lost notification strands a value.
DeliversEventually == Abstract!FairSpec

=============================================================================
