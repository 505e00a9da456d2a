--------------------------- MODULE ChannelProofs ---------------------------
(***************************************************************************)
(* Proofs about the bounded channel for any number of threads and values   *)
(* and any capacity.                                                       *)
(***************************************************************************)
EXTENDS Channel, SequenceTheorems, FiniteSetTheorems, TLAPS

-----------------------------------------------------------------------------
(* Threads of one side.  st is the state function of the side T. *)

\* The threads of a side are finitely many, so each of the sets is counted.
LEMMA SidesFinite ==
  ASSUME NEW T, IsFiniteSet(T), NEW st \in [T -> ThreadState]
  PROVE  /\ IsFiniteSet(In(st)) /\ Cardinality(In(st)) \in Nat
         /\ In(st) \subseteq T /\ Waiting(st) \subseteq T
         /\ In(st) \cap Waiting(st) = {}
  <1>1. In(st) \subseteq T /\ Waiting(st) \subseteq T /\ In(st) \cap Waiting(st) = {}
    BY DEF In, Waiting
  <1>2. IsFiniteSet(In(st))
    BY <1>1, FS_Subset
  <1> QED
    BY <1>1, <1>2, FS_CardinalityType

\* A thread that becomes runnable adds one to the count of runnable threads.
LEMMA OneMoreIn ==
  ASSUME NEW T, IsFiniteSet(T), NEW st \in [T -> ThreadState], NEW t \in T, st[t] /= "in",
         NEW u, u = [st EXCEPT ![t] = "in"]
  PROVE  Cardinality(In(u)) = Cardinality(In(st)) + 1
  <1>1. In(u) = In(st) \cup {t}
    BY DEF In
  <1>2. t \notin In(st)
    BY DEF In
  <1> QED
    BY <1>1, <1>2, SidesFinite, FS_AddElement

\* A runnable thread that returns or parks takes one away.
LEMMA OneLessIn ==
  ASSUME NEW T, IsFiniteSet(T), NEW st \in [T -> ThreadState], NEW t \in T, st[t] = "in",
         NEW x \in ThreadState, x /= "in",
         NEW u, u = [st EXCEPT ![t] = x]
  PROVE  Cardinality(In(u)) = Cardinality(In(st)) - 1
  <1>1. In(u) = In(st) \ {t}
    BY DEF In
  <1>2. t \in In(st)
    BY DEF In
  <1>3. IsFiniteSet(In(st)) /\ Cardinality(In(st)) \in Nat
    BY SidesFinite
  <1> QED
    BY <1>1, <1>2, <1>3, FS_RemoveElement

\* notify_one keeps the owners, and while somebody stays parked it has made
\* one more thread runnable.
LEMMA NotifyOneEffect ==
  ASSUME NEW T, IsFiniteSet(T), NEW st \in [T -> ThreadState], NEW u \in NotifyOne(st)
  PROVE  /\ u \in [T -> ThreadState]
         /\ Owners(u) = Owners(st)
         /\ Waiting(u) \subseteq Waiting(st)
         /\ Waiting(u) /= {} => Cardinality(In(u)) = Cardinality(In(st)) + 1
         /\ \A t \in T : u[t] \in {"in", "wait"} <=> st[t] \in {"in", "wait"}
  <1>1. CASE Waiting(st) = {}
    <2>1. u = st
      BY <1>1 DEF NotifyOne
    <2> QED
      BY <1>1, <2>1
  <1>2. CASE Waiting(st) /= {}
    <2>1. PICK t \in Waiting(st) : u = [st EXCEPT ![t] = "in"]
      BY <1>2 DEF NotifyOne
    <2>2. t \in T /\ st[t] = "wait"
      BY DEF Waiting
    <2>3. /\ u \in [T -> ThreadState]
          /\ Waiting(u) = Waiting(st) \ {t}
          /\ Owners(u) = Owners(st) \cup {t}
      BY <2>1, <2>2 DEF Waiting, Owners, ThreadState
    <2>4. Owners(u) = Owners(st)
      BY <2>2, <2>3 DEF Owners
    <2>5. Cardinality(In(u)) = Cardinality(In(st)) + 1
      BY <2>1, <2>2, OneMoreIn
    <2>6. \A x \in T : u[x] \in {"in", "wait"} <=> st[x] \in {"in", "wait"}
      BY <2>1, <2>2
    <2> QED
      BY <2>3, <2>4, <2>5, <2>6
  <1> QED
    BY <1>1, <1>2

\* notify_all leaves nobody parked and keeps the owners.
LEMMA NotifyAllEffect ==
  ASSUME NEW T, NEW st \in [T -> ThreadState]
  PROVE  /\ NotifyAll(st) \in [T -> ThreadState]
         /\ Owners(NotifyAll(st)) = Owners(st)
         /\ Waiting(NotifyAll(st)) = {}
         /\ \A t \in T : NotifyAll(st)[t] \in {"in", "wait"} <=> st[t] \in {"in", "wait"}
  BY DEF NotifyAll, Owners, Waiting, ThreadState

-----------------------------------------------------------------------------
(* Type correctness *)

\* The initial state is well typed: bounded() makes one handle on each side.
LEMMA TypeInit == Init => TypeOK
  <1> SUFFICES ASSUME Init PROVE TypeOK
    OBVIOUS
  <1>1. PICK s \in Senders : sender = [t \in Senders |-> IF t = s THEN "out" ELSE "none"]
    BY DEF Init
  <1>2. PICK r \in Receivers : receiver = [t \in Receivers |-> IF t = r THEN "out" ELSE "none"]
    BY DEF Init
  <1>3. s \in Owners(sender) /\ r \in Owners(receiver)
    BY <1>1, <1>2 DEF Owners
  <1>4. sender \in [Senders -> ThreadState] /\ receiver \in [Receivers -> ThreadState]
    BY <1>1, <1>2 DEF ThreadState
  <1>5. \A t \in Senders : sending[t] \in Values <=> sender[t] \in {"in", "wait"}
    BY <1>1, ChannelAssumption DEF Init
  <1>6. /\ queue \in Seq(Values) /\ Len(queue) <= Capacity
        /\ sent \in Seq(Values) /\ received \in Seq(Values) /\ discarded \in Seq(Values)
    BY ChannelAssumption DEF Init
  <1>7. /\ sending \in [Senders -> Values \cup {NoValue}]
        /\ timed \in [Receivers -> BOOLEAN] /\ expired \in [Receivers -> BOOLEAN]
        /\ sendersOpen = TRUE /\ receiversOpen = TRUE /\ unsent = Values
    BY DEF Init
  <1> QED
    BY <1>3, <1>4, <1>5, <1>6, <1>7 DEF TypeOK

\* Every step keeps the types, the bound on the queue and the open flags.
LEMMA TypeStep == TypeOK /\ [Next]_vars => TypeOK'
  <1> SUFFICES ASSUME TypeOK, [Next]_vars PROVE TypeOK'
    OBVIOUS
  <1> USE ChannelAssumption
  <1>1. ASSUME NEW s \in Senders, NEW t \in Senders, CloneSender(s, t) PROVE TypeOK'
    <2>1. Owners(sender') /= {} /\ Owners(sender) /= {} /\ sender' \in [Senders -> ThreadState]
      BY <1>1 DEF CloneSender, TypeOK, Owners, ThreadState
    <2> QED
      BY <1>1, <2>1 DEF CloneSender, TypeOK, receiverVars, history
  <1>2. ASSUME NEW s \in Senders, NEW v \in Values, CallSend(s, v) PROVE TypeOK'
    <2>1. Owners(sender') /= {} /\ Owners(sender) /= {} /\ sender' \in [Senders -> ThreadState]
      BY <1>2 DEF CallSend, TypeOK, Owners, ThreadState
    <2> QED
      BY <1>2, <2>1 DEF CallSend, TypeOK, receiverVars, history
  <1>3. ASSUME NEW s \in Senders, SendWait(s) PROVE TypeOK'
    <2>1. Owners(sender') /= {} /\ Owners(sender) /= {} /\ sender' \in [Senders -> ThreadState]
      BY <1>3 DEF SendWait, TypeOK, Owners, ThreadState
    <2> QED
      BY <1>3, <2>1 DEF SendWait, TypeOK, receiverVars, history
  <1>4. ASSUME NEW s \in Senders, SendPush(s) PROVE TypeOK'
    <2>1. Owners(sender') /= {} /\ Owners(sender) /= {} /\ sender' \in [Senders -> ThreadState]
      BY <1>4 DEF SendPush, TypeOK, Owners, ThreadState
    <2>2. receiver' \in [Receivers -> ThreadState] /\ Owners(receiver') = Owners(receiver)
      BY <1>4, NotifyOneEffect DEF SendPush, TypeOK
    <2>3. sending[s] \in Values
      BY <1>4 DEF SendPush, TypeOK
    <2>4. queue' \in Seq(Values) /\ Len(queue') <= Capacity /\ sent' \in Seq(Values)
      BY <1>4, <2>3 DEF SendPush, SendBlocked, TypeOK
    <2> QED
      BY <1>4, <2>1, <2>2, <2>4 DEF SendPush, TypeOK
  <1>5. ASSUME NEW s \in Senders, SendRefused(s) PROVE TypeOK'
    <2>1. Owners(sender') /= {} /\ Owners(sender) /= {} /\ sender' \in [Senders -> ThreadState]
      BY <1>5 DEF SendRefused, TypeOK, Owners, ThreadState
    <2> QED
      BY <1>5, <2>1 DEF SendRefused, TypeOK, receiverVars, history
  <1>6. ASSUME NEW s \in Senders, DropSender(s) PROVE TypeOK'
    <2>1. Owners(sender') = Owners(sender) \ {s} /\ s \in Owners(sender)
          /\ sender' \in [Senders -> ThreadState]
      BY <1>6 DEF DropSender, TypeOK, Owners, ThreadState
    <2>2. receiver' \in [Receivers -> ThreadState] /\ Owners(receiver') = Owners(receiver)
      BY <1>6, NotifyAllEffect DEF DropSender, TypeOK
    <2>3. sendersOpen' \in BOOLEAN /\ (sendersOpen' <=> Owners(sender') /= {})
      <3>1. CASE Owners(sender) = {s}
        <4>1. sendersOpen' = FALSE
          BY <1>6, <3>1 DEF DropSender
        <4>2. Owners(sender') = {}
          BY <2>1, <3>1
        <4> QED
          BY <4>1, <4>2
      <3>2. CASE Owners(sender) /= {s}
        <4>1. sendersOpen' = sendersOpen
          BY <1>6, <3>2 DEF DropSender
        <4>2. Owners(sender') /= {} /\ Owners(sender) /= {}
          BY <2>1, <3>2
        <4>3. sendersOpen \in BOOLEAN /\ (sendersOpen <=> Owners(sender) /= {})
          BY DEF TypeOK
        <4> QED
          BY <4>1, <4>2, <4>3
      <3> QED
        BY <3>1, <3>2
    <2> QED
      BY <1>6, <2>1, <2>2, <2>3 DEF DropSender, TypeOK, history
  <1>7. ASSUME NEW r \in Receivers, NEW t \in Receivers, CloneReceiver(r, t) PROVE TypeOK'
    <2>1. Owners(receiver') /= {} /\ Owners(receiver) /= {} /\ receiver' \in [Receivers -> ThreadState]
      BY <1>7 DEF CloneReceiver, TypeOK, Owners, ThreadState
    <2> QED
      BY <1>7, <2>1 DEF CloneReceiver, TypeOK, senderVars, history
  <1>8. ASSUME NEW r \in Receivers, NEW b \in BOOLEAN, CallRecv(r, b) PROVE TypeOK'
    <2>1. Owners(receiver') /= {} /\ Owners(receiver) /= {} /\ receiver' \in [Receivers -> ThreadState]
      BY <1>8 DEF CallRecv, TypeOK, Owners, ThreadState
    <2> QED
      BY <1>8, <2>1 DEF CallRecv, TypeOK, senderVars, history
  <1>9. ASSUME NEW r \in Receivers, Expire(r) PROVE TypeOK'
    <2>1. Owners(receiver') /= {} /\ Owners(receiver) /= {} /\ receiver' \in [Receivers -> ThreadState]
      BY <1>9 DEF Expire, TypeOK, Owners, ThreadState
    <2> QED
      BY <1>9, <2>1 DEF Expire, TypeOK, senderVars, history
  <1>10. ASSUME NEW r \in Receivers, RecvWait(r) PROVE TypeOK'
    <2>1. Owners(receiver') /= {} /\ Owners(receiver) /= {} /\ receiver' \in [Receivers -> ThreadState]
      BY <1>10 DEF RecvWait, TypeOK, Owners, ThreadState
    <2> QED
      BY <1>10, <2>1 DEF RecvWait, TypeOK, senderVars, history
  <1>11. ASSUME NEW r \in Receivers, RecvPop(r) PROVE TypeOK'
    <2>1. Owners(receiver') /= {} /\ Owners(receiver) /= {} /\ receiver' \in [Receivers -> ThreadState]
      BY <1>11 DEF RecvPop, TypeOK, Owners, ThreadState
    <2>2. /\ sender' \in [Senders -> ThreadState] /\ Owners(sender') = Owners(sender)
          /\ \A s \in Senders : sender'[s] \in {"in", "wait"} <=> sender[s] \in {"in", "wait"}
      BY <1>11, NotifyOneEffect DEF RecvPop, TypeOK
    <2>3. queue' \in Seq(Values) /\ Len(queue') <= Capacity /\ received' \in Seq(Values)
      BY <1>11 DEF RecvPop, TypeOK
    <2> QED
      BY <1>11, <2>1, <2>2, <2>3 DEF RecvPop, TypeOK
  <1>12. ASSUME NEW r \in Receivers, RecvDisconnected(r) \/ RecvTimeout(r) PROVE TypeOK'
    <2>1. Owners(receiver') /= {} /\ Owners(receiver) /= {} /\ receiver' \in [Receivers -> ThreadState]
      BY <1>12 DEF RecvDisconnected, RecvTimeout, TypeOK, Owners, ThreadState
    <2> QED
      BY <1>12, <2>1 DEF RecvDisconnected, RecvTimeout, TypeOK, senderVars, history
  <1>13. ASSUME NEW r \in Receivers, DropReceiver(r) PROVE TypeOK'
    <2>1. Owners(receiver') = Owners(receiver) \ {r} /\ r \in Owners(receiver)
          /\ receiver' \in [Receivers -> ThreadState]
      BY <1>13 DEF DropReceiver, TypeOK, Owners, ThreadState
    <2>2. /\ sender' \in [Senders -> ThreadState] /\ Owners(sender') = Owners(sender)
          /\ \A s \in Senders : sender'[s] \in {"in", "wait"} <=> sender[s] \in {"in", "wait"}
      BY <1>13, NotifyAllEffect DEF DropReceiver, TypeOK
    <2>3. CASE Owners(receiver) = {r}
      <3>1. receiversOpen' = FALSE /\ queue' = <<>> /\ discarded' = queue
        BY <1>13, <2>3 DEF DropReceiver
      <3>2. queue' \in Seq(Values) /\ Len(queue') <= Capacity /\ Owners(receiver') = {}
        BY <2>1, <2>3, <3>1
      <3> QED
        BY <1>13, <2>1, <2>2, <3>1, <3>2 DEF DropReceiver, TypeOK
    <2>4. CASE Owners(receiver) /= {r}
      <3>1. UNCHANGED <<receiversOpen, queue, discarded>> /\ Owners(receiver') /= {}
        BY <1>13, <2>1, <2>4 DEF DropReceiver
      <3> QED
        BY <1>13, <2>1, <2>2, <3>1 DEF DropReceiver, TypeOK
    <2> QED
      BY <2>3, <2>4
  <1>14. CASE SpuriousWakeup
    <2>1. /\ sender' \in [Senders -> ThreadState] /\ Owners(sender') = Owners(sender)
          /\ \A s \in Senders : sender'[s] \in {"in", "wait"} <=> sender[s] \in {"in", "wait"}
      BY <1>14 DEF SpuriousWakeup, Waiting, TypeOK, Owners, ThreadState, senderVars
    <2>2. receiver' \in [Receivers -> ThreadState] /\ Owners(receiver') = Owners(receiver)
      BY <1>14 DEF SpuriousWakeup, Waiting, TypeOK, Owners, ThreadState, receiverVars
    <2> QED
      BY <1>14, <2>1, <2>2 DEF SpuriousWakeup, TypeOK, senderVars, receiverVars, history
  <1>15. CASE Freed \/ UNCHANGED vars
    BY <1>15 DEF Freed, vars, senderVars, receiverVars, history, TypeOK
  <1> QED
    BY <1>1, <1>2, <1>3, <1>4, <1>5, <1>6, <1>7, <1>8, <1>9, <1>10, <1>11, <1>12, <1>13,
       <1>14, <1>15 DEF Next, SendStep, RecvStep

\* In every execution the variables keep their types, the queue never exceeds
\* the capacity of bounded(), and the open flags tell whether handles remain.
THEOREM TypeCorrect == Spec => []TypeOK
  BY TypeInit, TypeStep, PTL DEF Spec

-----------------------------------------------------------------------------
(* Order *)

\* FifoOrder is not inductive alone: a push lands behind what the last
\* receiver's drop took unless that drop excludes later pushes and pops.
OrderInv ==
  /\ FifoOrder
  /\ receiversOpen => discarded = <<>>
  /\ ~receiversOpen => queue = <<>>

\* A new channel has carried nothing.
LEMMA OrderInit == Init => OrderInv
  BY DEF Init, OrderInv, FifoOrder

\* Pushes append, pops take the head, and the drop of the last receiver moves
\* the queue; no other step touches the four sequences.
LEMMA OrderStep == TypeOK /\ OrderInv /\ [Next]_vars => OrderInv'
  <1> SUFFICES ASSUME TypeOK, OrderInv, [Next]_vars PROVE OrderInv'
    OBVIOUS
  <1>1. ASSUME NEW s \in Senders, SendPush(s) PROVE OrderInv'
    <2>1. receiversOpen /\ discarded = <<>> /\ sending[s] \in Values
      BY <1>1 DEF SendPush, TypeOK, OrderInv
    <2>2. sent = received \o queue
      BY <2>1 DEF OrderInv, FifoOrder, TypeOK
    <2>3. Append(received \o queue, sending[s]) = received \o Append(queue, sending[s]) \o <<>>
      <3>1. received \o Append(queue, sending[s]) = Append(received \o queue, sending[s])
        BY <2>1, AppendIsConcat, ConcatAssociative DEF TypeOK
      <3>2. Append(queue, sending[s]) \in Seq(Values)
        BY <2>1 DEF TypeOK
      <3> QED
        BY <3>1, <3>2, ConcatEmptySeq, ConcatProperties DEF TypeOK
    <2> QED
      BY <1>1, <2>1, <2>2, <2>3 DEF SendPush, OrderInv, FifoOrder
  <1>2. ASSUME NEW r \in Receivers, RecvPop(r) PROVE OrderInv'
    <2>1. receiversOpen /\ discarded = <<>> /\ queue \in Seq(Values) /\ queue /= <<>>
      BY <1>2 DEF RecvPop, TypeOK, OrderInv
    <2>2. sent = received \o queue
      BY <2>1 DEF OrderInv, FifoOrder, TypeOK
    <2>3. received \o queue = Append(received, Head(queue)) \o Tail(queue) \o <<>>
      BY <2>1 DEF TypeOK
    <2> QED
      BY <1>2, <2>1, <2>2, <2>3 DEF RecvPop, OrderInv, FifoOrder
  <1>3. ASSUME NEW r \in Receivers, DropReceiver(r) PROVE OrderInv'
    <2>1. CASE Owners(receiver) = {r}
      <3>1. receiversOpen /\ discarded = <<>>
        BY <2>1 DEF TypeOK, OrderInv
      <3>2. sent = received \o queue \o <<>>
        BY <3>1 DEF OrderInv, FifoOrder
      <3>3. received \o queue \o <<>> = received \o <<>> \o queue
        BY DEF TypeOK
      <3> QED
        BY <1>3, <2>1, <3>2, <3>3 DEF DropReceiver, OrderInv, FifoOrder
    <2>2. CASE Owners(receiver) /= {r}
      BY <1>3, <2>2 DEF DropReceiver, OrderInv, FifoOrder
    <2> QED
      BY <2>1, <2>2
  <1>4. CASE UNCHANGED <<queue, sent, received, discarded, receiversOpen>>
    BY <1>4 DEF OrderInv, FifoOrder
  <1>5. ASSUME NEW s \in Senders, NEW t \in Senders, CloneSender(s, t) PROVE OrderInv'
    BY <1>4, <1>5 DEF CloneSender, history
  <1>6. ASSUME NEW s \in Senders, NEW v \in Values, CallSend(s, v) PROVE OrderInv'
    BY <1>4, <1>6 DEF CallSend, history
  <1>7. ASSUME NEW s \in Senders, SendWait(s) \/ SendRefused(s) \/ DropSender(s) PROVE OrderInv'
    BY <1>4, <1>7 DEF SendWait, SendRefused, DropSender, history
  <1>8. ASSUME NEW r \in Receivers, NEW t \in Receivers, NEW b \in BOOLEAN,
               \/ CloneReceiver(r, t) \/ CallRecv(r, b) \/ Expire(r) \/ RecvWait(r)
               \/ RecvDisconnected(r) \/ RecvTimeout(r)
        PROVE  OrderInv'
    BY <1>4, <1>8
       DEF CloneReceiver, CallRecv, Expire, RecvWait, RecvDisconnected, RecvTimeout, history
  <1>9. CASE SpuriousWakeup \/ Freed \/ UNCHANGED vars
    BY <1>4, <1>9 DEF SpuriousWakeup, Freed, vars, history
  <1> QED
    BY <1>1, <1>2, <1>3, <1>5, <1>6, <1>7, <1>8, <1>9 DEF Next, SendStep, RecvStep

\* In every execution the values pushed are the values popped, then the values
\* queued, then the values the last receiver's drop took, in push order.
THEOREM FifoOrderHolds == Spec => []FifoOrder
  <1>1. Spec => []TypeOK
    BY TypeCorrect
  <1>2. OrderInv => FifoOrder
    BY DEF OrderInv
  <1> QED
    BY <1>1, <1>2, OrderInit, OrderStep, PTL DEF Spec

-----------------------------------------------------------------------------
(* Wakeups *)

\* While a thread of the side is parked, n units of work have a runnable
\* thread each: values for receivers, free slots for senders.
Covered(st, n) == Waiting(st) /= {} => n <= Cardinality(In(st))

\* When nobody new parks, d more runnable threads cover d more units of work.
LEMMA CoveredShift ==
  ASSUME NEW st, NEW u, NEW n \in Int, NEW d \in Int, Covered(st, n),
         Waiting(u) \subseteq Waiting(st), Cardinality(In(st)) \in Nat,
         Waiting(u) /= {} => Cardinality(In(u)) = Cardinality(In(st)) + d
  PROVE  Covered(u, n + d)
  BY DEF Covered

\* A thread that becomes runnable leaves no work uncovered.
LEMMA CoveredEnter ==
  ASSUME NEW T, IsFiniteSet(T), NEW st \in [T -> ThreadState], NEW t \in T,
         NEW n \in Int, Covered(st, n), NEW u, u = [st EXCEPT ![t] = "in"]
  PROVE  Covered(u, n)
  <1>1. Waiting(u) \subseteq Waiting(st)
    BY DEF Waiting
  <1>2. Cardinality(In(st)) \in Nat
    BY SidesFinite
  <1>3. CASE st[t] = "in"
    BY <1>3, u = st DEF Covered
  <1>4. CASE st[t] /= "in"
    <2>1. Cardinality(In(u)) = Cardinality(In(st)) + 1
      BY <1>4, OneMoreIn
    <2>2. Waiting(u) /= {} => n <= Cardinality(In(st))
      BY <1>1 DEF Covered
    <2>3. n <= Cardinality(In(st)) => n <= Cardinality(In(u))
      BY <1>2, <2>1
    <2> QED
      BY <2>2, <2>3 DEF Covered
  <1> QED
    BY <1>3, <1>4

\* A thread that returns having done one unit of work leaves none uncovered.
LEMMA CoveredLeave ==
  ASSUME NEW T, IsFiniteSet(T), NEW st \in [T -> ThreadState], NEW t \in T, st[t] = "in",
         NEW n \in Int, Covered(st, n), NEW u, u = [st EXCEPT ![t] = "out"]
  PROVE  Covered(u, n - 1)
  <1>1. Waiting(u) = Waiting(st)
    BY DEF Waiting
  <1>2. Cardinality(In(st)) \in Nat
    BY SidesFinite
  <1>3. Cardinality(In(u)) = Cardinality(In(st)) + (-1)
    BY <1>2, OneLessIn DEF ThreadState
  <1>4. Covered(u, n + (-1))
    BY <1>1, <1>2, <1>3, CoveredShift
  <1> QED
    BY <1>4, n + (-1) = n - 1

\* One notify_one covers one more unit of work.
LEMMA CoveredNotify ==
  ASSUME NEW T, IsFiniteSet(T), NEW st \in [T -> ThreadState],
         NEW n \in Int, Covered(st, n), NEW u \in NotifyOne(st)
  PROVE  Covered(u, n + 1)
  <1>1. /\ Waiting(u) \subseteq Waiting(st)
        /\ Waiting(u) /= {} => Cardinality(In(u)) = Cardinality(In(st)) + 1
    BY NotifyOneEffect
  <1>2. Cardinality(In(st)) \in Nat
    BY SidesFinite
  <1> QED
    BY <1>1, <1>2, CoveredShift

\* Threads outside every call do not matter.
LEMMA CoveredOutside ==
  ASSUME NEW T, NEW st \in [T -> ThreadState], NEW t \in T, st[t] \in {"none", "out"},
         NEW x \in {"out", "dropped"}, NEW u, u = [st EXCEPT ![t] = x]
  PROVE  In(u) = In(st) /\ Waiting(u) = Waiting(st)
  BY DEF In, Waiting

\* The three wakeup properties hold together: a call that ends because the
\* other side is closed is safe only since nobody of its side is parked then.
WakeInv == NoLostReadable /\ NoLostWritable /\ CloseWakesAll

\* In the initial state nobody is parked.
LEMMA WakeInit == Init => WakeInv
  BY DEF Init, WakeInv, NoLostReadable, NoLostWritable, CloseWakesAll, Waiting

\* Every step keeps the three wakeup properties.
LEMMA WakeStep == TypeOK /\ WakeInv /\ [Next]_vars => WakeInv'
  <1> SUFFICES ASSUME TypeOK, WakeInv, [Next]_vars PROVE WakeInv'
    OBVIOUS
  <1> USE ChannelAssumption
  <1>1. /\ Covered(receiver, Len(queue)) /\ Covered(sender, Capacity - Len(queue))
        /\ ~sendersOpen => Waiting(receiver) = {}
        /\ ~receiversOpen => Waiting(sender) = {}
    BY DEF WakeInv, NoLostReadable, NoLostWritable, CloseWakesAll, Covered
  <1>2. /\ sender \in [Senders -> ThreadState] /\ receiver \in [Receivers -> ThreadState]
        /\ queue \in Seq(Values) /\ Len(queue) \in Nat /\ Len(queue) \in Int
        /\ Capacity - Len(queue) \in Int
    BY DEF TypeOK
  <1>3. SUFFICES /\ Covered(receiver', Len(queue')) /\ Covered(sender', Capacity - Len(queue'))
                 /\ ~sendersOpen' => Waiting(receiver') = {}
                 /\ ~receiversOpen' => Waiting(sender') = {}
    BY DEF WakeInv, NoLostReadable, NoLostWritable, CloseWakesAll, Covered
  <1> DEFINE Goal == /\ Covered(receiver', Len(queue')) /\ Covered(sender', Capacity - Len(queue'))
                     /\ ~sendersOpen' => Waiting(receiver') = {}
                     /\ ~receiversOpen' => Waiting(sender') = {}
  <1>4. ASSUME NEW s \in Senders, NEW t \in Senders, CloneSender(s, t) PROVE Goal
    <2>1. In(sender') = In(sender) /\ Waiting(sender') = Waiting(sender)
      BY <1>2, <1>4, CoveredOutside DEF CloneSender
    <2> QED
      BY <1>1, <1>4, <2>1 DEF CloneSender, Covered, receiverVars
  <1>5. ASSUME NEW s \in Senders, NEW v \in Values, CallSend(s, v) PROVE Goal
    <2>1. Covered(sender', Capacity - Len(queue))
      BY <1>1, <1>2, <1>5, CoveredEnter DEF CallSend
    <2>2. Waiting(sender') \subseteq Waiting(sender)
      BY <1>2, <1>5 DEF CallSend, Waiting
    <2> QED
      BY <1>1, <1>5, <2>1, <2>2 DEF CallSend, receiverVars
  <1>6. ASSUME NEW s \in Senders, SendWait(s) PROVE Goal
    <2>1. receiversOpen /\ Capacity - Len(queue) = 0
      BY <1>2, <1>6 DEF SendWait, SendBlocked
    <2>2. sender' \in [Senders -> ThreadState]
      BY <1>2, <1>6 DEF SendWait, ThreadState
    <2>3. Cardinality(In(sender')) \in Nat
      BY <2>2, SidesFinite
    <2> QED
      BY <1>1, <1>6, <2>1, <2>3 DEF SendWait, receiverVars, Covered
  <1>7. ASSUME NEW s \in Senders, SendPush(s) PROVE Goal
    <2>1. Len(queue') = Len(queue) + 1 /\ Capacity - Len(queue') = (Capacity - Len(queue)) - 1
      BY <1>2, <1>7 DEF SendPush
    <2>2. Covered(receiver', Len(queue) + 1)
      BY <1>1, <1>2, <1>7, CoveredNotify DEF SendPush
    <2>3. Covered(sender', (Capacity - Len(queue)) - 1)
      BY <1>1, <1>2, <1>7, CoveredLeave DEF SendPush
    <2>4. Waiting(receiver') \subseteq Waiting(receiver)
      BY <1>2, <1>7, NotifyOneEffect DEF SendPush
    <2> QED
      BY <1>1, <1>7, <2>1, <2>2, <2>3, <2>4 DEF SendPush
  <1>8. ASSUME NEW s \in Senders, SendRefused(s) PROVE Goal
    <2>1. Waiting(sender') = {}
      BY <1>1, <1>2, <1>8 DEF SendRefused, Waiting
    <2> QED
      BY <1>1, <1>8, <2>1 DEF SendRefused, receiverVars, Covered
  <1>9. ASSUME NEW s \in Senders, DropSender(s) PROVE Goal
    <2>1. In(sender') = In(sender) /\ Waiting(sender') = Waiting(sender)
      BY <1>2, <1>9, CoveredOutside DEF DropSender
    <2>2. CASE Owners(sender) = {s}
      <3>1. Waiting(receiver') = {}
        BY <1>2, <1>9, <2>2, NotifyAllEffect DEF DropSender
      <3> QED
        BY <1>1, <1>9, <2>1, <3>1 DEF DropSender, Covered
    <2>3. CASE Owners(sender) /= {s}
      BY <1>1, <1>9, <2>1, <2>3 DEF DropSender, Covered
    <2> QED
      BY <2>2, <2>3
  <1>10. ASSUME NEW r \in Receivers, NEW t \in Receivers, CloneReceiver(r, t) PROVE Goal
    <2>1. In(receiver') = In(receiver) /\ Waiting(receiver') = Waiting(receiver)
      BY <1>2, <1>10, CoveredOutside DEF CloneReceiver
    <2> QED
      BY <1>1, <1>10, <2>1 DEF CloneReceiver, Covered, senderVars
  <1>11. ASSUME NEW r \in Receivers, NEW b \in BOOLEAN, CallRecv(r, b) \/ Expire(r) PROVE Goal
    <2>1. receiver' = [receiver EXCEPT ![r] = "in"]
      BY <1>11 DEF CallRecv, Expire
    <2>2. Covered(receiver', Len(queue))
      BY <1>1, <1>2, <2>1, CoveredEnter
    <2>3. Waiting(receiver') \subseteq Waiting(receiver)
      BY <1>2, <2>1 DEF Waiting
    <2> QED
      BY <1>1, <1>11, <2>2, <2>3 DEF CallRecv, Expire, senderVars
  <1>12. ASSUME NEW r \in Receivers, RecvWait(r) PROVE Goal
    <2>1. sendersOpen /\ Len(queue) = 0 /\ receiver' \in [Receivers -> ThreadState]
      BY <1>2, <1>12 DEF RecvWait, RecvBlocked, ThreadState
    <2>2. Cardinality(In(receiver')) \in Nat
      BY <2>1, SidesFinite
    <2> QED
      BY <1>1, <1>12, <2>1, <2>2 DEF RecvWait, senderVars, Covered
  <1>13. ASSUME NEW r \in Receivers, RecvPop(r) PROVE Goal
    <2>1. Len(queue') = Len(queue) - 1 /\ Capacity - Len(queue') = (Capacity - Len(queue)) + 1
      BY <1>2, <1>13 DEF RecvPop
    <2>2. Covered(receiver', Len(queue) - 1)
      BY <1>1, <1>2, <1>13, CoveredLeave DEF RecvPop
    <2>3. Covered(sender', (Capacity - Len(queue)) + 1)
      BY <1>1, <1>2, <1>13, CoveredNotify DEF RecvPop
    <2>4. Waiting(sender') \subseteq Waiting(sender)
      BY <1>2, <1>13, NotifyOneEffect DEF RecvPop
    <2>5. Waiting(receiver') \subseteq Waiting(receiver)
      BY <1>2, <1>13 DEF RecvPop, Waiting
    <2> QED
      BY <1>1, <1>13, <2>1, <2>2, <2>3, <2>4, <2>5 DEF RecvPop
  <1>14. ASSUME NEW r \in Receivers, RecvDisconnected(r) PROVE Goal
    <2>1. Waiting(receiver') = {}
      BY <1>1, <1>2, <1>14 DEF RecvDisconnected, Waiting
    <2> QED
      BY <1>1, <1>14, <2>1 DEF RecvDisconnected, senderVars, Covered
  <1>15. ASSUME NEW r \in Receivers, RecvTimeout(r) PROVE Goal
    <2>1. sendersOpen /\ Len(queue) = 0 /\ receiver' \in [Receivers -> ThreadState]
      BY <1>2, <1>15 DEF RecvTimeout, RecvBlocked, ThreadState
    <2>2. Cardinality(In(receiver')) \in Nat
      BY <2>1, SidesFinite
    <2> QED
      BY <1>1, <1>15, <2>1, <2>2 DEF RecvTimeout, senderVars, Covered
  <1>16. ASSUME NEW r \in Receivers, DropReceiver(r) PROVE Goal
    <2>1. /\ In(receiver') = In(receiver) /\ Waiting(receiver') = Waiting(receiver)
          /\ receiver' \in [Receivers -> ThreadState]
      BY <1>2, <1>16, CoveredOutside DEF DropReceiver, ThreadState
    <2>2. CASE Owners(receiver) = {r}
      <3>1. Waiting(sender') = {} /\ queue' = <<>>
        BY <1>2, <1>16, <2>2, NotifyAllEffect DEF DropReceiver
      <3>2. Cardinality(In(receiver')) \in Nat /\ Len(queue') = 0
        BY <2>1, <3>1, SidesFinite
      <3>3. Covered(receiver', Len(queue')) /\ Covered(sender', Capacity - Len(queue'))
        BY <3>1, <3>2 DEF Covered
      <3> QED
        BY <1>1, <1>16, <2>1, <3>1, <3>3 DEF DropReceiver
    <2>3. CASE Owners(receiver) /= {r}
      BY <1>1, <1>16, <2>1, <2>3 DEF DropReceiver, Covered
    <2> QED
      BY <2>2, <2>3
  <1>17. CASE SpuriousWakeup
    <2>1. ASSUME NEW s \in Waiting(sender), sender' = [sender EXCEPT ![s] = "in"],
                 UNCHANGED <<queue, sendersOpen, receiversOpen, receiver>>
          PROVE  Goal
      <3>1. Covered(sender', Capacity - Len(queue))
        BY <1>1, <1>2, <2>1, CoveredEnter DEF Waiting
      <3>2. Waiting(sender') \subseteq Waiting(sender)
        BY <1>2, <2>1 DEF Waiting
      <3> QED
        BY <1>1, <2>1, <3>1, <3>2
    <2>2. ASSUME NEW r \in Waiting(receiver), receiver' = [receiver EXCEPT ![r] = "in"],
                 UNCHANGED <<queue, sendersOpen, receiversOpen, sender>>
          PROVE  Goal
      <3>1. Covered(receiver', Len(queue))
        BY <1>1, <1>2, <2>2, CoveredEnter DEF Waiting
      <3>2. Waiting(receiver') \subseteq Waiting(receiver)
        BY <1>2, <2>2 DEF Waiting
      <3> QED
        BY <1>1, <2>2, <3>1, <3>2
    <2> QED
      BY <1>17, <2>1, <2>2 DEF SpuriousWakeup, senderVars, receiverVars
  <1>18. CASE Freed \/ UNCHANGED vars
    BY <1>1, <1>18 DEF Freed, vars, senderVars, receiverVars
  <1> QED
    BY <1>4, <1>5, <1>6, <1>7, <1>8, <1>9, <1>10, <1>11, <1>12, <1>13, <1>14, <1>15, <1>16,
       <1>17, <1>18 DEF Next, SendStep, RecvStep

\* In every execution no notification is lost: a parked receiver means every
\* queued value has a runnable receiver, a parked sender that every free slot
\* has a runnable sender, and nobody is parked against a closed side.
THEOREM WakeupsHold == Spec => []NoLostWakeup
  <1>1. Spec => []TypeOK
    BY TypeCorrect
  <1>2. Spec => []WakeInv
    BY <1>1, WakeInit, WakeStep, PTL DEF Spec
  <1> QED
    BY <1>2, PTL DEF WakeInv, NoLostWakeup

-----------------------------------------------------------------------------
(* Refinement *)

\* Each step of the channel is a step of the bounded FIFO or leaves it alone.
LEMMA FifoStep ==
  TypeOK /\ OrderInv /\ [Next]_vars => [Abstract!Next]_(Abstract!vars)
  <1> SUFFICES ASSUME TypeOK, OrderInv, [Next]_vars PROVE [Abstract!Next]_(Abstract!vars)
    OBVIOUS
  <1>1. ASSUME NEW s \in Senders, SendPush(s) PROVE Abstract!Next
    <2>1. sending[s] \in Values /\ sendersOpen
      BY <1>1 DEF SendPush, TypeOK, Owners
    <2>2. Len(queue) < Capacity
      BY <1>1, ChannelAssumption DEF SendPush, SendBlocked, TypeOK
    <2>3. Abstract!Put(sending[s])
      BY <1>1, <2>1, <2>2 DEF SendPush, Abstract!Put
    <2> QED
      BY <2>1, <2>3 DEF Abstract!Next
  <1>2. ASSUME NEW r \in Receivers, RecvPop(r) PROVE Abstract!Next
    BY <1>2 DEF RecvPop, OrderInv, Abstract!Get, Abstract!Next
  <1>3. CASE UNCHANGED <<queue, sendersOpen, receiversOpen, received>>
    BY <1>3 DEF Abstract!vars
  <1>4. ASSUME NEW s \in Senders, DropSender(s) PROVE [Abstract!Next]_(Abstract!vars)
    <2>1. CASE Owners(sender) = {s}
      BY <1>4, <2>1 DEF DropSender, TypeOK, history, Abstract!ClosePut, Abstract!Next
    <2>2. CASE Owners(sender) /= {s}
      BY <1>3, <1>4, <2>2 DEF DropSender, history
    <2> QED
      BY <2>1, <2>2
  <1>5. ASSUME NEW r \in Receivers, DropReceiver(r) PROVE [Abstract!Next]_(Abstract!vars)
    <2>1. CASE Owners(receiver) = {r}
      BY <1>5, <2>1 DEF DropReceiver, TypeOK, Abstract!CloseGet, Abstract!Next
    <2>2. CASE Owners(receiver) /= {r}
      BY <1>3, <1>5, <2>2 DEF DropReceiver
    <2> QED
      BY <2>1, <2>2
  <1>6. ASSUME NEW s \in Senders, NEW t \in Senders, CloneSender(s, t)
        PROVE  [Abstract!Next]_(Abstract!vars)
    BY <1>3, <1>6 DEF CloneSender, history
  <1>7. ASSUME NEW s \in Senders, NEW v \in Values, CallSend(s, v)
        PROVE  [Abstract!Next]_(Abstract!vars)
    BY <1>3, <1>7 DEF CallSend, history
  <1>8. ASSUME NEW s \in Senders, SendWait(s) \/ SendRefused(s)
        PROVE  [Abstract!Next]_(Abstract!vars)
    BY <1>3, <1>8 DEF SendWait, SendRefused, history
  <1>9. ASSUME NEW r \in Receivers, NEW t \in Receivers, NEW b \in BOOLEAN,
               \/ CloneReceiver(r, t) \/ CallRecv(r, b) \/ Expire(r) \/ RecvWait(r)
               \/ RecvDisconnected(r) \/ RecvTimeout(r)
        PROVE  [Abstract!Next]_(Abstract!vars)
    BY <1>3, <1>9
       DEF CloneReceiver, CallRecv, Expire, RecvWait, RecvDisconnected, RecvTimeout, history
  <1>10. CASE SpuriousWakeup \/ Freed \/ UNCHANGED vars
    BY <1>3, <1>10 DEF SpuriousWakeup, Freed, vars, history
  <1> QED
    BY <1>1, <1>2, <1>4, <1>5, <1>6, <1>7, <1>8, <1>9, <1>10 DEF Next, SendStep, RecvStep

\* The channel of channel.rs implements the bounded FIFO its users rely on.
THEOREM ChannelImplementsFifo == Spec => ImplementsFifo
  <1>1. Spec => []TypeOK
    BY TypeCorrect
  <1>2. Spec => []OrderInv
    BY <1>1, OrderInit, OrderStep, PTL DEF Spec
  <1>3. Init => Abstract!Init
    BY DEF Init, Abstract!Init
  <1> QED
    BY <1>1, <1>2, <1>3, FifoStep, PTL DEF Spec, ImplementsFifo, Abstract!Spec

\* A receive call that ends without a value leaves an empty queue behind: by
\* timeout or disconnection, never past a value that could still be popped.
THEOREM NoValueAbandonedHolds == Spec => NoValueAbandoned
  <1> DEFINE Honest == \A r \in Receivers :
        (receiver[r] = "in" /\ receiver'[r] = "out" /\ received' = received) => queue = <<>>
  <1>1. TypeOK /\ [Next]_vars => [Honest]_vars
    <2> SUFFICES ASSUME TypeOK, [Next]_vars,
                        NEW r \in Receivers, receiver[r] = "in", receiver'[r] = "out",
                        received' = received
                 PROVE  queue = <<>>
      OBVIOUS
    <2>1. receiver \in [Receivers -> ThreadState] /\ received \in Seq(Values) /\ queue \in Seq(Values)
      BY DEF TypeOK
    <2>2. ASSUME NEW s \in Senders, SendPush(s) PROVE FALSE
      BY <2>1, <2>2, NotifyOneEffect, ChannelAssumption DEF SendPush, NotifyOne, Waiting
    <2>3. ASSUME NEW s \in Senders, DropSender(s) PROVE FALSE
      BY <2>1, <2>3, NotifyAllEffect DEF DropSender
    <2>4. ASSUME NEW q \in Receivers, RecvPop(q) PROVE FALSE
      <3>1. Append(received, Head(queue)) /= received
        BY <2>1, <2>4 DEF RecvPop
      <3> QED
        BY <2>4, <3>1 DEF RecvPop
    <2>5. ASSUME NEW q \in Receivers, RecvDisconnected(q) \/ RecvTimeout(q) PROVE queue = <<>>
      BY <2>5 DEF RecvDisconnected, RecvTimeout, RecvBlocked
    <2>6. ASSUME NEW q \in Receivers, NEW t \in Receivers, NEW b \in BOOLEAN,
                 \/ CloneReceiver(q, t) \/ CallRecv(q, b) \/ Expire(q) \/ RecvWait(q)
                 \/ DropReceiver(q)
          PROVE  FALSE
      BY <2>1, <2>6 DEF CloneReceiver, CallRecv, Expire, RecvWait, DropReceiver
    <2>7. ASSUME NEW s \in Senders, NEW t \in Senders, CloneSender(s, t) PROVE FALSE
      BY <2>7 DEF CloneSender, receiverVars
    <2>8. ASSUME NEW s \in Senders, NEW v \in Values, CallSend(s, v) PROVE FALSE
      BY <2>8 DEF CallSend, receiverVars
    <2>9. ASSUME NEW s \in Senders, SendWait(s) \/ SendRefused(s) PROVE FALSE
      BY <2>9 DEF SendWait, SendRefused, receiverVars
    <2>10. CASE SpuriousWakeup \/ Freed \/ UNCHANGED vars
      BY <2>1, <2>10 DEF SpuriousWakeup, Freed, Waiting, vars, receiverVars
    <2> QED
      BY <2>2, <2>3, <2>4, <2>5, <2>6, <2>7, <2>8, <2>9, <2>10 DEF Next, SendStep, RecvStep
  <1> QED
    BY <1>1, TypeCorrect, PTL DEF Spec, NoValueAbandoned

=============================================================================
