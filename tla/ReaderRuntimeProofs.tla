------------------------ MODULE ReaderRuntimeProofs ------------------------
(***************************************************************************)
(* The order of samples, the bounded windows and the room in the result    *)
(* channels of the reader runtime, for every number of iterators, get_item *)
(* calls, workers and samples.                                             *)
(***************************************************************************)
EXTENDS ReaderRuntime, WellFoundedInduction, TLAPS

Results == [seq : Nat, ok : BOOLEAN]

Phases   == {"idle", "taken", "reading", "deliver", "exited"}
Statuses == {"new", "starting", "ready", "scheduling", "receiving", "dropped"}

Typed ==
  /\ jobs \in Seq(Jobs)
  /\ worker \in [Workers -> [phase : Phases, job : Jobs \cup {NoJob}, ok : BOOLEAN]]
  /\ status \in [Operations -> Statuses]
  /\ scheduled \in [Operations -> Nat] /\ emitted \in [Operations -> Nat]
  /\ cancelled \in [Operations -> BOOLEAN] /\ stopped \in [Operations -> BOOLEAN]
  /\ results \in [Operations -> Seq(Results)]
  /\ pending \in [Operations -> SUBSET Nat]
  /\ out \in [Operations -> Seq(Nat)]
  /\ failed \in [Operations -> Int]

\* The window of an operation, what it has returned and how it has ended.
Counts(o) ==
  /\ scheduled[o] <= Total(o)
  /\ Len(out[o]) <= scheduled[o] /\ scheduled[o] - Len(out[o]) <= Parallelism(o)
  /\ \A k \in 1..Len(out[o]) : out[o][k] = k - 1
  /\ status[o] = "new" =>
       scheduled[o] = 0 /\ results[o] = <<>> /\ pending[o] = {} /\ ~cancelled[o]
  /\ failed[o] = -1 => emitted[o] = Len(out[o])
  /\ failed[o] /= -1 => /\ failed[o] \in Len(out[o])..(scheduled[o] - 1)
                        /\ emitted[o] = Total(o) /\ status[o] \in {"ready", "dropped"}
                        /\ <<o, failed[o]>> \in MayFail
  /\ Live(o) /\ failed[o] = -1 => ~cancelled[o]
  /\ stopped[o] => emitted[o] >= Total(o)

\* The results that have arrived and not been returned: each sequence once,
\* inside the window, and no failure that is not the sample's own.
Slots(o) ==
  Live(o) =>
    /\ \A k \in 1..Len(results[o]) :
         /\ results[o][k].seq \in Len(out[o])..(scheduled[o] - 1)
         /\ results[o][k].seq \notin pending[o]
         /\ results[o][k].ok \/ cancelled[o] \/ <<o, results[o][k].seq>> \in MayFail
    /\ \A j, k \in 1..Len(results[o]) : results[o][j].seq = results[o][k].seq => j = k
    /\ \A s \in pending[o] : s \in Len(out[o])..(scheduled[o] - 1)

\* The result of sequence s has not arrived: its slot is still reserved.
Reserved(o, s) ==
  /\ s < scheduled[o]
  /\ Live(o) => /\ Len(out[o]) <= s /\ s \notin pending[o]
                /\ \A k \in 1..Len(results[o]) : results[o][k].seq /= s

Busy(w) == worker[w].phase \in {"taken", "reading", "deliver"}

Queued(j) == \E p \in 1..Len(jobs) : jobs[p] = j

Holding(w, j) == Busy(w) /\ worker[w].job = j

QueueInv ==
  /\ \A j \in Jobs : Queued(j) => Reserved(j.op, j.seq)
  /\ \A p, q \in 1..Len(jobs) : jobs[p] = jobs[q] => p = q

WorkersInv ==
  \A w \in Workers :
    /\ Busy(w) => worker[w].job \in Jobs
    /\ \A j \in Jobs : Holding(w, j) =>
         /\ Reserved(j.op, j.seq) /\ ~Queued(j)
         /\ \A v \in Workers : Holding(v, j) => v = w
         /\ worker[w].phase = "deliver" =>
              worker[w].ok \/ cancelled[j.op] \/ <<j.op, j.seq>> \in MayFail

\* The inductive invariant: every sequence that was scheduled and not returned
\* is in one place only, the queue, a worker, the result channel or pending.
Inv ==
  /\ Typed /\ QueueInv /\ WorkersInv
  /\ \A o \in Operations : Counts(o) /\ Slots(o)

-----------------------------------------------------------------------------
(* Facts about the constants and frames *)

\* RuntimeIterator::start and get_item use a window of at least one sample and
\* at most the whole plan.
LEMMA WindowSize ==
  ASSUME NEW o \in Operations
  PROVE  Total(o) \in Nat \ {0} /\ Parallelism(o) \in 1..Total(o)
BY ReaderAssumption DEF Total, Parallelism, Smaller

\* A job names an operation and a sequence number.
LEMMA JobFields ==
  ASSUME NEW j \in Jobs
  PROVE  j.op \in Operations /\ j.seq \in Nat /\ j = [op |-> j.op, seq |-> j.seq]
BY Zenon DEF Jobs

\* Returning the next sample of the plan extends what Python has got in order.
LEMMA NextOfPlan ==
  ASSUME NEW q \in Seq(Nat), \A k \in 1..Len(q) : q[k] = k - 1
  PROVE  /\ Len(Append(q, Len(q))) = Len(q) + 1
         /\ \A k \in 1..(Len(q) + 1) : Append(q, Len(q))[k] = k - 1
OBVIOUS

\* A window that starts one later holds what it held, but for its first number.
LEMMA LaterWindow ==
  ASSUME NEW a \in Nat, NEW b \in Nat, NEW t \in a..(b - 1), t /= a
  PROVE  t \in (a + 1)..(b - 1)
OBVIOUS

\* Operation o is left alone.
Same(o) ==
  /\ status'[o] = status[o] /\ scheduled'[o] = scheduled[o] /\ emitted'[o] = emitted[o]
  /\ cancelled'[o] = cancelled[o] /\ results'[o] = results[o] /\ pending'[o] = pending[o]
  /\ out'[o] = out[o] /\ failed'[o] = failed[o] /\ stopped'[o] = stopped[o]

\* What holds of an operation that is left alone goes on holding.
LEMMA Untouched ==
  ASSUME NEW o \in Operations, Same(o), Counts(o), Slots(o)
  PROVE  /\ Counts(o)' /\ Slots(o)'
         /\ \A s : Reserved(o, s) => Reserved(o, s)'
<1>1. Counts(o)'
  BY Zenon DEF Same, Counts, Live
<1>2. Slots(o)'
  BY Zenon DEF Same, Slots, Live
<1>3. ASSUME NEW s, Reserved(o, s) PROVE Reserved(o, s)'
  BY <1>3, Zenon DEF Same, Reserved, Live
<1> QED BY <1>1, <1>2, <1>3

\* A call that changes one operation, and neither the queue nor a worker, keeps
\* the invariant if it keeps that operation's part and its reserved slots.
LEMMA CallFrame ==
  ASSUME Inv, Typed', UNCHANGED <<jobs, worker>>, NEW o \in Operations,
         \A q \in Operations \ {o} : Same(q),
         cancelled[o] => cancelled'[o],
         Counts(o)', Slots(o)',
         \A s \in Nat : Reserved(o, s) => Reserved(o, s)'
  PROVE  Inv'
<1>1. ASSUME NEW q \in Operations PROVE Counts(q)' /\ Slots(q)'
  BY Untouched, Zenon DEF Inv
<1>2. ASSUME NEW q \in Operations, NEW s \in Nat, Reserved(q, s) PROVE Reserved(q, s)'
  BY <1>2, Untouched, Zenon DEF Inv
<1>3. \A q \in Operations : cancelled[q] => cancelled'[q]
  BY Zenon DEF Same
<1>4. \A j : Queued(j)' <=> Queued(j)
  BY Zenon DEF Queued
<1>5. \A w, j : Holding(w, j)' <=> Holding(w, j)
  BY Zenon DEF Holding, Busy
<1>6. ASSUME NEW j \in Jobs, Reserved(j.op, j.seq) PROVE Reserved(j.op, j.seq)'
  BY <1>2, <1>6, JobFields, Zenon
<1>7. QueueInv'
  BY <1>4, <1>6, Zenon DEF Inv, QueueInv
<1>8. WorkersInv'
  BY <1>3, <1>4, <1>5, <1>6, JobFields, Zenon DEF Inv, WorkersInv, Busy
<1> QED BY <1>1, <1>7, <1>8, Zenon DEF Inv

-----------------------------------------------------------------------------
(* The invariant is inductive *)

\* Nothing is scheduled before the first call.
LEMMA InvInit == Init => Inv
<1> SUFFICES ASSUME Init PROVE Inv
  BY Zenon
<1>1. Typed
  <2>1. Idle \in [phase : Phases, job : Jobs \cup {NoJob}, ok : BOOLEAN]
    BY Zenon DEF Idle, Phases
  <2> QED BY <2>1 DEF Init, Typed, Statuses
<1>2. QueueInv /\ WorkersInv
  BY DEF Init, QueueInv, WorkersInv, Queued, Holding, Busy, Idle
<1>3. ASSUME NEW o \in Operations PROVE Counts(o) /\ Slots(o)
  BY WindowSize DEF Init, Counts, Slots, Live
<1> QED BY <1>1, <1>2, <1>3, Zenon DEF Inv

\* Entering a call, leaving start and going on to receive change only the place
\* of the call; a failed iterator is never called again.
LEMMA StatusStep ==
  ASSUME Inv, NEW o \in Operations, NEW new \in {"starting", "ready", "scheduling", "receiving"},
         status[o] /= "dropped", failed[o] = -1,
         status' = [status EXCEPT ![o] = new],
         UNCHANGED <<jobs, worker, scheduled, emitted, cancelled, results, pending, out, failed, stopped>>
  PROVE  Inv'
<1>1. Typed'
  BY Zenon DEF Inv, Typed, Statuses
<1>2. Counts(o) /\ Slots(o) /\ status'[o] = new
  BY Zenon DEF Inv, Typed
<1>3. Counts(o)'
  BY <1>2, Zenon DEF Counts, Live
<1>4. Slots(o)'
  BY <1>2 DEF Counts, Slots, Live
<1>5. \A s \in Nat : Reserved(o, s) => Reserved(o, s)'
  BY <1>2 DEF Counts, Reserved, Live
<1>6. \A q \in Operations \ {o} : Same(q)
  BY Zenon DEF Same, Inv, Typed
<1> QED BY <1>1, <1>3, <1>4, <1>5, <1>6, CallFrame, Zenon

\* None once everything is emitted: only the history of the iterator grows.
LEMMA ExhaustedStep == ASSUME Inv, NEW i \in Iterators, NextExhausted(i) PROVE Inv'
<1>1. i \in Operations /\ Counts(i) /\ Slots(i)
  BY Zenon DEF Operations, Inv
<1>2. Typed'
  BY <1>1, Zenon DEF NextExhausted, poolVars, Inv, Typed
<1>3. Counts(i)' /\ Slots(i)' /\ \A s \in Nat : Reserved(i, s) => Reserved(i, s)'
  <2>1. /\ status' = status /\ scheduled' = scheduled /\ emitted' = emitted /\ out' = out
        /\ cancelled' = cancelled /\ results' = results /\ pending' = pending /\ failed' = failed
        /\ emitted[i] >= Total(i)
    BY Zenon DEF NextExhausted
  <2>2. Counts(i)'
    BY <1>1, <2>1, Zenon DEF Counts, Live
  <2>3. Slots(i)'
    BY <1>1, <2>1, Zenon DEF Slots, Live
  <2>4. \A s \in Nat : Reserved(i, s) => Reserved(i, s)'
    BY <2>1, Zenon DEF Reserved, Live
  <2> QED BY <2>2, <2>3, <2>4
<1>4. \A q \in Operations \ {i} : Same(q)
  BY <1>1, Zenon DEF NextExhausted, Same, Inv, Typed
<1> QED BY <1>1, <1>2, <1>3, <1>4, CallFrame, Zenon DEF NextExhausted, poolVars

\* RuntimeIterator::drop: what is still on its way has nowhere to arrive.
LEMMA DropStep == ASSUME Inv, NEW i \in Iterators, DropIterator(i) PROVE Inv'
<1>1. i \in Operations /\ Counts(i) /\ status[i] = "ready" /\ status'[i] = "dropped"
  BY Zenon DEF DropIterator, Operations, Inv, Typed
<1>2. Typed'
  BY <1>1 DEF DropIterator, Inv, Typed, Statuses
<1>3. Counts(i)'
  BY <1>1, Zenon DEF DropIterator, Counts, Live, Inv, Typed
<1>4. Slots(i)' /\ \A s \in Nat : Reserved(i, s) => Reserved(i, s)'
  BY <1>1, Zenon DEF DropIterator, Slots, Reserved, Live
<1>5. \A q \in Operations \ {i} : Same(q)
  BY <1>1, Zenon DEF DropIterator, Same, Inv, Typed
<1>6. cancelled'[i] /\ UNCHANGED <<jobs, worker>>
  BY <1>1, Zenon DEF DropIterator, Inv, Typed
<1> QED BY <1>1, <1>2, <1>3, <1>4, <1>5, <1>6, CallFrame, Zenon

\* One sample of the plan is returned: it was received or pending, inside the
\* window, and whatever is still on its way comes after it.
LEMMA EmitStep ==
  ASSUME Inv, NEW o \in Operations, status[o] = "receiving", NEW s \in Nat, s = emitted[o],
         s < scheduled[o], Emit(o, s), UNCHANGED <<jobs, worker, scheduled, stopped>>,
         results' \in [Operations -> Seq(Results)], pending' \in [Operations -> SUBSET Nat],
         \A q \in Operations \ {o} : results'[q] = results[q] /\ pending'[q] = pending[q],
         pending'[o] \subseteq pending[o], s \notin pending'[o],
         \A k \in 1..Len(results'[o]) :
           /\ results'[o][k].seq /= s
           /\ \E j \in 1..Len(results[o]) : results'[o][k] = results[o][j],
         \A j, k \in 1..Len(results'[o]) : results'[o][j].seq = results'[o][k].seq => j = k,
         \A t \in Nat : Reserved(o, t) => t /= s
  PROVE  Inv'
<1>1. /\ Counts(o) /\ Slots(o) /\ Live(o) /\ failed[o] = -1 /\ s = Len(out[o])
      /\ scheduled[o] \in Nat /\ out[o] \in Seq(Nat) /\ Len(out[o]) \in Nat
  BY Zenon DEF Inv, Typed, Counts, Live
<1>2. /\ status'[o] \in {"ready", "dropped"} /\ emitted'[o] = emitted[o] + 1
      /\ out'[o] = Append(out[o], s) /\ scheduled'[o] = scheduled[o] /\ stopped'[o] = stopped[o]
      /\ cancelled'[o] = cancelled[o] /\ failed'[o] = failed[o]
      /\ UNCHANGED <<cancelled, failed>>
  BY Zenon DEF Emit, Leave, Inv, Typed
<1>3. /\ Len(out'[o]) = Len(out[o]) + 1
      /\ \A k \in 1..Len(out'[o]) : out'[o][k] = k - 1
  <2>1. /\ out[o] \in Seq(Nat) /\ out'[o] = Append(out[o], Len(out[o]))
        /\ \A k \in 1..Len(out[o]) : out[o][k] = k - 1
    BY <1>1, <1>2, Zenon DEF Counts
  <2>2. /\ Len(Append(out[o], Len(out[o]))) = Len(out[o]) + 1
        /\ \A k \in 1..(Len(out[o]) + 1) : Append(out[o], Len(out[o]))[k] = k - 1
    BY <2>1, NextOfPlan, Zenon
  <2> QED BY <2>1, <2>2, Zenon
<1>4. Typed'
  <2>1. out' \in [Operations -> Seq(Nat)]
    BY DEF Emit, Inv, Typed
  <2>2. emitted' \in [Operations -> Nat] /\ status' \in [Operations -> Statuses]
    BY DEF Emit, Leave, Inv, Typed, Statuses
  <2> QED BY <1>2, <2>1, <2>2, Zenon DEF Inv, Typed
<1>5. Counts(o)'
  <2>a. /\ scheduled[o] - Len(out[o]) <= Parallelism(o) /\ scheduled[o] <= Total(o)
        /\ emitted[o] = Len(out[o])
        /\ stopped[o] => emitted[o] >= Total(o)
    BY <1>1, Zenon DEF Counts
  <2>b. Parallelism(o) \in Nat /\ Total(o) \in Nat
    BY WindowSize
  <2>1. Len(out'[o]) <= scheduled'[o] /\ scheduled'[o] - Len(out'[o]) <= Parallelism(o)
    <3>1. Len(out[o]) < scheduled[o] /\ Len(out'[o]) = Len(out[o]) + 1 /\ scheduled'[o] = scheduled[o]
      BY <1>1, <1>2, <1>3, Zenon
    <3>2. Len(out[o]) \in Nat /\ scheduled[o] \in Nat
      BY <1>1, Zenon
    <3>3. \A a, b, c \in Nat : a < b /\ b - a <= c => a + 1 <= b /\ b - (a + 1) <= c
      OBVIOUS
    <3> QED BY <2>a, <2>b, <3>1, <3>2, <3>3, Zenon
  <2>2. scheduled'[o] <= Total(o) /\ emitted'[o] = Len(out'[o]) /\ failed'[o] = -1
    BY <1>1, <1>2, <1>3, Zenon DEF Counts
  <2>3. ~cancelled'[o]
    BY <1>1, <1>2, Zenon DEF Counts
  <2>4. stopped'[o] => emitted'[o] >= Total(o)
    <3>1. Len(out[o]) < scheduled[o] /\ stopped'[o] = stopped[o]
      BY <1>1, <1>2, Zenon
    <3>2. ~stopped[o]
      BY <1>1, <2>a, <2>b, <3>1
    <3> QED BY <3>1, <3>2
  <2> QED BY <1>2, <1>3, <2>1, <2>2, <2>3, <2>4, Zenon DEF Counts
<1>6. Slots(o)'
  <2> SUFFICES ASSUME Live(o)'
               PROVE  /\ \A k \in 1..Len(results'[o]) :
                           /\ results'[o][k].seq \in Len(out'[o])..(scheduled'[o] - 1)
                           /\ results'[o][k].seq \notin pending'[o]
                           /\ results'[o][k].ok \/ cancelled'[o] \/ <<o, results'[o][k].seq>> \in MayFail
                      /\ \A t \in pending'[o] : t \in Len(out'[o])..(scheduled'[o] - 1)
    BY Zenon DEF Slots
  <2>1. ASSUME NEW k \in 1..Len(results'[o])
        PROVE  /\ results'[o][k].seq \in Len(out'[o])..(scheduled'[o] - 1)
               /\ results'[o][k].seq \notin pending'[o]
               /\ results'[o][k].ok \/ cancelled'[o] \/ <<o, results'[o][k].seq>> \in MayFail
    <3>1. PICK j \in 1..Len(results[o]) : results'[o][k] = results[o][j]
      BY Zenon
    <3>2. results[o][j].seq \in Len(out[o])..(scheduled[o] - 1) /\ results[o][j].seq /= s
      BY <1>1, <3>1, Zenon DEF Slots
    <3>3. results[o][j].seq \notin pending[o]
          /\ (results[o][j].ok \/ cancelled[o] \/ <<o, results[o][j].seq>> \in MayFail)
      BY <1>1, <3>1, Zenon DEF Slots
    <3>4. results[o][j].seq \in Len(out'[o])..(scheduled'[o] - 1)
      <4>1. /\ s = Len(out[o]) /\ Len(out'[o]) = Len(out[o]) + 1 /\ scheduled'[o] = scheduled[o]
            /\ Len(out[o]) \in Nat /\ scheduled[o] \in Nat
        BY <1>1, <1>2, <1>3, Zenon
      <4>2. results[o][j].seq \in (Len(out[o]) + 1)..(scheduled[o] - 1)
        BY <3>2, <4>1, LaterWindow, Zenon
      <4> QED BY <4>1, <4>2, Zenon
    <3> QED BY <1>2, <3>1, <3>3, <3>4, Zenon
  <2>2. ASSUME NEW t \in pending'[o] PROVE t \in Len(out'[o])..(scheduled'[o] - 1)
    <3>1. t \in Len(out[o])..(scheduled[o] - 1) /\ t /= s /\ s = Len(out[o])
      BY <1>1, <2>2, Zenon DEF Slots
    <3>2. t \in (Len(out[o]) + 1)..(scheduled[o] - 1)
      BY <1>1, <3>1, LaterWindow, Zenon
    <3>3. Len(out'[o]) = Len(out[o]) + 1 /\ scheduled'[o] = scheduled[o]
      BY <1>2, <1>3, Zenon
    <3> QED BY <3>2, <3>3, Zenon
  <2> QED BY <2>1, <2>2, Zenon
<1>7. ASSUME NEW t \in Nat, Reserved(o, t) PROVE Reserved(o, t)'
  <2>1. t /= s /\ t < scheduled[o] /\ Len(out[o]) <= t /\ t \notin pending[o]
        /\ \A k \in 1..Len(results[o]) : results[o][k].seq /= t
    BY <1>1, <1>7, Zenon DEF Reserved
  <2>2. t < scheduled'[o] /\ Len(out'[o]) <= t /\ t \notin pending'[o]
    BY <1>1, <1>2, <1>3, <2>1
  <2>3. ASSUME NEW k \in 1..Len(results'[o]) PROVE results'[o][k].seq /= t
    <3>1. PICK i \in 1..Len(results[o]) : results'[o][k] = results[o][i]
      BY Zenon
    <3> QED BY <2>1, <3>1, Zenon
  <2> QED BY <2>2, <2>3, Zenon DEF Reserved
<1>8. \A q \in Operations \ {o} : Same(q)
  BY Zenon DEF Emit, Leave, Same, Inv, Typed
<1> QED BY <1>2, <1>4, <1>5, <1>6, <1>7, <1>8, CallFrame, Zenon

\* next() finds the sample it has to return among those that came early.
LEMMA TakePendingStep == ASSUME Inv, NEW o \in Operations, TakePending(o) PROVE Inv'
<1> DEFINE s == emitted[o]
<1>1. /\ status[o] = "receiving" /\ s \in pending[o] /\ Emit(o, s) /\ s \in Nat
      /\ pending' = [pending EXCEPT ![o] = @ \ {s}]
      /\ UNCHANGED <<jobs, worker, scheduled, results, stopped>>
  BY Zenon DEF TakePending, poolVars, Inv, Typed
<1>2. Slots(o) /\ Live(o) /\ scheduled[o] \in Nat /\ Len(out[o]) \in Nat
  BY <1>1 DEF Inv, Typed, Live
<1>3. s < scheduled[o] /\ (\A k \in 1..Len(results[o]) : results[o][k].seq /= s)
  <2>1. s \in Len(out[o])..(scheduled[o] - 1)
    BY <1>1, <1>2, Zenon DEF Slots
  <2>2. ASSUME NEW k \in 1..Len(results[o]) PROVE results[o][k].seq /= s
    BY <1>1, <1>2, Zenon DEF Slots
  <2> QED BY <1>2, <2>1, <2>2
<1>4. \A t \in Nat : Reserved(o, t) => t /= s
  BY <1>1, <1>2, Zenon DEF Reserved
<1>5. /\ pending' \in [Operations -> SUBSET Nat] /\ pending'[o] = pending[o] \ {s}
      /\ \A q \in Operations \ {o} : pending'[q] = pending[q]
  BY <1>1, Zenon DEF Inv, Typed
<1>6. /\ results' \in [Operations -> Seq(Results)]
      /\ \A q \in Operations \ {o} : results'[q] = results[q]
  BY <1>1, Zenon DEF Inv, Typed
<1>7. \A j, k \in 1..Len(results'[o]) : results'[o][j].seq = results'[o][k].seq => j = k
  BY <1>1, <1>2, Zenon DEF Slots
<1>8. s = emitted[o] /\ pending'[o] \subseteq pending[o] /\ s \notin pending'[o]
  BY <1>5, Zenon
<1> HIDE DEF s
<1>9. \A k \in 1..Len(results'[o]) :
        results'[o][k].seq /= s /\ \E j \in 1..Len(results[o]) : results'[o][k] = results[o][j]
  BY <1>1, <1>3, Zenon
<1>10. s \in Nat /\ s < scheduled[o] /\ UNCHANGED <<jobs, worker, scheduled, stopped>>
  BY <1>1, <1>3, Zenon
<1>11. status[o] = "receiving" /\ Emit(o, s)
  BY <1>1, Zenon
<1>12. /\ results' \in [Operations -> Seq(Results)] /\ pending' \in [Operations -> SUBSET Nat]
       /\ \A q \in Operations \ {o} : results'[q] = results[q] /\ pending'[q] = pending[q]
  BY <1>5, <1>6, Zenon
<1> QED BY <1>4, <1>7, <1>8, <1>9, <1>10, <1>11, <1>12, EmitStep, Zenon

\* What is left in the result channel when the first result is taken.
LEMMA TakenResult ==
  ASSUME Inv, NEW o \in Operations, Live(o), results[o] /= <<>>,
         results' = [results EXCEPT ![o] = Tail(@)]
  PROVE  /\ results' \in [Operations -> Seq(Results)]
         /\ \A q \in Operations \ {o} : results'[q] = results[q]
         /\ Head(results[o]) \in Results /\ Head(results[o]) = results[o][1]
         /\ 1 \in 1..Len(results[o])
         /\ \A k \in 1..Len(results'[o]) :
              /\ k + 1 \in 1..Len(results[o]) /\ results'[o][k] = results[o][k + 1]
              /\ results'[o][k].seq /= Head(results[o]).seq
         /\ \A j, k \in 1..Len(results'[o]) : results'[o][j].seq = results'[o][k].seq => j = k
<1>1. results[o] \in Seq(Results) /\ Slots(o)
  BY Zenon DEF Inv, Typed
<1>2. /\ results' \in [Operations -> Seq(Results)] /\ results'[o] = Tail(results[o])
      /\ \A q \in Operations \ {o} : results'[q] = results[q]
  BY <1>1 DEF Inv, Typed
<1>3. /\ Head(results[o]) \in Results /\ Head(results[o]) = results[o][1]
      /\ Len(results[o]) \in Nat \ {0} /\ Len(results'[o]) = Len(results[o]) - 1
      /\ \A k \in 1..Len(results'[o]) : results'[o][k] = results[o][k + 1]
  BY <1>1, <1>2
<1>4. \A j, k \in 1..Len(results[o]) : results[o][j].seq = results[o][k].seq => j = k
  BY <1>1, Zenon DEF Slots
<1>5. ASSUME NEW k \in 1..Len(results'[o])
      PROVE  k + 1 \in 1..Len(results[o]) /\ results'[o][k].seq /= Head(results[o]).seq
  BY <1>3, <1>4
<1>6. ASSUME NEW j \in 1..Len(results'[o]), NEW k \in 1..Len(results'[o]),
             results'[o][j].seq = results'[o][k].seq
      PROVE  j = k
  <2>1. j + 1 = k + 1
    BY <1>3, <1>4, <1>5, <1>6
  <2> QED BY <1>3, <2>1
<1> QED BY <1>2, <1>3, <1>5, <1>6

\* The error branch: the failure is the sample's own and ends the iterator.
LEMMA FailStep ==
  ASSUME Inv, NEW o \in Operations, status[o] = "receiving", results[o] /= <<>>,
         results' = [results EXCEPT ![o] = Tail(@)], ~Head(results[o]).ok,
         Fail(o, Head(results[o]).seq), UNCHANGED <<jobs, worker, scheduled, stopped>>
  PROVE  Inv'
<1> DEFINE s == Head(results[o]).seq
<1>1. Counts(o) /\ Slots(o) /\ Live(o) /\ failed[o] = -1 /\ ~cancelled[o]
  BY Zenon DEF Inv, Counts, Live
<1>2. /\ s \in Nat /\ s \in Len(out[o])..(scheduled[o] - 1) /\ <<o, s>> \in MayFail
  <2>1. /\ Head(results[o]) \in Results /\ Head(results[o]) = results[o][1]
        /\ 1 \in 1..Len(results[o])
    BY <1>1, TakenResult, Zenon
  <2>2. s \in Len(out[o])..(scheduled[o] - 1) /\ <<o, s>> \in MayFail
    BY <1>1, <2>1, Zenon DEF Slots
  <2>3. \A r \in Results : r.seq \in Nat
    BY DEF Results
  <2> QED BY <2>1, <2>2, <2>3, Zenon
<1>3. /\ status'[o] \in {"ready", "dropped"} /\ failed'[o] = s /\ emitted'[o] = Total(o)
      /\ cancelled'[o] /\ scheduled'[o] = scheduled[o] /\ stopped'[o] = stopped[o]
      /\ out'[o] = out[o] /\ pending'[o] = pending[o]
  BY <1>2, Zenon DEF Fail, Leave, Inv, Typed
<1> HIDE DEF s
<1>4. Typed'
  <2>1. results' \in [Operations -> Seq(Results)]
    BY <1>1, TakenResult, Zenon
  <2>2. failed' \in [Operations -> Int] /\ emitted' \in [Operations -> Nat]
    <3>1. s \in Int /\ Total(o) \in Nat
      BY <1>2, WindowSize
    <3>2. failed' = [failed EXCEPT ![o] = s] /\ emitted' = [emitted EXCEPT ![o] = Total(o)]
      BY Zenon DEF Fail, s
    <3> QED BY <3>1, <3>2, Zenon DEF Inv, Typed
  <2>3. status' \in [Operations -> Statuses] /\ cancelled' \in [Operations -> BOOLEAN]
    BY Zenon DEF Fail, Leave, Inv, Typed, Statuses
  <2> QED BY <2>1, <2>2, <2>3, Zenon DEF Fail, Inv, Typed
<1>5. Counts(o)'
  <2>1. s /= -1
    BY <1>2
  <2>2. /\ scheduled[o] <= Total(o) /\ Len(out[o]) <= scheduled[o]
        /\ scheduled[o] - Len(out[o]) <= Parallelism(o)
        /\ \A k \in 1..Len(out[o]) : out[o][k] = k - 1
    BY <1>1, Zenon DEF Counts
  <2>3. failed'[o] \in Len(out'[o])..(scheduled'[o] - 1) /\ failed'[o] /= -1
    BY <1>2, <1>3, <2>1, Zenon
  <2>4. emitted'[o] >= Total(o)
    BY <1>3, WindowSize
  <2> QED BY <1>2, <1>3, <2>2, <2>3, <2>4, Zenon DEF Counts
<1>6. Slots(o)'
  <2>1. ASSUME NEW k \in 1..Len(results'[o])
        PROVE  /\ results'[o][k].seq \in Len(out[o])..(scheduled[o] - 1)
               /\ results'[o][k].seq \notin pending[o]
    <3>1. k + 1 \in 1..Len(results[o]) /\ results'[o][k] = results[o][k + 1]
      BY <1>1, TakenResult, Zenon
    <3> QED BY <1>1, <3>1, Zenon DEF Slots
  <2>2. \A j, k \in 1..Len(results'[o]) : results'[o][j].seq = results'[o][k].seq => j = k
    BY <1>1, TakenResult, Zenon
  <2>3. \A t \in pending[o] : t \in Len(out[o])..(scheduled[o] - 1)
    BY <1>1, Zenon DEF Slots
  <2> QED BY <1>3, <2>1, <2>2, <2>3, Zenon DEF Slots
<1>7. ASSUME NEW t \in Nat, Reserved(o, t) PROVE Reserved(o, t)'
  <2>1. ASSUME NEW k \in 1..Len(results'[o]) PROVE results'[o][k].seq /= t
    <3>1. k + 1 \in 1..Len(results[o]) /\ results'[o][k] = results[o][k + 1]
      BY <1>1, TakenResult, Zenon
    <3> QED BY <1>1, <1>7, <3>1, Zenon DEF Reserved
  <2> QED BY <1>1, <1>3, <1>7, <2>1, Zenon DEF Reserved
<1>8. \A q \in Operations \ {o} : Same(q)
  <2>1. \A q \in Operations \ {o} : results'[q] = results[q]
    BY <1>1, TakenResult, Zenon
  <2> QED BY <2>1, Zenon DEF Fail, Leave, Same, Inv, Typed
<1> QED BY <1>3, <1>4, <1>5, <1>6, <1>7, <1>8, CallFrame, Zenon

\* next() and get_item() receive: an error, the sample they wait for, or one
\* that is early and is kept.
LEMMA ReceiveStep == ASSUME Inv, NEW o \in Operations, ReceiveResult(o) PROVE Inv'
<1> DEFINE first == Head(results[o])
<1>1. /\ status[o] = "receiving" /\ emitted[o] \notin pending[o] /\ results[o] /= <<>>
      /\ results' = [results EXCEPT ![o] = Tail(@)]
      /\ UNCHANGED <<jobs, worker, scheduled, stopped>>
  BY Zenon DEF ReceiveResult, poolVars
<1>2. Counts(o) /\ Slots(o) /\ Live(o) /\ scheduled[o] \in Nat /\ Len(out[o]) \in Nat
  BY <1>1 DEF Inv, Typed, Live
<1>t. /\ results' \in [Operations -> Seq(Results)]
      /\ \A q \in Operations \ {o} : results'[q] = results[q]
      /\ first \in Results /\ first = results[o][1] /\ 1 \in 1..Len(results[o])
      /\ \A k \in 1..Len(results'[o]) :
           /\ k + 1 \in 1..Len(results[o]) /\ results'[o][k] = results[o][k + 1]
           /\ results'[o][k].seq /= first.seq
      /\ \A j, k \in 1..Len(results'[o]) : results'[o][j].seq = results'[o][k].seq => j = k
  BY <1>1, <1>2, TakenResult, Zenon
<1>3. /\ first \in Results /\ first.seq \in Nat /\ first.seq \in Len(out[o])..(scheduled[o] - 1)
      /\ first.seq \notin pending[o]
  <2>1. \A r \in Results : r.seq \in Nat
    BY DEF Results
  <2> HIDE DEF first
  <2>2. first.seq \in Len(out[o])..(scheduled[o] - 1) /\ first.seq \notin pending[o]
    BY <1>2, <1>t, Zenon DEF Slots
  <2> QED BY <1>t, <2>1, <2>2, Zenon
<1>4. ASSUME NEW t \in Nat, Reserved(o, t)
      PROVE  t /= first.seq /\ \A k \in 1..Len(results'[o]) : results'[o][k].seq /= t
  <2> HIDE DEF first
  <2>1. \A k \in 1..Len(results[o]) : results[o][k].seq /= t
    BY <1>2, <1>4, Zenon DEF Reserved
  <2>2. t /= first.seq
    BY <1>t, <2>1, Zenon
  <2>3. ASSUME NEW k \in 1..Len(results'[o]) PROVE results'[o][k].seq /= t
    <3>1. k + 1 \in 1..Len(results[o]) /\ results'[o][k] = results[o][k + 1]
      BY <1>t, Zenon
    <3> QED BY <2>1, <3>1, Zenon
  <2> QED BY <2>2, <2>3, Zenon
<1>5. CASE ~first.ok /\ Fail(o, first.seq)
  BY <1>1, <1>5, FailStep, Zenon
<1>6. CASE first.seq = emitted[o] /\ Emit(o, first.seq) /\ UNCHANGED pending
  <2> DEFINE s == first.seq
  <2>1. ASSUME NEW k \in 1..Len(results'[o])
        PROVE  results'[o][k].seq /= s /\ \E j \in 1..Len(results[o]) : results'[o][k] = results[o][j]
    <3>1. /\ k + 1 \in 1..Len(results[o]) /\ results'[o][k] = results[o][k + 1]
          /\ results'[o][k].seq /= s
      BY <1>t, Zenon
    <3> QED BY <3>1, Zenon
  <2>2. /\ results' \in [Operations -> Seq(Results)]
        /\ \A q \in Operations \ {o} : results'[q] = results[q]
        /\ \A j, k \in 1..Len(results'[o]) : results'[o][j].seq = results'[o][k].seq => j = k
    BY <1>t, Zenon
  <2>3. s \in Nat /\ s < scheduled[o] /\ s = emitted[o] /\ Emit(o, s)
    BY <1>2, <1>3, <1>6
  <2>4. /\ pending' \in [Operations -> SUBSET Nat] /\ s \notin pending'[o]
        /\ pending'[o] \subseteq pending[o] /\ \A q \in Operations \ {o} : pending'[q] = pending[q]
    BY <1>3, <1>6, Zenon DEF Inv, Typed
  <2>5. \A t \in Nat : Reserved(o, t) => t /= s
    BY <1>4, Zenon
  <2>6. status[o] = "receiving" /\ UNCHANGED <<jobs, worker, scheduled, stopped>>
    BY <1>1, Zenon
  <2> HIDE DEF s
  <2> QED BY <2>1, <2>2, <2>3, <2>4, <2>5, <2>6, EmitStep, Zenon
<1>7. CASE /\ first.ok /\ first.seq /= emitted[o]
           /\ pending' = [pending EXCEPT ![o] = @ \cup {first.seq}]
           /\ UNCHANGED <<gil, status, emitted, cancelled, out, failed>>
  <2>1. pending' \in [Operations -> SUBSET Nat] /\ pending'[o] = pending[o] \cup {first.seq}
        /\ results' \in [Operations -> Seq(Results)]
    <3>1. results' \in [Operations -> Seq(Results)]
      BY <1>t, Zenon
    <3>2. pending \in [Operations -> SUBSET Nat]
      BY Zenon DEF Inv, Typed
    <3> HIDE DEF first
    <3>3. pending[o] \cup {first.seq} \in SUBSET Nat
      BY <1>3, <3>2
    <3> QED BY <1>7, <3>1, <3>2, <3>3, Zenon
  <2>2. Typed'
    BY <1>1, <1>7, <2>1, Zenon DEF Inv, Typed
  <2>3. Counts(o)'
    BY <1>1, <1>2, <1>7, Zenon DEF Counts, Live
  <2>4. Slots(o)'
    <3>1. ASSUME NEW k \in 1..Len(results'[o])
          PROVE  /\ results'[o][k].seq \in Len(out[o])..(scheduled[o] - 1)
                 /\ results'[o][k].seq \notin pending'[o]
                 /\ results'[o][k].ok \/ cancelled[o] \/ <<o, results'[o][k].seq>> \in MayFail
      <4>1. /\ k + 1 \in 1..Len(results[o]) /\ results'[o][k] = results[o][k + 1]
            /\ results'[o][k].seq /= first.seq
        BY <1>t, Zenon
      <4> QED BY <1>2, <2>1, <4>1, Zenon DEF Slots
    <3>2. \A j, k \in 1..Len(results'[o]) : results'[o][j].seq = results'[o][k].seq => j = k
      BY <1>t, Zenon
    <3>3. \A t \in pending'[o] : t \in Len(out[o])..(scheduled[o] - 1)
      BY <1>2, <1>3, <2>1, Zenon DEF Slots
    <3> QED BY <1>1, <1>7, <3>1, <3>2, <3>3, Zenon DEF Slots
  <2>5. ASSUME NEW t \in Nat, Reserved(o, t) PROVE Reserved(o, t)'
    <3>1. t /= first.seq /\ \A k \in 1..Len(results'[o]) : results'[o][k].seq /= t
      BY <1>4, <2>5, Zenon
    <3>2. t < scheduled[o] /\ Len(out[o]) <= t /\ t \notin pending'[o]
      BY <1>2, <2>1, <2>5, <3>1, Zenon DEF Reserved
    <3> QED BY <1>1, <1>7, <3>1, <3>2, Zenon DEF Reserved
  <2>6. \A q \in Operations \ {o} : Same(q)
    <3>1. \A q \in Operations \ {o} : results'[q] = results[q]
      BY <1>t, Zenon
    <3> QED BY <1>1, <1>7, <3>1, Zenon DEF Same, Inv, Typed
  <2> QED BY <1>1, <1>7, <2>2, <2>3, <2>4, <2>5, <2>6, CallFrame, Zenon
<1> QED BY <1>5, <1>6, <1>7, Zenon DEF ReceiveResult

\* schedule_next: the new job has the next sequence number, which nothing that is
\* on its way has, and the loop condition leaves room for its result.
LEMMA ScheduleStep ==
  ASSUME Inv, NEW o \in Operations, ScheduleNext(o), NEW n \in Nat, n = scheduled[o]
  PROVE  Inv'
<1> DEFINE job == [op |-> o, seq |-> n]
<1>1. /\ status[o] \in {"starting", "scheduling"} /\ WindowOpen(o)
      /\ jobs' = Append(jobs, job) /\ scheduled' = [scheduled EXCEPT ![o] = n + 1]
      /\ UNCHANGED <<worker, status, emitted, cancelled, results, pending, out, failed, stopped>>
  BY Zenon DEF ScheduleNext
<1>2. /\ Counts(o) /\ Slots(o) /\ Live(o) /\ failed[o] = -1 /\ emitted[o] = Len(out[o])
      /\ Len(out[o]) \in Nat /\ job \in Jobs /\ scheduled'[o] = n + 1
  BY <1>1, Zenon DEF Inv, Typed, Counts, Live, Jobs
<1>3. /\ jobs \in Seq(Jobs) /\ Len(jobs) \in Nat /\ Len(jobs') = Len(jobs) + 1
      /\ jobs'[Len(jobs) + 1] = job /\ \A p \in 1..Len(jobs) : jobs'[p] = jobs[p]
  BY <1>1, <1>2 DEF Inv, Typed
<1>4. Typed'
  <2>1. scheduled' \in [Operations -> Nat]
    <3>1. n + 1 \in Nat
      OBVIOUS
    <3> QED BY <1>1, <3>1, Zenon DEF Inv, Typed
  <2> HIDE DEF job
  <2>2. jobs' \in Seq(Jobs)
    <3>1. \A q \in Seq(Jobs), e \in Jobs : Append(q, e) \in Seq(Jobs)
      OBVIOUS
    <3> QED BY <1>1, <1>2, <1>3, <3>1, Zenon
  <2> QED BY <1>1, <2>1, <2>2, Zenon DEF Inv, Typed
<1>5. ASSUME NEW q \in Operations, NEW s \in Nat, Reserved(q, s)
      PROVE  Reserved(q, s)' /\ (q = o => s /= n)
  <2>1. s < scheduled[q] /\ scheduled[q] \in Nat
    BY <1>5, Zenon DEF Reserved, Inv, Typed
  <2>2. s < scheduled'[q]
    BY <1>1, <1>2, <2>1 DEF Inv, Typed
  <2>3. Reserved(q, s)'
    BY <1>1, <1>5, <2>2, Zenon DEF Reserved, Live
  <2> QED BY <2>1, <2>3
<1>6. Reserved(o, n)'
  <2>1. n < scheduled'[o] /\ Len(out[o]) <= n
    <3>1. Len(out[o]) <= n /\ scheduled'[o] = n + 1
      BY <1>2, Zenon DEF Counts
    <3>2. n < n + 1
      OBVIOUS
    <3> QED BY <3>1, <3>2, Zenon
  <2>2. n \notin pending[o]
    <3>1. \A s \in pending[o] : s \in Len(out[o])..(n - 1)
      BY <1>2, Zenon DEF Slots
    <3>2. n \notin Len(out[o])..(n - 1)
      BY <1>2
    <3> QED BY <3>1, <3>2, Zenon
  <2>3. ASSUME NEW k \in 1..Len(results[o]) PROVE results[o][k].seq /= n
    <3>1. results[o][k].seq \in Len(out[o])..(n - 1)
      BY <1>2, Zenon DEF Slots
    <3> QED BY <1>2, <3>1
  <2> QED BY <1>1, <2>1, <2>2, <2>3, Zenon DEF Reserved
<1>7. ASSUME NEW j \in Jobs, Reserved(j.op, j.seq) PROVE Reserved(j.op, j.seq)' /\ j /= job
  BY <1>5, <1>7, JobFields
<1>8. job.op = o /\ job.seq = n
  BY Zenon
<1> HIDE DEF job
<1>9. \A j : Queued(j)' <=> Queued(j) \/ j = job
  <2>1. ASSUME NEW j, Queued(j)' PROVE Queued(j) \/ j = job
    <3>1. PICK p \in 1..Len(jobs') : jobs'[p] = j
      BY <2>1, Zenon DEF Queued
    <3> QED BY <1>3, <3>1 DEF Queued
  <2>2. ASSUME NEW j, Queued(j) \/ j = job PROVE Queued(j)'
    <3>1. \E p \in 1..Len(jobs') : jobs'[p] = j
      BY <1>3, <2>2 DEF Queued
    <3> QED BY <3>1, Zenon DEF Queued
  <2> QED BY <2>1, <2>2, Zenon
<1>10. QueueInv'
  <2>1. ASSUME NEW j \in Jobs, Queued(j)' PROVE Reserved(j.op, j.seq)'
    <3>1. CASE j = job
      BY <1>6, <1>8, <3>1, Zenon
    <3>2. CASE Queued(j)
      BY <1>7, <3>2, Zenon DEF Inv, QueueInv
    <3> QED BY <1>9, <2>1, <3>1, <3>2, Zenon
  <2>2. \A p \in 1..Len(jobs) : jobs[p] /= job
    <3>1. ~Queued(job)
      BY <1>2, <1>7, Zenon DEF Inv, QueueInv
    <3> QED BY <3>1, Zenon DEF Queued
  <2>3. \A p, q \in 1..Len(jobs) : jobs[p] = jobs[q] => p = q
    BY Zenon DEF Inv, QueueInv
  <2>4. ASSUME NEW p \in 1..Len(jobs'), NEW q \in 1..Len(jobs'), jobs'[p] = jobs'[q] PROVE p = q
    <3>1. p \in 1..Len(jobs) \/ p = Len(jobs) + 1
      BY <1>3
    <3>2. q \in 1..Len(jobs) \/ q = Len(jobs) + 1
      BY <1>3
    <3> QED BY <1>3, <2>2, <2>3, <2>4, <3>1, <3>2, Zenon
  <2> QED BY <2>1, <2>4, Zenon DEF QueueInv
<1>11. WorkersInv'
  <2>1. \A w, j : Holding(w, j)' <=> Holding(w, j)
    BY <1>1, Zenon DEF Holding, Busy
  <2> QED BY <1>1, <1>7, <1>9, <2>1, Zenon DEF Inv, WorkersInv, Busy
<1>12. Counts(o)'
  <2>1. scheduled'[o] <= Total(o) /\ Len(out[o]) <= scheduled'[o]
        /\ scheduled'[o] - Len(out[o]) <= Parallelism(o)
    BY <1>1, <1>2, WindowSize DEF WindowOpen, Counts
  <2> QED BY <1>1, <1>2, <2>1, Zenon DEF Counts, Live
<1>13. Slots(o)'
  <2>1. ASSUME NEW k \in 1..Len(results[o])
        PROVE  results[o][k].seq \in Len(out[o])..(scheduled'[o] - 1)
    <3>1. results[o][k].seq \in Len(out[o])..(n - 1)
      BY <1>2, Zenon DEF Slots
    <3> QED BY <1>2, <3>1
  <2>2. \A s \in pending[o] : s \in Len(out[o])..(scheduled'[o] - 1)
    <3>1. \A s \in pending[o] : s \in Len(out[o])..(n - 1)
      BY <1>2, Zenon DEF Slots
    <3>2. \A s \in Len(out[o])..(n - 1) : s \in Len(out[o])..(scheduled'[o] - 1)
      BY <1>2
    <3> QED BY <3>1, <3>2, Zenon
  <2> QED BY <1>1, <1>2, <2>1, <2>2, Zenon DEF Slots, Live
<1>14. ASSUME NEW q \in Operations, q /= o PROVE Counts(q)' /\ Slots(q)'
  <2>1. Same(q)
    BY <1>1, <1>14, Zenon DEF Same, Inv, Typed
  <2> QED BY <2>1, Untouched, Zenon DEF Inv
<1> QED BY <1>4, <1>10, <1>11, <1>12, <1>13, <1>14, Zenon DEF Inv

\* A step of the pool that touches no operation keeps the invariant if it keeps
\* the part about the queue and the workers.
LEMMA PoolFrame ==
  ASSUME Inv, Typed', UNCHANGED opVars,
         \A j \in Jobs : Queued(j)' => Queued(j),
         \A p, q \in 1..Len(jobs') : jobs'[p] = jobs'[q] => p = q,
         \A w \in Workers, j \in Jobs : Holding(w, j)' =>
           /\ Reserved(j.op, j.seq) /\ ~Queued(j)'
           /\ \A v \in Workers : Holding(v, j)' => v = w
           /\ worker'[w].phase = "deliver" =>
                worker'[w].ok \/ cancelled[j.op] \/ <<j.op, j.seq>> \in MayFail,
         \A w \in Workers : Busy(w)' => worker'[w].job \in Jobs
  PROVE  Inv'
<1>1. \A o, s : Reserved(o, s)' <=> Reserved(o, s)
  BY Zenon DEF opVars, Reserved, Live
<1>2. \A o \in Operations : Counts(o)' /\ Slots(o)'
  BY Untouched, Zenon DEF Inv, Same, opVars
<1>3. QueueInv'
  BY <1>1, Zenon DEF Inv, QueueInv
<1>4. WorkersInv'
  BY <1>1, Zenon DEF Inv, WorkersInv, opVars
<1> QED BY <1>2, <1>3, <1>4, Zenon DEF Inv

\* A worker takes the first job of the queue, which is then nowhere else.
LEMMA TakeJobStep ==
  ASSUME Inv, NEW w \in Workers, TakeJob(w), NEW h, h = Head(jobs)
  PROVE  Inv'
<1>1. /\ worker[w].phase = "idle" /\ jobs /= <<>> /\ jobs' = Tail(jobs)
      /\ worker' = [worker EXCEPT ![w] = [phase |-> "taken", job |-> h, ok |-> FALSE]]
      /\ UNCHANGED opVars
  BY Zenon DEF TakeJob
<1>2. /\ jobs \in Seq(Jobs) /\ h \in Jobs /\ h = jobs[1] /\ Len(jobs) \in Nat \ {0}
      /\ Len(jobs') = Len(jobs) - 1 /\ \A p \in 1..Len(jobs') : jobs'[p] = jobs[p + 1]
  BY <1>1 DEF Inv, Typed
<1>3. Typed'
  <2>1. [phase |-> "taken", job |-> h, ok |-> FALSE] \in [phase : Phases, job : Jobs \cup {NoJob}, ok : BOOLEAN]
    BY <1>2, Zenon DEF Phases
  <2>2. worker' \in [Workers -> [phase : Phases, job : Jobs \cup {NoJob}, ok : BOOLEAN]]
    BY <1>1, <2>1, Zenon DEF Inv, Typed
  <2>3. jobs' \in Seq(Jobs)
    BY <1>1, <1>2
  <2> QED BY <1>1, <2>2, <2>3, Zenon DEF Inv, Typed, opVars
<1>4. \A p, q \in 1..Len(jobs) : jobs[p] = jobs[q] => p = q
  BY Zenon DEF Inv, QueueInv
<1>5. ASSUME NEW p \in 1..Len(jobs') PROVE p + 1 \in 1..Len(jobs) /\ jobs'[p] /= h
  BY <1>2, <1>4
<1>6. ASSUME NEW p \in 1..Len(jobs'), NEW q \in 1..Len(jobs'), jobs'[p] = jobs'[q] PROVE p = q
  <2>1. p + 1 \in 1..Len(jobs) /\ q + 1 \in 1..Len(jobs) /\ jobs[p + 1] = jobs[q + 1]
    BY <1>2, <1>5, <1>6, Zenon
  <2>2. p + 1 = q + 1
    BY <1>4, <2>1, Zenon
  <2> QED BY <1>2, <2>2
<1>7. ASSUME NEW j \in Jobs, Queued(j)' PROVE Queued(j) /\ j /= h
  <2>1. PICK p \in 1..Len(jobs') : jobs'[p] = j
    BY <1>7, Zenon DEF Queued
  <2>2. p + 1 \in 1..Len(jobs) /\ jobs[p + 1] = j /\ j /= h
    BY <1>2, <1>5, <2>1, Zenon
  <2> QED BY <2>2, Zenon DEF Queued
<1>8. Queued(h)
  BY <1>2 DEF Queued
<1>9. /\ worker'[w].phase = "taken" /\ worker'[w].job = h
      /\ \A v \in Workers : v /= w => worker'[v] = worker[v]
  BY <1>1, Zenon DEF Inv, Typed
<1>10. ASSUME NEW v \in Workers, NEW j \in Jobs
       PROVE  Holding(v, j)' <=> (IF v = w THEN j = h ELSE Holding(v, j))
  BY <1>9, Zenon DEF Holding, Busy
<1>11. ASSUME NEW v \in Workers, NEW j \in Jobs, Holding(v, j)'
       PROVE  /\ Reserved(j.op, j.seq) /\ ~Queued(j)'
              /\ \A u \in Workers : Holding(u, j)' => u = v
              /\ worker'[v].phase = "deliver" =>
                   worker'[v].ok \/ cancelled[j.op] \/ <<j.op, j.seq>> \in MayFail
  <2>1. CASE v = w
    <3>1. j = h
      BY <1>10, <1>11, <2>1, Zenon
    <3>2. Reserved(j.op, j.seq) /\ ~Queued(j)'
      BY <1>7, <1>8, <3>1, Zenon DEF Inv, QueueInv
    <3>3. \A u \in Workers : ~Holding(u, j)
      BY <1>8, <3>1, Zenon DEF Inv, WorkersInv
    <3> QED BY <1>9, <1>10, <2>1, <3>2, <3>3, Zenon
  <2>2. CASE v /= w
    <3>1. Holding(v, j) /\ j /= h
      BY <1>8, <1>10, <1>11, <2>2, Zenon DEF Inv, WorkersInv
    <3>2. /\ Reserved(j.op, j.seq) /\ ~Queued(j) /\ \A u \in Workers : Holding(u, j) => u = v
          /\ worker[v].phase = "deliver" =>
               worker[v].ok \/ cancelled[j.op] \/ <<j.op, j.seq>> \in MayFail
      BY <3>1, Zenon DEF Inv, WorkersInv
    <3> QED BY <1>7, <1>9, <1>10, <2>2, <3>1, <3>2, Zenon
  <2> QED BY <2>1, <2>2, Zenon
<1>12. \A v \in Workers : Busy(v)' => worker'[v].job \in Jobs
  BY <1>2, <1>9, Zenon DEF Busy, Inv, WorkersInv
<1> QED BY <1>1, <1>3, <1>6, <1>7, <1>11, <1>12, PoolFrame, Zenon

\* Reading, and ending when the pool is gone, move no job.
LEMMA ReadStep ==
  ASSUME Inv, NEW w \in Workers, BeginRead(w) \/ EndRead(w) \/ WorkerExit(w)
  PROVE  Inv'
<1> DEFINE Records == [phase : Phases, job : Jobs \cup {NoJob}, ok : BOOLEAN]
<1>1. worker \in [Workers -> Records] /\ worker[w] \in Records
  BY Zenon DEF Inv, Typed
<1>2. /\ jobs' = jobs /\ UNCHANGED opVars
      /\ \A v \in Workers : v /= w => worker'[v] = worker[v]
  BY <1>1, Zenon DEF BeginRead, EndRead, WorkerExit
<1>3. /\ worker' \in [Workers -> Records] /\ worker'[w].job = worker[w].job
      /\ Busy(w)' <=> Busy(w)
  <2>1. CASE BeginRead(w)
    <3>1. PICK phase \in {"deliver", "reading"} : worker' = [worker EXCEPT ![w].phase = phase]
      BY <2>1, Zenon DEF BeginRead
    <3>2. phase \in Phases
      BY Zenon DEF Phases
    <3>3. worker[w].phase = "taken"
      BY <2>1, Zenon DEF BeginRead
    <3> QED BY <1>1, <3>1, <3>2, <3>3, Zenon DEF Busy
  <2>2. CASE EndRead(w)
    <3>1. PICK ok \in BOOLEAN :
            worker' = [worker EXCEPT ![w] = [phase |-> "deliver", job |-> worker[w].job, ok |-> ok]]
      BY <2>2, Zenon DEF EndRead
    <3>2. [phase |-> "deliver", job |-> worker[w].job, ok |-> ok] \in Records
      BY <1>1, Zenon DEF Phases
    <3>3. worker[w].phase = "reading"
      BY <2>2, Zenon DEF EndRead
    <3> QED BY <1>1, <3>1, <3>2, <3>3, Zenon DEF Busy
  <2>3. CASE WorkerExit(w)
    <3>1. worker' = [worker EXCEPT ![w].phase = "exited"] /\ worker[w].phase = "idle"
      BY <2>3, Zenon DEF WorkerExit
    <3>2. "exited" \in Phases
      BY Zenon DEF Phases
    <3> QED BY <1>1, <3>1, <3>2, Zenon DEF Busy
  <2> QED BY <2>1, <2>2, <2>3, Zenon
<1>4. Typed'
  BY <1>2, <1>3, Zenon DEF Inv, Typed, opVars
<1>5. \A v \in Workers, j \in Jobs : Holding(v, j)' <=> Holding(v, j)
  BY <1>2, <1>3, Zenon DEF Holding, Busy
<1>6. \A j \in Jobs : Queued(j)' <=> Queued(j)
  BY <1>2, Zenon DEF Queued
<1>7. ASSUME NEW j \in Jobs, Holding(w, j), worker'[w].phase = "deliver"
      PROVE  worker'[w].ok \/ cancelled[j.op] \/ <<j.op, j.seq>> \in MayFail
  <2>1. worker[w].job = j
    BY <1>7, Zenon DEF Holding
  <2>2. CASE BeginRead(w)
    BY <1>1, <1>7, <2>1, <2>2, Zenon DEF BeginRead
  <2>3. CASE EndRead(w)
    <3>1. PICK success \in BOOLEAN :
            /\ success \/ <<j.op, j.seq>> \in MayFail
            /\ worker' = [worker EXCEPT ![w] =
                            [phase |-> "deliver", job |-> j, ok |-> success /\ ~cancelled[j.op]]]
      BY <2>1, <2>3, Zenon DEF EndRead
    <3>2. worker'[w].ok = (success /\ ~cancelled[j.op])
      BY <1>1, <3>1, Zenon
    <3> QED BY <3>1, <3>2, Zenon
  <2>4. CASE WorkerExit(w)
    BY <1>1, <1>7, <2>4, Zenon DEF WorkerExit
  <2> QED BY <2>2, <2>3, <2>4, Zenon
<1>8. ASSUME NEW v \in Workers, NEW j \in Jobs, Holding(v, j)'
      PROVE  /\ Reserved(j.op, j.seq) /\ ~Queued(j)'
             /\ \A u \in Workers : Holding(u, j)' => u = v
             /\ worker'[v].phase = "deliver" =>
                  worker'[v].ok \/ cancelled[j.op] \/ <<j.op, j.seq>> \in MayFail
  <2>1. Holding(v, j)
    BY <1>5, <1>8, Zenon
  <2>2. Reserved(j.op, j.seq) /\ ~Queued(j) /\ \A u \in Workers : Holding(u, j) => u = v
    BY <2>1, Zenon DEF Inv, WorkersInv
  <2>3. worker'[v].phase = "deliver" =>
          worker'[v].ok \/ cancelled[j.op] \/ <<j.op, j.seq>> \in MayFail
    BY <1>2, <1>7, <2>1, Zenon DEF Inv, WorkersInv
  <2> QED BY <1>5, <1>6, <2>2, <2>3, Zenon
<1>9. \A v \in Workers : Busy(v)' => worker'[v].job \in Jobs
  BY <1>2, <1>3, Zenon DEF Busy, Inv, WorkersInv
<1>10. \A p, q \in 1..Len(jobs') : jobs'[p] = jobs'[q] => p = q
  BY <1>2, Zenon DEF Inv, QueueInv
<1> QED BY <1>2, <1>4, <1>6, <1>8, <1>9, <1>10, PoolFrame, Zenon

\* The wrapper of submit hands over the result: it takes the slot that was
\* reserved for its sequence number, unless the operation is gone.
LEMMA DeliverStep ==
  ASSUME Inv, NEW w \in Workers, Deliver(w), NEW j, j = worker[w].job, NEW ok, ok = worker[w].ok
  PROVE  Inv'
<1> DEFINE o == j.op
           r == [seq |-> j.seq, ok |-> ok]
<1>1. /\ worker[w].phase = "deliver" /\ worker' = [worker EXCEPT ![w] = Idle]
      /\ UNCHANGED <<jobs, status, scheduled, emitted, cancelled, pending, out, failed, stopped>>
  BY Zenon DEF Deliver
<1>2. /\ Holding(w, j) /\ j \in Jobs /\ o \in Operations /\ j.seq \in Nat /\ ok \in BOOLEAN
      /\ r \in Results
  BY <1>1, JobFields, Zenon DEF Holding, Busy, Inv, WorkersInv, Typed, Results
<1>3. /\ Reserved(o, j.seq) /\ ~Queued(j) /\ (\A v \in Workers : Holding(v, j) => v = w)
      /\ ok \/ cancelled[o] \/ <<o, j.seq>> \in MayFail
  BY <1>1, <1>2, Zenon DEF Inv, WorkersInv
<1>4. /\ worker' \in [Workers -> [phase : Phases, job : Jobs \cup {NoJob}, ok : BOOLEAN]]
      /\ ~Busy(w)' /\ \A v \in Workers : v /= w => worker'[v] = worker[v]
  <2>1. Idle \in [phase : Phases, job : Jobs \cup {NoJob}, ok : BOOLEAN]
    BY Zenon DEF Idle, Phases
  <2> QED BY <1>1, <2>1, Zenon DEF Inv, Typed, Busy, Idle
<1>5. /\ Live(o) => results' = [results EXCEPT ![o] = Append(@, r)]
      /\ ~Live(o) => results' = results
  BY Zenon DEF Deliver
<1>6. r.seq = j.seq /\ r.ok = ok
  BY Zenon
<1> HIDE DEF o, r
<1>7. /\ results' \in [Operations -> Seq(Results)]
      /\ \A q \in Operations : q /= o \/ ~Live(q) => results'[q] = results[q]
  <2>1. CASE Live(o)
    <3>1. results \in [Operations -> Seq(Results)] /\ Append(results[o], r) \in Seq(Results)
      BY <1>2 DEF Inv, Typed
    <3>2. results' = [results EXCEPT ![o] = Append(results[o], r)]
      BY <1>5, <2>1, Zenon
    <3>3. results' \in [Operations -> Seq(Results)]
      BY <3>1, <3>2, Zenon
    <3>4. \A q \in Operations : q /= o => results'[q] = results[q]
      BY <3>1, <3>2, Zenon
    <3> QED BY <2>1, <3>3, <3>4, Zenon
  <2>2. CASE ~Live(o)
    BY <1>5, <2>2, Zenon DEF Inv, Typed
  <2> QED BY <2>1, <2>2, Zenon
<1>8. ASSUME Live(o)
      PROVE  /\ Len(results[o]) \in Nat /\ Len(results'[o]) = Len(results[o]) + 1
             /\ results'[o][Len(results[o]) + 1] = r
             /\ \A k \in 1..Len(results[o]) : results'[o][k] = results[o][k]
  <2>1. results[o] \in Seq(Results) /\ results'[o] = Append(results[o], r)
    BY <1>2, <1>5, <1>8, Zenon DEF Inv, Typed
  <2> QED BY <1>2, <2>1
<1>9. Typed'
  BY <1>1, <1>4, <1>7, Zenon DEF Inv, Typed
<1>10. ASSUME NEW q \in Operations, NEW s \in Nat, Reserved(q, s), q = o => s /= j.seq
       PROVE  Reserved(q, s)'
  <2>1. CASE q = o /\ Live(o)
    <3>1. \A k \in 1..Len(results'[o]) : results'[o][k].seq /= s
      <4>1. /\ \A k \in 1..Len(results[o]) : results[o][k].seq /= s
            /\ s /= j.seq
        BY <1>10, <2>1, Zenon DEF Reserved
      <4>2. \A k \in 1..Len(results'[o]) : k \in 1..Len(results[o]) \/ k = Len(results[o]) + 1
        BY <1>8, <2>1
      <4> QED BY <1>6, <1>8, <2>1, <4>1, <4>2, Zenon
    <3> QED BY <1>1, <1>10, <2>1, <3>1, Zenon DEF Reserved
  <2>2. CASE ~(q = o /\ Live(o))
    <3>1. results'[q] = results[q]
      BY <1>7, <2>2, Zenon
    <3> QED BY <1>1, <1>10, <3>1, Zenon DEF Reserved, Live
  <2> QED BY <2>1, <2>2, Zenon
<1>11. ASSUME NEW x \in Jobs, Reserved(x.op, x.seq), x /= j PROVE Reserved(x.op, x.seq)'
  BY <1>2, <1>10, <1>11, JobFields, Zenon DEF o
<1>12. \A x : Queued(x)' <=> Queued(x)
  BY <1>1, Zenon DEF Queued
<1>13. \A v \in Workers, x \in Jobs : Holding(v, x)' <=> Holding(v, x) /\ v /= w
  BY <1>4, Zenon DEF Holding, Busy
<1>14. QueueInv'
  BY <1>1, <1>3, <1>11, <1>12, Zenon DEF Inv, QueueInv
<1>15. WorkersInv'
  <2>1. ASSUME NEW v \in Workers, NEW x \in Jobs, Holding(v, x)'
        PROVE  /\ Reserved(x.op, x.seq)' /\ ~Queued(x)'
               /\ \A u \in Workers : Holding(u, x)' => u = v
               /\ worker'[v].phase = "deliver" =>
                    worker'[v].ok \/ cancelled'[x.op] \/ <<x.op, x.seq>> \in MayFail
    <3>1. Holding(v, x) /\ v /= w /\ x /= j
      BY <1>3, <1>13, <2>1, Zenon
    <3>2. /\ Reserved(x.op, x.seq) /\ ~Queued(x) /\ \A u \in Workers : Holding(u, x) => u = v
          /\ worker[v].phase = "deliver" =>
               worker[v].ok \/ cancelled[x.op] \/ <<x.op, x.seq>> \in MayFail
      BY <3>1, Zenon DEF Inv, WorkersInv
    <3>3. Reserved(x.op, x.seq)'
      BY <1>11, <3>1, <3>2, Zenon
    <3> QED BY <1>1, <1>4, <1>12, <1>13, <3>1, <3>2, <3>3, Zenon
  <2>2. \A v \in Workers : Busy(v)' => worker'[v].job \in Jobs
    BY <1>4, Zenon DEF Busy, Inv, WorkersInv
  <2> QED BY <2>1, <2>2, Zenon DEF WorkersInv
<1>16. Counts(o)'
  <2>1. Counts(o) /\ (status[o] = "new" => results'[o] = results[o])
    BY <1>2, <1>7, Zenon DEF Inv, Live
  <2> QED BY <1>1, <2>1, Zenon DEF Counts, Live
<1>17. Slots(o)'
  <2>1. CASE ~Live(o)
    BY <1>1, <2>1, Zenon DEF Slots, Live
  <2>2. CASE Live(o)
    <3>1. /\ Slots(o) /\ scheduled[o] \in Nat /\ Len(out[o]) \in Nat
      BY <1>2 DEF Inv, Typed
    <3>2. /\ j.seq \in Len(out[o])..(scheduled[o] - 1) /\ j.seq \notin pending[o]
          /\ \A k \in 1..Len(results[o]) : results[o][k].seq /= j.seq
      <4>1. /\ j.seq < scheduled[o] /\ Len(out[o]) <= j.seq /\ j.seq \notin pending[o]
            /\ \A k \in 1..Len(results[o]) : results[o][k].seq /= j.seq
        BY <1>3, <2>2, Zenon DEF Reserved
      <4>2. \A s, a, b \in Nat : s < b /\ a <= s => s \in a..(b - 1)
        OBVIOUS
      <4> QED BY <1>2, <3>1, <4>1, <4>2, Zenon
    <3>3. ASSUME NEW k \in 1..Len(results'[o])
          PROVE  /\ results'[o][k].seq \in Len(out[o])..(scheduled[o] - 1)
                 /\ results'[o][k].seq \notin pending[o]
                 /\ results'[o][k].ok \/ cancelled[o] \/ <<o, results'[o][k].seq>> \in MayFail
      <4>1. CASE k = Len(results[o]) + 1
        BY <1>3, <1>6, <1>8, <2>2, <3>2, <4>1, Zenon
      <4>2. CASE k \in 1..Len(results[o])
        BY <1>8, <2>2, <3>1, <4>2, Zenon DEF Slots
      <4>3. k \in 1..Len(results[o]) \/ k = Len(results[o]) + 1
        BY <1>8, <2>2
      <4> QED BY <4>1, <4>2, <4>3, Zenon
    <3>4. ASSUME NEW k \in 1..Len(results'[o]), NEW l \in 1..Len(results'[o]),
                 results'[o][k].seq = results'[o][l].seq
          PROVE  k = l
      <4>1. /\ k \in 1..Len(results[o]) \/ k = Len(results[o]) + 1
            /\ l \in 1..Len(results[o]) \/ l = Len(results[o]) + 1
        BY <1>8, <2>2
      <4>2. \A m, n \in 1..Len(results[o]) : results[o][m].seq = results[o][n].seq => m = n
        BY <2>2, <3>1, Zenon DEF Slots
      <4>3. CASE k \in 1..Len(results[o]) /\ l \in 1..Len(results[o])
        BY <1>8, <2>2, <3>4, <4>2, <4>3, Zenon
      <4>4. CASE k \in 1..Len(results[o]) /\ l = Len(results[o]) + 1
        BY <1>6, <1>8, <2>2, <3>2, <3>4, <4>4, Zenon
      <4>5. CASE k = Len(results[o]) + 1 /\ l \in 1..Len(results[o])
        BY <1>6, <1>8, <2>2, <3>2, <3>4, <4>5, Zenon
      <4> QED BY <4>1, <4>3, <4>4, <4>5, Zenon
    <3>5. \A s \in pending[o] : s \in Len(out[o])..(scheduled[o] - 1)
      BY <2>2, <3>1, Zenon DEF Slots
    <3> QED BY <1>1, <3>3, <3>4, <3>5, Zenon DEF Slots
  <2> QED BY <2>1, <2>2, Zenon
<1>18. ASSUME NEW q \in Operations, q /= o PROVE Counts(q)' /\ Slots(q)'
  <2>1. Same(q)
    BY <1>1, <1>7, <1>18, Zenon DEF Same
  <2> QED BY <2>1, Untouched, Zenon DEF Inv
<1> QED BY <1>9, <1>14, <1>15, <1>16, <1>17, <1>18, Zenon DEF Inv

\* Every call and every step of a worker keeps the invariant.
LEMMA InvStep == Inv /\ [Next]_vars => Inv'
<1> SUFFICES ASSUME Inv, [Next]_vars PROVE Inv'
  BY Zenon
<1>1. ASSUME NEW o \in Operations,
             NEW new \in {"starting", "ready", "scheduling", "receiving"},
             status' = [status EXCEPT ![o] = new], status[o] \notin {"ready", "dropped"},
             UNCHANGED <<poolVars, scheduled, emitted, cancelled, results, pending, out, failed, stopped>>
      PROVE  Inv'
  <2>1. failed[o] = -1
    BY <1>1, Zenon DEF Inv, Counts
  <2> QED BY <1>1, <2>1, StatusStep, Zenon DEF poolVars
<1>2. ASSUME NEW i \in Iterators, StartIterator(i) \/ CallNext(i) \/ NextExhausted(i) \/ DropIterator(i)
      PROVE  Inv'
  <2>1. i \in Operations
    BY Zenon DEF Operations
  <2>2. CASE StartIterator(i)
    BY <1>1, <2>1, <2>2, Zenon DEF StartIterator, Enter
  <2>3. CASE CallNext(i)
    <3>1. failed[i] = -1
      <4>1. emitted[i] < Total(i) /\ emitted[i] \in Nat /\ Total(i) \in Nat /\ Counts(i)
        BY <2>1, <2>3, WindowSize, Zenon DEF CallNext, Inv, Typed
      <4> QED BY <4>1 DEF Counts
    <3> QED BY <2>1, <2>3, <3>1, StatusStep, Zenon DEF CallNext, Enter, poolVars
  <2> QED BY <1>2, <2>2, <2>3, ExhaustedStep, DropStep, Zenon
<1>3. ASSUME NEW g \in Gets, GetItem(g) PROVE Inv'
  BY <1>1, <1>3, Zenon DEF GetItem, Enter, Operations
<1>4. ASSUME NEW o \in Operations, CallStep(o) PROVE Inv'
  <2>1. CASE ScheduleNext(o)
    <3>1. scheduled[o] \in Nat
      BY Zenon DEF Inv, Typed
    <3> QED BY <2>1, <3>1, ScheduleStep, Zenon
  <2>2. CASE ScheduleDone(o)
    BY <1>1, <2>2, Zenon DEF ScheduleDone, Leave
  <2> QED BY <1>4, <2>1, <2>2, TakePendingStep, ReceiveStep, Zenon DEF CallStep
<1>5. CASE UNCHANGED <<jobs, worker, opVars>>
  <2>1. Typed'
    BY <1>5, Zenon DEF Inv, Typed, opVars
  <2>2. \A j : Queued(j)' <=> Queued(j)
    BY <1>5, Zenon DEF Queued
  <2>3. \A w, j : Holding(w, j)' <=> Holding(w, j)
    BY <1>5, Zenon DEF Holding, Busy
  <2> QED BY <1>5, <2>1, <2>2, <2>3, PoolFrame, Zenon DEF Inv, QueueInv, WorkersInv, Busy
<1>6. CASE ReleaseRuntime
  BY <1>5, <1>6, Zenon DEF ReleaseRuntime
<1>7. ASSUME NEW w \in Workers, WorkerStep(w) PROVE Inv'
  BY <1>7, TakeJobStep, ReadStep, DeliverStep, Zenon DEF WorkerStep
<1>8. CASE UNCHANGED vars
  BY <1>5, <1>8, Zenon DEF vars, poolVars
<1>9. CASE Finished
  BY <1>8, <1>9, Zenon DEF Finished
<1> QED BY <1>2, <1>3, <1>4, <1>6, <1>7, <1>8, <1>9, Zenon DEF Next

\* The invariant holds in every reachable state.
THEOREM ReaderInvariant == Spec => []Inv
<1> QED BY InvInit, InvStep, PTL DEF Spec

\* Samples reach Python in the order of the plan, none skipped and none twice,
\* with any number of workers, iterators and get_item calls on one pool.
THEOREM PlanOrderHolds == Spec => []PlanOrder
<1>1. Inv => PlanOrder
  BY Zenon DEF Inv, Counts, PlanOrder
<1> QED BY <1>1, ReaderInvariant, PTL

\* Python is told that an iterator has no more samples only after the whole plan
\* or the error that ended it, and every error is the sample's own.
THEOREM EndsAreHonest == Spec => []HonestEnd
<1>1. ASSUME Inv PROVE HonestEnd
  <2>1. ASSUME NEW i \in Iterators, stopped[i] PROVE Len(out[i]) = Total(i) \/ failed[i] >= 0
    <3>1. i \in Operations /\ Counts(i) /\ Len(out[i]) \in Nat /\ scheduled[i] \in Nat
      BY <1>1 DEF Operations, Inv, Typed
    <3>2. /\ scheduled[i] <= Total(i) /\ Len(out[i]) <= scheduled[i] /\ emitted[i] >= Total(i)
          /\ failed[i] = -1 => emitted[i] = Len(out[i])
          /\ failed[i] /= -1 => failed[i] \in Len(out[i])..(scheduled[i] - 1)
      BY <2>1, <3>1, Zenon DEF Counts
    <3>3. Total(i) \in Nat
      BY <3>1, WindowSize
    <3> QED BY <3>1, <3>2, <3>3
  <2>2. ASSUME NEW o \in Operations, failed[o] >= 0 PROVE <<o, failed[o]>> \in MayFail
    BY <1>1, <2>2 DEF Inv, Counts
  <2> QED BY <2>1, <2>2, Zenon DEF HonestEnd
<1> QED BY <1>1, ReaderInvariant, PTL

-----------------------------------------------------------------------------
(* Counting *)

\* A set of numbers has a least one.
LEMMA LeastNumber ==
  ASSUME NEW T \in SUBSET Nat, T /= {}
  PROVE  \E x \in T : \A y \in T : x <= y
<1>1. PICK x \in T : \A y \in T : ~(<<y, x>> \in OpToRel(<, Nat))
  BY WFMin, NatLessThanWellFounded, Zenon
<1>2. \A y \in T : ~(y < x)
  BY <1>1, Zenon DEF OpToRel
<1> QED BY <1>2

\* The functions from 1..n to m numbers that take no value twice.
Spread(n, m) == {f \in [1..n -> 0..(m - 1)] : \A j, k \in 1..n : f[j] = f[k] => j = k}

\* There is none if n is greater than m.
LEMMA NoMoreThan ==
  ASSUME NEW m \in Nat, NEW n \in Nat, NEW f \in Spread(n, m)
  PROVE  n <= m
<1> DEFINE Fails == {i \in Nat : \E k \in Nat : k > i /\ Spread(k, i) /= {}}
<1> SUFFICES ASSUME n > m PROVE FALSE
  OBVIOUS
<1>1. Fails \in SUBSET Nat /\ Fails /= {}
  OBVIOUS
<1>2. PICK i \in Fails : \A j \in Fails : i <= j
  BY <1>1, LeastNumber, Zenon
<1>3. i \in Nat /\ i - 1 \notin Fails
  BY <1>2
<1>4. PICK k \in Nat : k > i /\ Spread(k, i) /= {}
  BY <1>2
<1>5. PICK g : g \in Spread(k, i)
  BY <1>4
<1> HIDE DEF Fails
<1>6. g \in [1..k -> 0..(i - 1)] /\ \A j, l \in 1..k : g[j] = g[l] => j = l
  BY <1>5, Zenon DEF Spread
<1>7. k \in 1..k
  BY <1>3, <1>4
<1>8. i > 0 /\ i - 1 \in Nat /\ k - 1 \in Nat /\ k - 1 > i - 1
  BY <1>3, <1>4, <1>6, <1>7
<1>9. PICK p \in 1..k : g[p] = i - 1 \/ \A j \in 1..k : g[j] /= i - 1
  BY <1>7
<1> DEFINE h == [j \in 1..(k - 1) |-> IF j = p THEN g[k] ELSE g[j]]
<1>10. \A j \in 1..(k - 1) : j \in 1..k /\ j /= k
  BY <1>8
<1>11. ASSUME NEW j \in 1..(k - 1) PROVE h[j] \in 0..((i - 1) - 1)
  <2>1. PICK q \in 1..k : h[j] = g[q] /\ (q = p => p = k /\ j = p)
    BY <1>7, <1>10
  <2>2. q /= p
    BY <1>10, <2>1
  <2>3. g[q] /= i - 1
    BY <1>6, <1>9, <2>2
  <2> QED BY <1>6, <1>8, <2>1, <2>3
<1>12. ASSUME NEW j \in 1..(k - 1), NEW l \in 1..(k - 1), h[j] = h[l] PROVE j = l
  BY <1>6, <1>7, <1>10, <1>12
<1>13. h \in Spread(k - 1, i - 1)
  BY <1>11, <1>12, Zenon DEF Spread
<1>14. i - 1 \in Fails
  BY <1>8, <1>13 DEF Fails
<1> QED BY <1>3, <1>14

\* Different numbers of an interval, and one more, are at most as many as the
\* interval has.
LEMMA RoomForOneMore ==
  ASSUME NEW a \in Nat, NEW b \in Nat, a <= b, NEW n \in Nat,
         NEW f \in [1..n -> a..(b - 1)], \A j, k \in 1..n : f[j] = f[k] => j = k,
         NEW s \in a..(b - 1), \A k \in 1..n : f[k] /= s
  PROVE  n + 1 <= b - a
<1> DEFINE g == [k \in 1..(n + 1) |-> IF k \in 1..n THEN f[k] - a ELSE s - a]
<1>1. b - a \in Nat /\ n + 1 \in Nat
  OBVIOUS
<1>2. g \in [1..(n + 1) -> 0..((b - a) - 1)]
  <2>1. \A k \in 1..n : f[k] - a \in 0..((b - a) - 1)
    OBVIOUS
  <2>2. s - a \in 0..((b - a) - 1)
    OBVIOUS
  <2> QED BY <2>1, <2>2, Zenon
<1>3. ASSUME NEW j \in 1..(n + 1), NEW k \in 1..(n + 1), g[j] = g[k] PROVE j = k
  <2>1. s \in Int /\ a \in Int /\ \A l \in 1..n : f[l] \in Int
    OBVIOUS
  <2>2. \A x, y \in Int : x - a = y - a => x = y
    OBVIOUS
  <2>3. CASE j \in 1..n /\ k \in 1..n
    BY <1>3, <2>1, <2>2, <2>3, Zenon
  <2>4. CASE j \in 1..n /\ k \notin 1..n
    BY <1>3, <2>1, <2>2, <2>4, Zenon
  <2>5. CASE j \notin 1..n /\ k \in 1..n
    BY <1>3, <2>1, <2>2, <2>5, Zenon
  <2>6. CASE j \notin 1..n /\ k \notin 1..n
    BY <2>6
  <2> QED BY <2>3, <2>4, <2>5, <2>6, Zenon
<1> HIDE DEF g
<1>4. g \in Spread(n + 1, b - a)
  BY <1>2, <1>3, Zenon DEF Spread
<1> QED BY <1>1, <1>4, NoMoreThan, Zenon

\* The results that wait and the one that arrives have different sequence
\* numbers inside the window, so there is room for all of them.
LEMMA RoomForResult ==
  ASSUME Inv, NEW w \in Workers, worker[w].phase = "deliver",
         NEW o \in Operations, o = worker[w].job.op, Live(o)
  PROVE  Len(results[o]) < Parallelism(o)
<1> DEFINE n == Len(results[o])
           s == worker[w].job.seq
           f == [k \in 1..n |-> results[o][k].seq]
<1>1. worker[w].job \in Jobs /\ Reserved(o, s)
  <2>1. Busy(w) /\ worker[w].job \in Jobs
    BY Zenon DEF Busy, Inv, WorkersInv
  <2>2. Holding(w, worker[w].job)
    BY <2>1, Zenon DEF Holding
  <2>3. \A j \in Jobs : Holding(w, j) => Reserved(j.op, j.seq)
    BY Zenon DEF Inv, WorkersInv
  <2> QED BY <2>1, <2>2, <2>3, Zenon
<1>2. /\ Slots(o) /\ Counts(o) /\ n \in Nat /\ Len(out[o]) \in Nat /\ scheduled[o] \in Nat
      /\ s \in Nat /\ Len(out[o]) <= scheduled[o] /\ Parallelism(o) \in Nat
      /\ scheduled[o] - Len(out[o]) <= Parallelism(o)
  <2>1. Slots(o) /\ Counts(o)
    BY Zenon DEF Inv
  <2>2. n \in Nat /\ Len(out[o]) \in Nat /\ scheduled[o] \in Nat
    BY DEF Inv, Typed
  <2>3. s \in Nat
    BY <1>1, JobFields, Zenon
  <2>4. Parallelism(o) \in Nat
    BY WindowSize
  <2> QED BY <2>1, <2>2, <2>3, <2>4, Zenon DEF Counts
<1>3. s \in Len(out[o])..(scheduled[o] - 1) /\ \A k \in 1..n : results[o][k].seq /= s
  <2>1. s < scheduled[o] /\ Len(out[o]) <= s
    BY <1>1, Zenon DEF Reserved
  <2>2. \A k \in 1..n : results[o][k].seq /= s
    BY <1>1, Zenon DEF Reserved
  <2> HIDE DEF s
  <2>3. s \in Len(out[o])..(scheduled[o] - 1)
    <3>1. \A x, a, b \in Nat : x < b /\ a <= x => x \in a..(b - 1)
      OBVIOUS
    <3> QED BY <1>2, <2>1, <3>1, Zenon
  <2> QED BY <2>2, <2>3, Zenon
<1>4. \A k \in 1..n : results[o][k].seq \in Len(out[o])..(scheduled[o] - 1)
  BY <1>2, Zenon DEF Slots
<1>5. \A j, k \in 1..n : results[o][j].seq = results[o][k].seq => j = k
  BY <1>2, Zenon DEF Slots
<1>6. /\ f \in [1..n -> Len(out[o])..(scheduled[o] - 1)]
      /\ (\A j, k \in 1..n : f[j] = f[k] => j = k) /\ \A k \in 1..n : f[k] /= s
  BY <1>3, <1>4, <1>5, Zenon
<1> HIDE DEF f, s, n
<1>7. n + 1 <= scheduled[o] - Len(out[o])
  <2>1. PICK a \in Nat, b \in Nat : a = Len(out[o]) /\ b = scheduled[o]
    BY <1>2, Zenon
  <2>2. /\ a <= b /\ f \in [1..n -> a..(b - 1)] /\ s \in a..(b - 1)
    BY <1>2, <1>3, <1>6, <2>1, Zenon
  <2>3. n + 1 <= b - a
    BY <1>2, <1>6, <2>2, RoomForOneMore, Zenon
  <2> QED BY <2>1, <2>3, Zenon
<1>8. n < Parallelism(o)
  <2>1. \A x, y, c \in Nat : \A a \in Nat : x + 1 <= y - a /\ y - a <= c => x < c
    OBVIOUS
  <2> QED BY <1>2, <1>7, <2>1, Zenon
<1> QED BY <1>8, Zenon DEF n

\* The window bounds what is scheduled and not returned, the unsigned subtraction
\* of schedule_available never underflows, and no worker of the shared pool waits
\* to deliver a result, whatever Python does with its iterators.
THEOREM DeliveryNeverWaits == Spec => []DeliveryNeverBlocks
<1>1. ASSUME Inv PROVE WindowKept
  <2> SUFFICES ASSUME NEW o \in Operations
               PROVE  /\ scheduled[o] - Len(out[o]) \in 0..Parallelism(o)
                      /\ status[o] \in {"starting", "scheduling"} =>
                           scheduled[o] - emitted[o] \in 0..Parallelism(o)
                      /\ failed[o] >= 0 => failed[o] - Len(out[o]) \in 0..(Parallelism(o) - 1)
    BY Zenon DEF WindowKept
  <2>1. /\ Counts(o) /\ scheduled[o] \in Nat /\ Len(out[o]) \in Nat /\ failed[o] \in Int
        /\ Parallelism(o) \in Nat
    BY <1>1, WindowSize DEF Inv, Typed
  <2>2. scheduled[o] - Len(out[o]) \in 0..Parallelism(o)
    BY <2>1 DEF Counts
  <2>3. status[o] \in {"starting", "scheduling"} => emitted[o] = Len(out[o])
    BY <2>1, Zenon DEF Counts
  <2>4. ASSUME failed[o] >= 0 PROVE failed[o] - Len(out[o]) \in 0..(Parallelism(o) - 1)
    <3>1. failed[o] /= -1
      BY <2>1, <2>4
    <3>2. failed[o] \in Len(out[o])..(scheduled[o] - 1)
      BY <2>1, <3>1, Zenon DEF Counts
    <3>3. \A f \in Int, l, s, p \in Nat :
            f \in l..(s - 1) /\ s - l \in 0..p => f - l \in 0..(p - 1)
      OBVIOUS
    <3> QED BY <2>1, <2>2, <3>2, <3>3, Zenon
  <2> QED BY <2>2, <2>3, <2>4, Zenon
<1>2. ASSUME Inv, NEW w \in Workers, worker[w].phase = "deliver", Live(worker[w].job.op)
      PROVE  Len(results[worker[w].job.op]) < Parallelism(worker[w].job.op)
  <2>1. worker[w].job.op \in Operations
    BY <1>2, JobFields, Zenon DEF Inv, WorkersInv, Busy
  <2> QED BY <1>2, <2>1, RoomForResult, Zenon
<1>3. Inv => DeliveryNeverBlocks
  BY <1>1, <1>2, Zenon DEF DeliveryNeverBlocks
<1> QED BY <1>3, ReaderInvariant, PTL

=============================================================================
