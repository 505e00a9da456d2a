--------------------------- MODULE ReaderRuntime ---------------------------
(***************************************************************************)
(* Reading through a runtime: the fixed worker pool of worker_pool.rs, any *)
(* number of RuntimeIterators (runtime.rs) and get_item calls (dataset.rs) *)
(* that share it.                                                          *)
(*                                                                         *)
(* An operation submits one job per sample to the pool's bounded channel   *)
(* and gets one result per job from a bounded channel of its own.  Both    *)
(* channels are the bounded FIFO that module Channel implements.  An       *)
(* iterator numbers its jobs 0, 1, 2 ... in the order of its epoch plan;   *)
(* workers finish them in any order.                                       *)
(*                                                                         *)
(* Calls into the extension never release Python's interpreter lock, so    *)
(* one call at a time runs (variable gil) and, blocked or not, keeps every *)
(* other Python thread out.  The workers do not need the lock.             *)
(***************************************************************************)
EXTENDS Integers, Sequences, FiniteSets

CONSTANTS
  Iterators,            \* iterators the program may start
  Gets,                 \* get_item calls the program may make
  Workers,              \* the threads of the pool
  PrefetchSize,         \* ReaderConfig.prefetch_size
  QueuedJobsPerWorker,  \* QUEUED_JOBS_PER_WORKER, 4 in the code
  EpochLen,             \* the length of each iterator's plan
  MayFail,              \* jobs <<operation, sequence>> whose read may fail
  Nobody                \* no operation is inside a call

Operations == Iterators \cup Gets

ASSUME ReaderAssumption ==
  /\ Iterators \cap Gets = {}
  /\ Nobody \notin Operations
  /\ IsFiniteSet(Workers) /\ Cardinality(Workers) \in Nat \ {0}
  /\ PrefetchSize \in Nat \ {0}
  /\ QueuedJobsPerWorker \in Nat \ {0}
  /\ EpochLen \in [Iterators -> Nat \ {0}]

VARIABLES
  jobs,       \* the pool's job channel
  poolOpen,   \* some owner still holds the pool's only Sender
  held,       \* a DatasetRuntime or CachedDataset still owns the pool
  worker,     \* [phase, job, ok] of each worker thread
  gil,        \* the operation whose call is running, or Nobody
  status,     \* where each operation is
  scheduled,  \* RuntimeIterator.scheduled
  emitted,    \* RuntimeIterator.emitted
  cancelled,  \* RuntimeIterator.cancelled
  results,    \* the operation's result channel
  pending,    \* sequences held in RuntimeIterator.pending
  out,        \* history: the sequences returned to Python, in order
  failed,     \* history: the sequence whose error was returned, or -1
  stopped     \* history: the operation reported that it has no more samples

poolVars == <<jobs, poolOpen, held, worker>>
opVars   == <<status, scheduled, emitted, cancelled, results, pending, out, failed, stopped>>
vars     == <<poolVars, gil, opVars>>

Smaller(a, b) == IF a <= b THEN a ELSE b

Total(o) == IF o \in Iterators THEN EpochLen[o] ELSE 1

\* RuntimeIterator::start: parallelism = min(num_workers, prefetch_size, total);
\* get_item: a result channel of capacity 1.
Parallelism(o) ==
  IF o \in Iterators
    THEN Smaller(Smaller(Cardinality(Workers), PrefetchSize), Total(o))
    ELSE 1

QueueCapacity == Cardinality(Workers) * QueuedJobsPerWorker

Jobs  == [op : Operations, seq : Nat]
NoJob == [op |-> Nobody, seq |-> -1]
Idle  == [phase |-> "idle", job |-> NoJob, ok |-> FALSE]

\* The operation's Receiver is alive: results sent to it are kept.
Live(o) == status[o] \notin {"new", "dropped"}

InCall(o) == status[o] \in {"starting", "scheduling", "receiving"}

Init ==
  /\ jobs = <<>>
  /\ poolOpen = TRUE
  /\ held = TRUE
  /\ worker = [w \in Workers |-> Idle]
  /\ gil = Nobody
  /\ status = [o \in Operations |-> "new"]
  /\ scheduled = [o \in Operations |-> 0]
  /\ emitted = [o \in Operations |-> 0]
  /\ cancelled = [o \in Operations |-> FALSE]
  /\ results = [o \in Operations |-> <<>>]
  /\ pending = [o \in Operations |-> {}]
  /\ out = [o \in Operations |-> <<>>]
  /\ failed = [o \in Operations |-> -1]
  /\ stopped = [o \in Operations |-> FALSE]

-----------------------------------------------------------------------------
(* Calls from Python *)

Enter(o, s) == gil = Nobody /\ gil' = o /\ status' = [status EXCEPT ![o] = s]
Leave(o, s) == gil' = Nobody /\ status' = [status EXCEPT ![o] = s]

\* PyCachedDataset.__iter__: RuntimeIterator::start schedules the first window.
StartIterator(i) ==
  /\ held
  /\ status[i] = "new"
  /\ Enter(i, "starting")
  /\ UNCHANGED <<poolVars, scheduled, emitted, cancelled, results, pending, out, failed, stopped>>

\* DatasetState::get_item.
GetItem(g) ==
  /\ held
  /\ status[g] = "new"
  /\ Enter(g, "scheduling")
  /\ UNCHANGED <<poolVars, scheduled, emitted, cancelled, results, pending, out, failed, stopped>>

\* RuntimeIterator::next with samples left.
CallNext(i) ==
  /\ status[i] = "ready"
  /\ emitted[i] < Total(i)
  /\ Enter(i, "scheduling")
  /\ UNCHANGED <<poolVars, scheduled, emitted, cancelled, results, pending, out, failed, stopped>>

\* RuntimeIterator::next once emitted >= total: None.
NextExhausted(i) ==
  /\ status[i] = "ready"
  /\ gil = Nobody
  /\ emitted[i] >= Total(i)
  /\ stopped' = [stopped EXCEPT ![i] = TRUE]
  /\ UNCHANGED <<poolVars, gil, status, scheduled, emitted, cancelled, results, pending, out, failed>>

\* A variant of WindowOpen that schedules one job too many.
WindowOpenOffByOne(o) ==
  /\ scheduled[o] - emitted[o] <= Parallelism(o)
  /\ scheduled[o] < Total(o)

\* The loop condition of schedule_available.
WindowOpen(o) ==
  /\ scheduled[o] - emitted[o] < Parallelism(o)
  /\ scheduled[o] < Total(o)

\* schedule_next: submit blocks, with the lock held, while the job queue is full.
ScheduleNext(o) ==
  /\ status[o] \in {"starting", "scheduling"}
  /\ WindowOpen(o)
  /\ Len(jobs) < QueueCapacity
  /\ jobs' = Append(jobs, [op |-> o, seq |-> scheduled[o]])
  /\ scheduled' = [scheduled EXCEPT ![o] = @ + 1]
  /\ UNCHANGED <<poolOpen, held, worker, gil, status, emitted, cancelled, results, pending, out, failed, stopped>>

\* The window is full: start returns the iterator, next and get_item go on.
ScheduleDone(o) ==
  /\ ~WindowOpen(o)
  /\ \/ status[o] = "starting" /\ Leave(o, "ready")
     \/ /\ status[o] = "scheduling"
        /\ status' = [status EXCEPT ![o] = "receiving"]
        /\ UNCHANGED gil
  /\ UNCHANGED <<poolVars, scheduled, emitted, cancelled, results, pending, out, failed, stopped>>

\* One sample is handed to Python; get_item's channel dies with its call.
Emit(o, sequence) ==
  /\ emitted' = [emitted EXCEPT ![o] = @ + 1]
  /\ out' = [out EXCEPT ![o] = Append(@, sequence)]
  /\ Leave(o, IF o \in Gets THEN "dropped" ELSE "ready")
  /\ UNCHANGED <<cancelled, failed>>

\* next(): a sample that arrived earlier is the next one of the plan.
TakePending(i) ==
  /\ status[i] = "receiving"
  /\ emitted[i] \in pending[i]
  /\ pending' = [pending EXCEPT ![i] = @ \ {emitted[i]}]
  /\ Emit(i, emitted[i])
  /\ UNCHANGED <<poolVars, scheduled, results, stopped>>

\* A variant of ReceiveResult that hands a sample over as soon as it arrives.
ReceiveUnordered(o) ==
  /\ status[o] = "receiving"
  /\ emitted[o] \notin pending[o]
  /\ results[o] /= <<>>
  /\ results' = [results EXCEPT ![o] = Tail(@)]
  /\ Emit(o, Head(results[o]).seq)
  /\ UNCHANGED <<poolVars, scheduled, pending, stopped>>

\* A variant of the error branch that cancels but does not end the iterator.
FailAndContinue(o, sequence) ==
  /\ failed' = [failed EXCEPT ![o] = sequence]
  /\ cancelled' = [cancelled EXCEPT ![o] = TRUE]
  /\ Leave(o, IF o \in Gets THEN "dropped" ELSE "ready")
  /\ UNCHANGED <<emitted, out, pending>>

\* The error branch: the error is returned, the iterator is finished and the
\* jobs it still has outstanding are cancelled.
Fail(o, sequence) ==
  /\ failed' = [failed EXCEPT ![o] = sequence]
  /\ emitted' = [emitted EXCEPT ![o] = Total(o)]
  /\ cancelled' = [cancelled EXCEPT ![o] = TRUE]
  /\ Leave(o, IF o \in Gets THEN "dropped" ELSE "ready")
  /\ UNCHANGED <<out, pending>>

\* A variant of ReceiveResult that throws away a sample that is early.
ReceiveDiscarding(o) ==
  /\ status[o] = "receiving"
  /\ emitted[o] \notin pending[o]
  /\ results[o] /= <<>>
  /\ results' = [results EXCEPT ![o] = Tail(@)]
  /\ LET loaded == Head(results[o]) IN
       IF loaded.ok /\ loaded.seq = emitted[o]
         THEN Emit(o, loaded.seq) /\ UNCHANGED pending
         ELSE UNCHANGED <<gil, status, emitted, cancelled, out, failed, pending>>
  /\ UNCHANGED <<poolVars, scheduled, stopped>>

\* next() and get_item(): recv on the result channel.  An error carries no
\* sequence number in the code; the model keeps it for the properties.
ReceiveResult(o) ==
  /\ status[o] = "receiving"
  /\ emitted[o] \notin pending[o]
  /\ results[o] /= <<>>
  /\ results' = [results EXCEPT ![o] = Tail(@)]
  /\ LET loaded == Head(results[o]) IN
       \/ ~loaded.ok /\ Fail(o, loaded.seq)
       \/ /\ loaded.ok /\ loaded.seq = emitted[o]
          /\ Emit(o, loaded.seq)
          /\ UNCHANGED pending
       \/ /\ loaded.ok /\ loaded.seq /= emitted[o]
          /\ pending' = [pending EXCEPT ![o] = @ \cup {loaded.seq}]
          /\ UNCHANGED <<gil, status, emitted, cancelled, out, failed>>
  /\ UNCHANGED <<poolVars, scheduled, stopped>>

\* The pool's Sender goes with its last owner.
PoolReleased(stillHeld, st) == ~stillHeld /\ \A o \in Operations : st[o] \in {"new", "dropped"}

\* A variant of DropIterator that leaks the iterator's share of the pool.
DropIteratorKeepingPool(i) ==
  /\ gil = Nobody
  /\ status[i] = "ready"
  /\ status' = [status EXCEPT ![i] = "dropped"]
  /\ cancelled' = [cancelled EXCEPT ![i] = TRUE]
  /\ results' = [results EXCEPT ![i] = <<>>]
  /\ pending' = [pending EXCEPT ![i] = {}]
  /\ UNCHANGED <<poolVars, gil, scheduled, emitted, out, failed, stopped>>

\* RuntimeIterator::drop and the drop of its fields, Receiver included.
DropIterator(i) ==
  /\ gil = Nobody
  /\ status[i] = "ready"
  /\ status' = [status EXCEPT ![i] = "dropped"]
  /\ cancelled' = [cancelled EXCEPT ![i] = TRUE]
  /\ results' = [results EXCEPT ![i] = <<>>]
  /\ pending' = [pending EXCEPT ![i] = {}]
  /\ poolOpen' = ~PoolReleased(held, status')
  /\ UNCHANGED <<jobs, held, worker, gil, scheduled, emitted, out, failed, stopped>>

\* The last DatasetRuntime or CachedDataset goes away.
ReleaseRuntime ==
  /\ gil = Nobody
  /\ held
  /\ held' = FALSE
  /\ poolOpen' = ~PoolReleased(FALSE, status)
  /\ UNCHANGED <<jobs, worker, gil, opVars>>

-----------------------------------------------------------------------------
(* Worker threads: while let Ok(job) = receiver.recv() { job() } *)

TakeJob(w) ==
  /\ worker[w].phase = "idle"
  /\ jobs /= <<>>
  /\ jobs' = Tail(jobs)
  /\ worker' = [worker EXCEPT ![w] = [phase |-> "taken", job |-> Head(jobs), ok |-> FALSE]]
  /\ UNCHANGED <<poolOpen, held, gil, opVars>>

\* The first look at the cancellation flag; a get_item job has none.
BeginRead(w) ==
  /\ worker[w].phase = "taken"
  /\ worker' = [worker EXCEPT ![w].phase =
                  IF cancelled[worker[w].job.op] THEN "deliver" ELSE "reading"]
  /\ UNCHANGED <<jobs, poolOpen, held, gil, opVars>>

\* The read succeeds and the flag is looked at again, or the read fails; a
\* panic of the job is turned into a failure by native_result.
EndRead(w) ==
  LET job == worker[w].job IN
    /\ worker[w].phase = "reading"
    /\ \E success \in IF <<job.op, job.seq>> \in MayFail THEN BOOLEAN ELSE {TRUE} :
         worker' = [worker EXCEPT ![w] =
                      [phase |-> "deliver", job |-> job, ok |-> success /\ ~cancelled[job.op]]]
    /\ UNCHANGED <<jobs, poolOpen, held, gil, opVars>>

\* The wrapper of submit sends the result; a dropped receiver refuses it and
\* the refusal is ignored.
Deliver(w) ==
  LET job == worker[w].job IN
    /\ worker[w].phase = "deliver"
    /\ IF Live(job.op)
         THEN /\ Len(results[job.op]) < Parallelism(job.op)
              /\ results' = [results EXCEPT ![job.op] =
                               Append(@, [seq |-> job.seq, ok |-> worker[w].ok])]
         ELSE UNCHANGED results
    /\ worker' = [worker EXCEPT ![w] = Idle]
    /\ UNCHANGED <<jobs, poolOpen, held, gil, status, scheduled, emitted, cancelled,
                   pending, out, failed, stopped>>

\* recv fails once the Sender is gone and the queued jobs are drained.
WorkerExit(w) ==
  /\ worker[w].phase = "idle"
  /\ jobs = <<>>
  /\ ~poolOpen
  /\ worker' = [worker EXCEPT ![w].phase = "exited"]
  /\ UNCHANGED <<jobs, poolOpen, held, gil, opVars>>

WorkerStep(w) == TakeJob(w) \/ BeginRead(w) \/ EndRead(w) \/ Deliver(w) \/ WorkerExit(w)

CallStep(o) == ScheduleNext(o) \/ ScheduleDone(o) \/ TakePending(o) \/ ReceiveResult(o)

\* The program has let go of everything and the threads are gone.
Finished ==
  /\ \A w \in Workers : worker[w].phase = "exited"
  /\ UNCHANGED vars

Next ==
  \/ \E i \in Iterators : StartIterator(i) \/ CallNext(i) \/ NextExhausted(i) \/ DropIterator(i)
  \/ \E g \in Gets : GetItem(g)
  \/ \E o \in Operations : CallStep(o)
  \/ ReleaseRuntime
  \/ \E w \in Workers : WorkerStep(w)
  \/ Finished

Spec == Init /\ [][Next]_vars

(***************************************************************************)
(* Worker threads run and a call that can go on goes on.  Python is        *)
(* promised nothing: it may start an iterator and never call it again.     *)
(***************************************************************************)
Fairness ==
  /\ \A w \in Workers : WF_vars(WorkerStep(w))
  /\ \A o \in Operations : WF_vars(CallStep(o))

FairSpec == Spec /\ Fairness

-----------------------------------------------------------------------------
(* Properties *)

\* Samples reach Python in plan order, each once, with none skipped, however
\* the workers reorder them and whatever fails.
PlanOrder == \A o \in Operations : \A k \in 1..Len(out[o]) : out[o][k] = k - 1

\* schedule_available counts reordered results against the window: at most
\* parallelism samples are scheduled and not yet returned, so `scheduled -
\* emitted` neither exceeds the bound nor underflows where it is evaluated, and
\* an error ends its iterator less than a window before its turn, never late.
WindowKept ==
  \A o \in Operations :
    /\ scheduled[o] - Len(out[o]) \in 0..Parallelism(o)
    /\ status[o] \in {"starting", "scheduling"} => scheduled[o] - emitted[o] \in 0..Parallelism(o)
    /\ failed[o] >= 0 => failed[o] - Len(out[o]) \in 0..(Parallelism(o) - 1)

\* A worker never waits to deliver a result: the window is kept, so room for the
\* result was reserved when the job was submitted, and an iterator that Python
\* has stopped calling cannot hold a thread of the shared pool.
DeliveryNeverBlocks ==
  /\ WindowKept
  /\ \A w \in Workers :
       worker[w].phase = "deliver" /\ Live(worker[w].job.op) =>
         Len(results[worker[w].job.op]) < Parallelism(worker[w].job.op)

\* The end of an iteration is honest: Python is told there are no more samples
\* only when it got the whole plan or was given the error that ended it, and
\* an error is a fault of its own: nothing of a cancelled or dropped operation
\* reaches another, and no cancellation or duplicate is ever reported.
HonestEnd ==
  /\ \A i \in Iterators : stopped[i] => Len(out[i]) = Total(i) \/ failed[i] >= 0
  /\ \A o \in Operations : failed[o] >= 0 => <<o, failed[o]>> \in MayFail

\* Every call returns: workers busy with the jobs of iterators nobody calls any
\* more still reach the jobs of the call that holds the interpreter lock.
CallsReturn == \A o \in Operations : InCall(o) ~> ~InCall(o)

\* Once the runtime, its datasets and its iterators are gone the queued jobs
\* are drained and every pool thread ends.
PoolDrains == PoolReleased(held, status) ~> \A w \in Workers : worker[w].phase = "exited"

=============================================================================
