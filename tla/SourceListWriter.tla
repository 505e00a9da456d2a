-------------------------- MODULE SourceListWriter --------------------------
(***************************************************************************)
(* write_cache with a list of sources: the pipeline of writer/pipeline.rs  *)
(* with the path handling of writer.rs.                                    *)
(*                                                                         *)
(* The calling thread walks through the sources, turns what they yield     *)
(* into numbered events (begin, samples, end or abort; one "result" event  *)
(* for a source that is settled without being written) and submits each    *)
(* as a job to the worker pool.  Jobs complete in any order; the same      *)
(* thread puts completed events back in order and commits them: commits    *)
(* build the cache in a temporary directory and publish it by a rename.    *)
(* The window of jobs spans source boundaries.                             *)
(*                                                                         *)
(* Ctrl-C (or SystemExit) can surface wherever the code looks for it, file *)
(* operations can fail, the process can be killed, and the caller may call *)
(* again over what an earlier call left behind.                            *)
(***************************************************************************)
EXTENDS Integers, Sequences, FiniteSets

CONSTANTS
  N,              \* the number of sources in the list
  Paths,          \* source names; each stands for its cache path as well
  MaxSamples,     \* bound: samples a source yields
  NumWorkers,     \* threads of the pool
  PrefetchSize,   \* WriterConfig.prefetch_size
  MaxFaults,      \* bound: file operations that fail
  MaxInterrupts,  \* bound: interrupts
  MaxCalls        \* bound: calls of write_cache, one after the other

ASSUME WriterAssumption ==
  /\ N \in Nat /\ MaxSamples \in Nat
  /\ NumWorkers \in Nat \ {0} /\ PrefetchSize \in Nat \ {0}
  /\ MaxFaults \in Nat /\ MaxInterrupts \in Nat /\ MaxCalls \in Nat

Sources == 1..N
NoName  == "no name"   \* a source whose name cannot be extracted
Parallelism == IF PrefetchSize <= NumWorkers THEN PrefetchSize ELSE NumWorkers

VARIABLES
  \* the input of the call and the file system
  path, reuse, validate,  \* each source's name; the two WriterConfig flags
  final,      \* each cache path: "absent", "old" or "new" cache, or "junk"
  content,    \* the samples of a "new" cache
  temp,       \* each temporary path: "absent", "stale" or "ours"
  \* the calling thread
  pc,         \* where it is
  index,      \* the source it is at
  msg,        \* the event it is submitting
  after,      \* where it goes on after the submission
  caller,     \* who called complete_one
  nextEvent,  \* PipelineIngress.next_sequence
  \* SourceListWritePipeline and PipelineCommitter
  jobs,       \* submitted events that no worker has completed
  results,    \* the result channel
  pending,    \* events received ahead of their turn
  next,       \* next_sequence: the event to commit next
  inFlight,   \* in_flight
  active,     \* ActiveSourceWrite of the source being written
  record,     \* the result slot of each source
  outcome,    \* what the call returned
  \* history and budgets
  produced,   \* samples each source yielded in this call
  ended,      \* the source's iterator ended normally
  blamed,     \* something went wrong with this very source
  fresh,      \* this call published the source's cache
  interrupted, cleanFailed, faults, interrupts, calls

input   == <<path, reuse, validate>>
files   == <<final, content, temp>>
pipe    == <<jobs, results, pending, next, inFlight>>
history == <<produced, ended, blamed, fresh, interrupted>>
budgets == <<cleanFailed, faults, interrupts, calls>>
vars == <<input, files, pc, index, msg, after, caller, nextEvent, pipe, active, record,
          outcome, history, budgets>>

NoActive == [src |-> 0, data |-> <<>>, failure |-> FALSE]

Event(kind, source, ok, sample) == [kind |-> kind, src |-> source, ok |-> ok, sample |-> sample]
NoEvent == Event("none", 0, TRUE, 0)

Init ==
  /\ path \in [Sources -> Paths \cup {NoName}]
  /\ reuse \in BOOLEAN /\ validate \in BOOLEAN
  /\ final \in [Paths -> {"absent", "old", "junk"}]
  /\ content = [p \in Paths |-> <<>>]
  /\ temp \in [Paths -> {"absent", "stale"}]
  /\ pc = "scan" /\ outcome = "running"
  /\ index = 1 /\ msg = NoEvent /\ after = "source" /\ caller = "submit" /\ nextEvent = 0
  /\ jobs = {} /\ results = <<>> /\ pending = {} /\ next = 0 /\ inFlight = 0
  /\ active = NoActive
  /\ record = [s \in Sources |-> "none"]
  /\ produced = [s \in Sources |-> <<>>]
  /\ ended = [s \in Sources |-> FALSE]
  /\ blamed = [s \in Sources |-> FALSE]
  /\ fresh = [s \in Sources |-> FALSE]
  /\ interrupted = FALSE /\ cleanFailed = FALSE
  /\ faults = 0 /\ interrupts = 0 /\ calls = 1

-----------------------------------------------------------------------------
(* Faults *)

Blame(s) == blamed' = [blamed EXCEPT ![s] = TRUE]

MayFault == faults < MaxFaults

\* cleanup_temp_cache: the directory is removed, or the removal fails and its
\* error is added to the source's failure.
Cleanup(p) ==
  \/ /\ temp' = [temp EXCEPT ![p] = "absent"]
     /\ UNCHANGED <<cleanFailed, faults>>
  \/ /\ MayFault /\ temp[p] /= "absent"
     /\ cleanFailed' = TRUE
     /\ faults' = faults + 1
     /\ UNCHANGED temp

\* A file operation on the source being written fails, then the cleanup runs.
FaultThenCleanup(p) ==
  /\ MayFault
  /\ \/ /\ temp' = [temp EXCEPT ![p] = "absent"]
        /\ faults' = faults + 1
        /\ UNCHANGED cleanFailed
     \/ /\ faults + 1 < MaxFaults
        /\ temp' = [temp EXCEPT ![p] = "ours"]
        /\ faults' = faults + 2
        /\ cleanFailed' = TRUE

\* An interrupt is raised at a place that propagates it.
Interrupt ==
  /\ interrupts < MaxInterrupts
  /\ interrupts' = interrupts + 1
  /\ interrupted' = TRUE

-----------------------------------------------------------------------------
(* Ingestion on the calling thread *)

Duplicates(names) ==
  {s \in names : path[s] /= NoName /\ \E t \in names \ {s} : path[t] = path[s]}

\* ensure_unique_source_paths: duplicates fail the call before anything is
\* done.  Whatever reading a name raises, an interrupt included, is ignored
\* and the source is left out of the comparison.
Scan ==
  /\ pc = "scan"
  /\ \E skipped \in {{}} \cup {{s} : s \in Sources} :
       /\ skipped /= {} => interrupts < MaxInterrupts
       /\ interrupts' = interrupts + Cardinality(skipped)
       /\ IF Duplicates(Sources \ skipped) = {}
            THEN /\ pc' = "source"
                 /\ blamed' = [s \in Sources |-> s \in Duplicates(Sources)]
                 /\ UNCHANGED outcome
            ELSE pc' = "done" /\ outcome' = "invalid" /\ UNCHANGED blamed
  /\ UNCHANGED <<input, files, index, msg, after, caller, nextEvent, pipe, active, record,
                 produced, ended, fresh, interrupted, cleanFailed, faults, calls>>

Send(event, then) == pc' = "submit" /\ msg' = event /\ after' = then

\* check_signals between sources, or an interrupt out of the source's name.
SourceInterrupted ==
  /\ pc = "source" /\ index <= N
  /\ Interrupt
  /\ pc' = "incomplete"
  /\ UNCHANGED <<input, files, index, msg, after, caller, nextEvent, pipe, active, record,
                 outcome, produced, ended, blamed, fresh, cleanFailed, faults, calls>>

\* A variant of SettleSource that removes a directory that fails validation.
SettleSourceRepairing ==
  LET p == path[index]
      exists == p /= NoName /\ final[p] /= "absent"
      reused == exists /\ reuse /\ (validate => final[p] \in {"old", "new"})
  IN
  /\ pc = "source" /\ index <= N
  /\ p /= NoName => exists
  /\ Send(Event("result", index, reused, 0), "source")
  /\ IF reused THEN UNCHANGED blamed ELSE Blame(index)
  /\ final' = IF exists /\ ~reused THEN [final EXCEPT ![p] = "absent"] ELSE final
  /\ index' = index + 1
  /\ UNCHANGED <<input, content, temp, caller, nextEvent, pipe, active, record, outcome,
                 produced, ended, fresh, interrupted, budgets>>

\* A source that is settled at once: no usable name, an existing cache that is
\* reused (validated only on request) or refused.
SettleSource ==
  LET p == path[index]
      exists == p /= NoName /\ final[p] /= "absent"
      reused == exists /\ reuse /\ (validate => final[p] \in {"old", "new"})
  IN
  /\ pc = "source" /\ index <= N
  /\ p /= NoName => exists
  /\ Send(Event("result", index, reused, 0), "source")
  /\ IF reused THEN UNCHANGED blamed ELSE Blame(index)
  /\ index' = index + 1
  /\ UNCHANGED <<input, files, caller, nextEvent, pipe, active, record, outcome, produced,
                 ended, fresh, interrupted, budgets>>

\* A source to write: prepare_cache_paths removes a stale temporary directory,
\* and the begin event is sent; a failed removal settles the source.
BeginSource ==
  LET p == path[index] IN
  /\ pc = "source" /\ index <= N
  /\ p /= NoName /\ final[p] = "absent"
  /\ \/ /\ temp' = [temp EXCEPT ![p] = "absent"]
        /\ Send(Event("begin", index, TRUE, 0), "iterate")
        /\ UNCHANGED <<index, blamed, faults>>
     \/ /\ MayFault /\ temp[p] /= "absent"
        /\ faults' = faults + 1
        /\ Blame(index)
        /\ Send(Event("result", index, FALSE, 0), "source")
        /\ index' = index + 1
        /\ UNCHANGED temp
  /\ UNCHANGED <<input, final, content, caller, nextEvent, pipe, active, record, outcome,
                 produced, ended, fresh, interrupted, cleanFailed, interrupts, calls>>

\* The source yields a sample; the builder will accept it or, when it does
\* not fit the metadata schema, refuse it.
YieldSample ==
  /\ pc = "iterate"
  /\ Len(produced[index]) < MaxSamples
  /\ LET sample == Len(produced[index]) + 1 IN
       /\ produced' = [produced EXCEPT ![index] = Append(@, sample)]
       /\ \E fits \in BOOLEAN :
            /\ Send(Event("sample", index, fits, sample), "iterate")
            /\ IF fits THEN UNCHANGED blamed ELSE Blame(index)
  /\ UNCHANGED <<input, files, index, caller, nextEvent, pipe, active, record, outcome, ended,
                 fresh, interrupted, budgets>>

\* A variant of EndIteration that goes through the same source again.
EndIterationAgain ==
  /\ pc = "iterate"
  /\ Send(Event("end", index, TRUE, 0), "source")
  /\ ended' = [ended EXCEPT ![index] = TRUE]
  /\ UNCHANGED <<input, files, index, caller, nextEvent, pipe, active, record, outcome, produced,
                 blamed, fresh, interrupted, budgets>>

\* The iterator is exhausted.
EndIteration ==
  /\ pc = "iterate"
  /\ Send(Event("end", index, TRUE, 0), "source")
  /\ ended' = [ended EXCEPT ![index] = TRUE]
  /\ index' = index + 1
  /\ IF produced[index] = <<>> THEN Blame(index) ELSE UNCHANGED blamed
  /\ UNCHANGED <<input, files, caller, nextEvent, pipe, active, record, outcome, produced,
                 fresh, interrupted, budgets>>

\* iter(source) or the iterator raises, or an item is not a CacheInput.
IterationFails ==
  /\ pc = "iterate"
  /\ Send(Event("abort", index, FALSE, 0), "source")
  /\ Blame(index)
  /\ index' = index + 1
  /\ UNCHANGED <<input, files, caller, nextEvent, pipe, active, record, outcome, produced,
                 ended, fresh, interrupted, budgets>>

IterationInterrupted ==
  /\ pc = "iterate"
  /\ Interrupt
  /\ pc' = "incomplete"
  /\ UNCHANGED <<input, files, index, msg, after, caller, nextEvent, pipe, active, record,
                 outcome, produced, ended, blamed, fresh, cleanFailed, faults, calls>>

\* Every source was ingested.
IngestDone ==
  /\ pc = "source" /\ index > N
  /\ pc' = "finish"
  /\ UNCHANGED <<input, files, index, msg, after, caller, nextEvent, pipe, active, record,
                 outcome, history, budgets>>

-----------------------------------------------------------------------------
(* The job window *)

\* submit once a credit is free.
Submit ==
  /\ pc = "submit" /\ inFlight < Parallelism
  /\ jobs' = jobs \cup {[seq |-> nextEvent, event |-> msg]}
  /\ inFlight' = inFlight + 1
  /\ nextEvent' = nextEvent + 1
  /\ msg' = NoEvent
  /\ pc' = after
  /\ UNCHANGED <<input, files, index, after, caller, results, pending, next, active, record,
                 outcome, history, budgets>>

\* A worker runs one job, which hands the event back.
RunJob ==
  /\ \E job \in jobs :
       /\ jobs' = jobs \ {job}
       /\ results' = Append(results, job)
  /\ Len(results) < Parallelism
  /\ UNCHANGED <<input, files, pc, index, msg, after, caller, nextEvent, pending, next,
                 inFlight, active, record, outcome, history, budgets>>

\* complete_one is called for a credit, or to drain the window.
Completing ==
  \/ pc = "submit" /\ inFlight = Parallelism
  \/ pc \in {"finish", "incomplete"} /\ inFlight > 0

\* A variant of Receive that forgets to free the credit.
ReceiveKeepingCredit ==
  /\ Completing
  /\ results /= <<>>
  /\ results' = Tail(results)
  /\ pending' = pending \cup {Head(results)}
  /\ caller' = pc
  /\ pc' = "commit"
  /\ UNCHANGED <<input, files, index, msg, after, nextEvent, jobs, next, inFlight, active,
                 record, outcome, history, budgets>>

\* complete_one: one result is received, its credit freed and its event queued.
Receive ==
  /\ Completing
  /\ results /= <<>>
  /\ results' = Tail(results)
  /\ inFlight' = inFlight - 1
  /\ pending' = pending \cup {Head(results)}
  /\ caller' = pc
  /\ pc' = "commit"
  /\ UNCHANGED <<input, files, index, msg, after, nextEvent, jobs, next, active, record,
                 outcome, history, budgets>>

\* A variant of ReceiveInterrupted that goes on waiting.
ReceiveUninterrupted ==
  /\ Completing
  /\ results = <<>>
  /\ Interrupt
  /\ UNCHANGED <<input, files, pc, index, msg, after, caller, nextEvent, pipe, active, record,
                 outcome, produced, ended, blamed, fresh, cleanFailed, faults, calls>>

\* receive_worker_result times out on an empty channel and finds a signal: a
\* submission gives the call up, finish drops the pipeline (whose drop cleans
\* the source being written), finish_incomplete stops draining.
ReceiveInterrupted ==
  /\ Completing
  /\ results = <<>>
  /\ Interrupt
  /\ pc' = IF pc = "submit" THEN "incomplete" ELSE "cleanup"
  /\ UNCHANGED <<input, files, index, msg, after, caller, nextEvent, pipe, active, record,
                 outcome, produced, ended, blamed, fresh, cleanFailed, faults, calls>>

-----------------------------------------------------------------------------
(* commit_ready_events and PipelineCommitter *)

Ready(kinds) ==
  /\ pc = "commit"
  /\ \E m \in pending : m.seq = next /\ m.event.kind \in kinds

Turn == CHOOSE m \in pending : m.seq = next

Committed == pending' = pending \ {Turn} /\ next' = next + 1

Record(s, result) == record' = [record EXCEPT ![s] = result]

CommitResult ==
  /\ Ready({"result"})
  /\ Record(Turn.event.src, IF Turn.event.ok THEN "success" ELSE "error")
  /\ Committed
  /\ UNCHANGED <<input, files, pc, index, msg, after, caller, nextEvent, jobs, results,
                 inFlight, active, outcome, history, budgets>>

\* ActiveSourceWrite::new: CacheBuilder::create makes the temporary directory,
\* or fails (a leftover directory included) and what is there is cleaned.
CommitBegin ==
  LET s == Turn.event.src IN
  /\ Ready({"begin"})
  /\ \/ /\ temp[path[s]] = "absent"
        /\ temp' = [temp EXCEPT ![path[s]] = "ours"]
        /\ active' = [src |-> s, data |-> <<>>, failure |-> FALSE]
        /\ UNCHANGED <<blamed, cleanFailed, faults>>
     \/ /\ temp[path[s]] /= "absent"
        /\ active' = [src |-> s, data |-> <<>>, failure |-> TRUE]
        /\ Cleanup(path[s])
        /\ UNCHANGED blamed
     \/ /\ FaultThenCleanup(path[s])
        /\ active' = [src |-> s, data |-> <<>>, failure |-> TRUE]
        /\ Blame(s)
  /\ Committed
  /\ UNCHANGED <<input, final, content, pc, index, msg, after, caller, nextEvent, jobs,
                 results, inFlight, record, outcome, produced, ended, fresh,
                 interrupted, interrupts, calls>>

\* push_sample: nothing once the source has failed; a refused sample or a
\* failed write marks it failed, drops the builder and cleans up.
CommitSample ==
  /\ Ready({"sample"})
  /\ \/ /\ active.failure
        /\ UNCHANGED <<active, temp, blamed, cleanFailed, faults>>
     \/ /\ ~active.failure /\ Turn.event.ok
        /\ active' = [active EXCEPT !.data = Append(@, Turn.event.sample)]
        /\ UNCHANGED <<temp, blamed, cleanFailed, faults>>
     \/ /\ ~active.failure /\ ~Turn.event.ok
        /\ active' = [active EXCEPT !.failure = TRUE]
        /\ Cleanup(path[active.src])
        /\ UNCHANGED blamed
     \/ /\ ~active.failure /\ Turn.event.ok
        /\ FaultThenCleanup(path[active.src])
        /\ active' = [active EXCEPT !.failure = TRUE]
        /\ Blame(active.src)
  /\ Committed
  /\ UNCHANGED <<input, final, content, pc, index, msg, after, caller, nextEvent, jobs,
                 results, inFlight, record, outcome, produced, ended, fresh,
                 interrupted, interrupts, calls>>

\* The source failed: the builder goes, the directory is cleaned and the error
\* takes the source's slot.
SettleFailed ==
  /\ Cleanup(path[active.src])
  /\ Record(active.src, "error")
  /\ UNCHANGED <<final, content, fresh>>

\* A variant of CommitEnd that publishes a source that has failed.
CommitEndAnyway ==
  LET s == active.src IN
  /\ Ready({"end"})
  /\ final' = [final EXCEPT ![path[s]] = "new"]
  /\ content' = [content EXCEPT ![path[s]] = active.data]
  /\ temp' = [temp EXCEPT ![path[s]] = "absent"]
  /\ fresh' = [fresh EXCEPT ![s] = TRUE]
  /\ Record(s, "success")
  /\ active' = NoActive
  /\ Committed
  /\ UNCHANGED <<input, pc, index, msg, after, caller, nextEvent, jobs, results, inFlight,
                 outcome, produced, ended, blamed, interrupted, budgets>>

\* end_source: CacheBuilder::finish refuses an empty cache, needs its directory
\* and writes the manifest last; publish_cache renames the directory to a path
\* that does not exist.  Either may also fail on its own.
CommitEnd ==
  LET s == active.src
      p == path[s]
      publishable == /\ ~active.failure /\ active.data /= <<>>
                     /\ temp[p] = "ours" /\ final[p] = "absent"
  IN
  /\ Ready({"end"})
  /\ \/ ~publishable /\ SettleFailed /\ UNCHANGED blamed
     \/ /\ publishable
        /\ final' = [final EXCEPT ![p] = "new"]
        /\ content' = [content EXCEPT ![p] = active.data]
        /\ temp' = [temp EXCEPT ![p] = "absent"]
        /\ fresh' = [fresh EXCEPT ![s] = TRUE]
        /\ Record(s, "success")
        /\ UNCHANGED <<blamed, cleanFailed, faults>>
     \/ /\ publishable
        /\ FaultThenCleanup(p)
        /\ Record(s, "error")
        /\ Blame(s)
        /\ UNCHANGED <<final, content, fresh>>
  /\ active' = NoActive
  /\ Committed
  /\ UNCHANGED <<input, pc, index, msg, after, caller, nextEvent, jobs, results, inFlight,
                 outcome, produced, ended, interrupted, interrupts, calls>>

\* A variant of CommitAbort that leaves the source's slot empty.
CommitAbortUnrecorded ==
  /\ Ready({"abort"})
  /\ Cleanup(path[active.src])
  /\ active' = NoActive
  /\ Committed
  /\ UNCHANGED <<input, final, content, pc, index, msg, after, caller, nextEvent, jobs, results,
                 inFlight, record, outcome, history, interrupts, calls>>

\* abort_source.
CommitAbort ==
  /\ Ready({"abort"})
  /\ SettleFailed
  /\ active' = NoActive
  /\ Committed
  /\ UNCHANGED <<input, pc, index, msg, after, caller, nextEvent, jobs, results, inFlight,
                 outcome, produced, ended, blamed, interrupted, interrupts, calls>>

\* No event is ready: complete_one returns to its caller.
CommitDone ==
  /\ pc = "commit"
  /\ \A m \in pending : m.seq /= next
  /\ pc' = caller
  /\ UNCHANGED <<input, files, index, msg, after, caller, nextEvent, pipe, active, record,
                 outcome, history, budgets>>

-----------------------------------------------------------------------------
(* The end of the call *)

\* finish and complete_write_results: every slot is filled.  The profiler's
\* report is written last; if that fails the results are lost to the caller.
FinishOk ==
  /\ pc = "finish" /\ inFlight = 0
  /\ pc' = "done"
  /\ \/ outcome' = "ok" /\ UNCHANGED faults
     \/ MayFault /\ outcome' = "profile" /\ faults' = faults + 1
  /\ UNCHANGED <<input, files, index, msg, after, caller, nextEvent, pipe, active, record,
                 history, cleanFailed, interrupts, calls>>

\* finish_incomplete has drained the window.
DrainDone ==
  /\ pc = "incomplete" /\ inFlight = 0
  /\ pc' = "cleanup"
  /\ UNCHANGED <<input, files, index, msg, after, caller, nextEvent, pipe, active, record,
                 outcome, history, budgets>>

\* A variant of CleanupUnfinished that returns without cleaning.
CleanupForgotten ==
  /\ pc = "cleanup"
  /\ pc' = "done"
  /\ outcome' = "interrupt"
  /\ active' = NoActive
  /\ UNCHANGED <<input, files, index, msg, after, caller, nextEvent, pipe, record, history,
                 budgets>>

\* cleanup_unfinished_source, then the interrupt goes to the caller.
CleanupUnfinished ==
  /\ pc = "cleanup"
  /\ IF active.src = 0
       THEN UNCHANGED <<temp, cleanFailed, faults>>
       ELSE Cleanup(path[active.src])
  /\ pc' = "done"
  /\ outcome' = "interrupt"
  /\ active' = NoActive
  /\ UNCHANGED <<input, final, content, index, msg, after, caller, nextEvent, pipe, record,
                 history, interrupts, calls>>

\* The process is killed; there may be another call to find what it left.
Crash ==
  /\ pc \notin {"done", "crashed"} /\ calls < MaxCalls
  /\ pc' = "crashed"
  /\ UNCHANGED <<input, files, index, msg, after, caller, nextEvent, pipe, active, record,
                 outcome, history, budgets>>

\* The caller writes the same sources again, over what is on disk.
CallAgain ==
  /\ pc \in {"done", "crashed"}
  /\ calls < MaxCalls
  /\ calls' = calls + 1
  /\ pc' = "scan" /\ outcome' = "running"
  /\ index' = 1 /\ msg' = NoEvent /\ after' = "source" /\ caller' = "submit" /\ nextEvent' = 0
  /\ jobs' = {} /\ results' = <<>> /\ pending' = {} /\ next' = 0 /\ inFlight' = 0
  /\ active' = NoActive
  /\ record' = [s \in Sources |-> "none"]
  /\ produced' = [s \in Sources |-> <<>>]
  /\ ended' = [s \in Sources |-> FALSE]
  /\ blamed' = [s \in Sources |-> FALSE]
  /\ fresh' = [s \in Sources |-> FALSE]
  /\ interrupted' = FALSE /\ cleanFailed' = FALSE
  /\ reuse' \in BOOLEAN
  /\ temp' = [p \in Paths |-> IF temp[p] = "absent" THEN "absent" ELSE "stale"]
  /\ UNCHANGED <<path, validate, final, content, faults, interrupts>>

Stopped ==
  /\ pc = "done" /\ calls = MaxCalls
  /\ UNCHANGED vars

Ingest ==
  \/ Scan \/ SourceInterrupted \/ SettleSource \/ BeginSource \/ YieldSample
  \/ EndIteration \/ IterationFails \/ IterationInterrupted \/ IngestDone

Commit ==
  \/ CommitResult \/ CommitBegin \/ CommitSample \/ CommitEnd \/ CommitAbort \/ CommitDone

CallStep ==
  \/ Ingest \/ Submit \/ Receive \/ ReceiveInterrupted \/ Commit
  \/ FinishOk \/ DrainDone \/ CleanupUnfinished

Next == CallStep \/ RunJob \/ Crash \/ CallAgain \/ Stopped

Spec == Init /\ [][Next]_vars

\* The calling thread goes on whenever it can and the pool runs its jobs.
FairSpec == Spec /\ WF_vars(CallStep) /\ WF_vars(RunJob)

-----------------------------------------------------------------------------
(* Properties *)

\* A cache that this call made visible holds every sample its source yielded,
\* once and in the source's order, and the source had ended normally, however
\* the jobs of neighbouring sources were reordered.
PublishedComplete ==
  \A s \in Sources : fresh[s] =>
    /\ ended[s]
    /\ final[path[s]] = "new"
    /\ content[path[s]] = produced[s]

\* A directory under a cache path is never changed or removed by a later step,
\* a later call included: prepare_cache_paths and the reuse check keep away
\* from what exists.
PublishedImmutable ==
  [][\A p \in Paths : final[p] /= "absent" =>
       final'[p] = final[p] /\ content'[p] = content[p]]_vars

\* When the call returns normally each source has one result, an error is
\* reported only for a source that something went wrong with itself, and a
\* source reported as failed has not been published by this call.
HonestResults ==
  outcome \in {"ok", "profile"} => \A s \in Sources :
    /\ record[s] \in {"success", "error"}
    /\ record[s] = "error" => blamed[s] /\ ~fresh[s]
    /\ record[s] = "success" => path[s] /= NoName /\ final[path[s]] /= "absent"

\* No temporary directory of this call survives its return, interrupted or
\* not, unless removing one failed.
TempCleaned ==
  pc = "done" /\ ~cleanFailed => \A p \in Paths : temp[p] /= "ours"

\* The events reach the committer in an order it can accept: a begin finds no
\* source active, everything else of a source finds that source active, and
\* no slot is filled twice, so no WorkerFailed branch of the committer is taken.
CommitterProtocol ==
  pc = "commit" => \A m \in pending : m.seq = next =>
    /\ m.event.kind = "begin" => active = NoActive
    /\ m.event.kind \in {"sample", "end", "abort"} => active.src = m.event.src
    /\ m.event.kind \in {"result", "end", "abort"} => record[m.event.src] = "none"

\* An interrupt that any propagating check raised ends the call as an
\* interrupt, whatever the drain and the cleanup after it meet.  (The scan for
\* duplicate names propagates none: see the action Scan.)
InterruptPropagates == interrupted /\ pc = "done" => outcome = "interrupt"

\* The call returns: no wait for a job, a credit or a drain lasts for ever.
WriteReturns == (pc = "scan") ~> (pc \in {"done", "crashed"})

=============================================================================
