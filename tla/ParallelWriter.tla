--------------------------- MODULE ParallelWriter ---------------------------
(***************************************************************************)
(* write_parallel of dataset_rt/writer.py: a supervisor that spawns writer *)
(* processes and hands each one source at a time, with the single-source   *)
(* write of writer.rs that the processes run.                              *)
(*                                                                         *)
(* A child gets jobs from a mailbox of capacity one and answers on a pipe. *)
(* The supervisor polls the pipes, looks for dead children and expired     *)
(* deadlines, and dispatches to idle children.  A dead child, a broken     *)
(* pipe or an expired deadline stops the whole pool; nothing is retried.   *)
(* Children can be killed, hang or be interrupted at any step, and so can  *)
(* the supervisor: between spawning a child and having it in its list too. *)
(*                                                                         *)
(* A call with reuse is DatasetRuntime.from_cache_sources: it goes on to   *)
(* load a dataset from the caches that were written or reused.             *)
(***************************************************************************)
EXTENDS Integers, Sequences, FiniteSets

CONSTANTS
  N,              \* the number of sources
  Names,          \* valid source names; each stands for its paths as well
  Inputs,         \* bound: names, reuse flag and directories a call may find
  NumProcesses,   \* WriterConfig.num_processes
  MaxTroubles     \* bound: failed operations and unstoppable children, deaths of
                  \* children, interrupts in children and in the supervisor

Sources  == 1..N
BadName  == "bad name"  \* the name cannot be read or is not a plain segment
Children == 1..(IF NumProcesses <= N THEN NumProcesses ELSE N)

ASSUME ParallelAssumption ==
  /\ N \in Nat \ {0} /\ NumProcesses \in Nat \ {0}
  /\ Inputs \subseteq [name : [Sources -> Names \cup {BadName}], reuse : BOOLEAN,
                       final : [Names -> {"absent", "old"}],
                       temp : [Names -> {"absent", "stale"}]]
  /\ MaxTroubles \in Nat

VARIABLES
  name, reuse,       \* the input of the call
  final, temp,       \* cache path and temporary path of each name
  \* the supervisor
  pc, at,            \* where it is, and the child it looks at
  state, job, late,  \* WriterProcess.state of each child: kind, source, deadline;
                     \* "unregistered" while it runs but is not in `workers`
  nextIndex,         \* the source to dispatch next
  outcomes,          \* collected outcomes
  bad,               \* a poll of this round has failed
  failure,           \* the pool was stopped by a failure
  raised,            \* first_error of _stop_all
  outcome,           \* how the call ended
  loaded,            \* the caches of the dataset that was loaded, in order
  \* the children
  phase, own,        \* where each child is, and its source
  mailbox, pipe,     \* its job queue and its result pipe
  doomed,            \* it was sent a signal by stop()
  \* history and budgets
  blamed,            \* something went wrong with this very source
  wrote,             \* this call published the source's cache
  told,              \* a child has reported an interrupt
  interrupted,       \* an interrupt reached the supervisor
  unclean,           \* the children whose shutdown or cleanup failed or was cut short
  troubles           \* all of these together

input == <<name, reuse>>
ending == <<outcome, loaded>>
super == <<pc, at, state, job, late, nextIndex, outcomes, bad, failure, raised, ending>>
procs == <<phase, own, mailbox, pipe, doomed>>
notes == <<blamed, wrote, told, interrupted>>
limits == <<unclean, troubles>>
vars == <<input, final, temp, super, procs, notes, limits>>

Empty == 0   \* an empty mailbox; a job is its source, Quit ends the child
Quit  == -1

Message(kind, ok) == [kind |-> kind, ok |-> ok]

Init ==
  /\ \E i \in Inputs : name = i.name /\ reuse = i.reuse /\ final = i.final /\ temp = i.temp
  /\ pc = "preflight" /\ at = 1
  /\ state = [w \in Children |-> "absent"]
  /\ job = [w \in Children |-> 0]
  /\ late = [w \in Children |-> FALSE]
  /\ nextIndex = 1
  /\ outcomes = [s \in Sources |-> "none"]
  /\ bad = FALSE /\ failure = FALSE /\ raised = FALSE
  /\ outcome = "running" /\ loaded = <<>>
  /\ phase = [w \in Children |-> "absent"]
  /\ own = [w \in Children |-> 0]
  /\ mailbox = [w \in Children |-> Empty]
  /\ pipe = [w \in Children |-> <<>>]
  /\ doomed = [w \in Children |-> FALSE]
  /\ blamed = [s \in Sources |-> FALSE]
  /\ wrote = [s \in Sources |-> FALSE]
  /\ told = FALSE /\ interrupted = FALSE
  /\ unclean = {} /\ troubles = 0

Trouble == troubles < MaxTroubles /\ troubles' = troubles + 1

MayFault == Trouble /\ unclean' = unclean \cup {at}

Alive(w) == phase[w] \notin {"absent", "dead"}

\* The child is in the list of those that are polled and stopped.
Registered(w) == state[w] \notin {"absent", "unregistered"}

\* The child runs and nobody will ever stop it.
Orphan(w) == state[w] = "unregistered" /\ pc /= "register"

-----------------------------------------------------------------------------
(* The supervisor: starting, polling, dispatching *)

\* _destination_identity: names that cannot be told apart on some file systems.
SameDestination(s, t) == name[s] = name[t] /\ name[s] /= BadName

\* _preflight: two sources with one destination fail every source.
Preflight ==
  /\ pc = "preflight"
  /\ IF \E s, t \in Sources : s /= t /\ SameDestination(s, t)
       THEN /\ outcomes' = [s \in Sources |-> "error"]
            /\ blamed' = [s \in Sources |-> TRUE]
            /\ pc' = "done" /\ outcome' = "results"
       ELSE /\ blamed' = [s \in Sources |-> name[s] = BadName]
            /\ pc' = "start"
            /\ UNCHANGED <<outcomes, outcome>>
  /\ UNCHANGED <<input, final, temp, at, state, job, late, nextIndex, bad, failure, raised,
                 loaded, procs, wrote, told, interrupted, limits>>

GoTo(place) == pc' = place /\ at' = 1

\* _start: a child is spawned; a spawn that fails stops the pool.
Start ==
  /\ pc = "start"
  /\ \/ /\ state' = [state EXCEPT ![at] = "unregistered"]
        /\ phase' = [phase EXCEPT ![at] = "boot"]
        /\ pc' = "register"
        /\ UNCHANGED <<at, failure, troubles>>
     \/ Trouble /\ failure' = TRUE /\ GoTo("stop") /\ UNCHANGED <<state, phase>>
  /\ UNCHANGED <<input, final, temp, job, late, nextIndex, outcomes, bad, raised, ending,
                 own, mailbox, pipe, doomed, notes, unclean>>

\* The WriterProcess with its deadline exists and is appended to `workers`.
Register ==
  /\ pc = "register"
  /\ state' = [state EXCEPT ![at] = "starting"]
  /\ IF at + 1 \in Children THEN at' = at + 1 /\ pc' = "start" ELSE GoTo("poll")
  /\ UNCHANGED <<input, final, temp, job, late, nextIndex, outcomes, bad, failure, raised,
                 ending, procs, notes, limits>>

\* The poll of child `at` is over, with an error or without.  The results are
\* looked at once every child was polled.
Polled(error) ==
  /\ bad' = (bad \/ error)
  /\ IF at + 1 \in Children
       THEN at' = at + 1 /\ pc' = "poll" /\ UNCHANGED failure
       ELSE /\ GoTo(IF bad' THEN "stop" ELSE "dispatch")
            /\ failure' = bad'

\* TemporaryDestination.cleanup: what the child has left behind is removed.
Cleaned(s) == [temp EXCEPT ![name[s]] = IF @ = "ours" THEN "absent" ELSE @]

\* _poll finds a message.  An outcome is collected, the child is idle, and the
\* temporary path is cleaned, or that fails or is interrupted and stops the pool.
PollMessage ==
  /\ pc = "poll" /\ pipe[at] /= <<>>
  /\ pipe' = [pipe EXCEPT ![at] = Tail(@)]
  /\ LET m == Head(pipe[at]) IN
     \/ /\ m.kind = "ready"
        /\ state' = [state EXCEPT ![at] = "idle"]
        /\ pc' = "exit"
        /\ UNCHANGED <<at, outcomes, temp, bad, failure, interrupted, limits>>
     \/ /\ m.kind = "finished" /\ state[at] = "active"
        /\ outcomes' = [outcomes EXCEPT ![job[at]] = IF m.ok THEN "success" ELSE "error"]
        /\ state' = [state EXCEPT ![at] = "idle"]
        /\ \/ /\ temp' = Cleaned(job[at]) /\ pc' = "exit"
              /\ UNCHANGED <<at, failure, interrupted, limits>>
           \/ /\ temp[name[job[at]]] = "ours" /\ MayFault
              /\ \/ failure' = TRUE /\ UNCHANGED interrupted
                 \/ interrupted' = TRUE /\ UNCHANGED failure
              /\ GoTo("stop") /\ UNCHANGED temp
        /\ UNCHANGED bad
     \/ /\ m.kind = "interrupted"
        /\ interrupted' = TRUE
        /\ GoTo("stop")
        /\ UNCHANGED <<state, outcomes, temp, bad, failure, limits>>
     \/ /\ m.kind = "failed" \/ (m.kind = "finished" /\ state[at] /= "active")
        /\ Polled(TRUE)
        /\ UNCHANGED <<state, outcomes, temp, interrupted, limits>>
  /\ UNCHANGED <<input, final, job, late, nextIndex, raised, ending, phase, own, mailbox,
                 doomed, blamed, wrote, told>>

\* The pipe is at its end, or has nothing to read now.
PollNothing ==
  /\ pc = "poll" /\ pipe[at] = <<>>
  /\ IF Alive(at) THEN pc' = "exit" /\ UNCHANGED <<at, bad, failure>> ELSE Polled(TRUE)
  /\ UNCHANGED <<input, final, temp, state, job, late, nextIndex, outcomes, raised, ending,
                 procs, notes, limits>>

\* A variant of PollExit that waits for starting and writing children for ever.
PollExitUntimed ==
  /\ pc = "exit"
  /\ Polled(~Alive(at))
  /\ UNCHANGED <<input, final, temp, state, job, late, nextIndex, outcomes, raised, ending,
                 procs, notes, limits>>

\* The rest of _poll: the exit code, then the deadline.
PollExit ==
  /\ pc = "exit"
  /\ Polled(~Alive(at) \/ (late[at] /\ state[at] \in {"starting", "active"}))
  /\ UNCHANGED <<input, final, temp, state, job, late, nextIndex, outcomes, raised, ending,
                 procs, notes, limits>>

\* A variant of HasTurn that does not wait for the child to be ready.
HasTurnEarly == state[at] \in {"starting", "idle"} /\ nextIndex <= N

\* An idle child and a source to dispatch.
HasTurn == state[at] = "idle" /\ nextIndex <= N

\* _destination: nobody else's files are where the child would write.
Unoccupied(s) == temp[name[s]] = "absent"

\* One source for an idle child.  A bad name, a failed pickle or an occupied
\* temporary path settles it; otherwise the child owns source and destination.
Dispatch ==
  LET s == nextIndex IN
  /\ pc = "dispatch" /\ HasTurn
  /\ nextIndex' = nextIndex + 1
  /\ \/ /\ outcomes' = [outcomes EXCEPT ![s] = "error"]
        /\ blamed' = [blamed EXCEPT ![s] = TRUE]
        /\ UNCHANGED <<state, job, late, mailbox>>
     \/ /\ name[s] /= BadName /\ Unoccupied(s)
        /\ state' = [state EXCEPT ![at] = "active"]
        /\ job' = [job EXCEPT ![at] = s]
        /\ late' = [late EXCEPT ![at] = FALSE]
        /\ mailbox' = [mailbox EXCEPT ![at] = s]
        /\ UNCHANGED <<outcomes, blamed>>
  /\ UNCHANGED <<input, final, temp, pc, at, bad, failure, raised, ending, phase, own, pipe,
                 doomed, wrote, told, interrupted, limits>>

\* The next child; after the last one the round ends.
Dispatched ==
  /\ pc = "dispatch" /\ ~HasTurn
  /\ IF at + 1 \in Children
       THEN at' = at + 1 /\ UNCHANGED pc
       ELSE GoTo(IF \A s \in Sources : outcomes[s] /= "none" THEN "stop" ELSE "poll")
  /\ UNCHANGED <<input, final, temp, state, job, late, nextIndex, outcomes, bad, failure,
                 raised, ending, procs, notes, limits>>

-----------------------------------------------------------------------------
(* The supervisor: _stop_all *)

\* The next child is stopped; after the last one the call ends: with the first
\* error of the shutdown, else with the interrupt, else with the results.
StopNext(error) ==
  /\ raised' = (raised \/ error)
  /\ IF at + 1 \in Children /\ Registered(at + 1)
       THEN at' = at + 1 /\ pc' = "stop" /\ UNCHANGED outcome
       ELSE /\ pc' = "done" /\ UNCHANGED at
            /\ outcome' = IF raised' THEN "raised"
                          ELSE IF interrupted THEN "interrupt" ELSE "results"

\* An idle child is asked to end; others are signalled at once.
Stop ==
  /\ pc = "stop"
  /\ IF Registered(at)
       THEN /\ pc' = IF state[at] = "idle" /\ Alive(at) THEN "join" ELSE "kill"
            /\ mailbox' = [mailbox EXCEPT ![at] = IF pc' = "join" THEN Quit ELSE @]
            /\ UNCHANGED <<at, raised, outcome>>
       ELSE StopNext(FALSE) /\ UNCHANGED mailbox
  /\ UNCHANGED <<input, final, temp, state, job, late, nextIndex, outcomes, bad, failure, loaded,
                 phase, own, pipe, doomed, notes, limits>>

\* The first join ends, with the child or with its timeout.
Join ==
  /\ pc = "join"
  /\ pc' = "kill"
  /\ UNCHANGED <<input, final, temp, at, state, job, late, nextIndex, outcomes, bad, failure,
                 raised, ending, procs, notes, limits>>

\* terminate and, if need be, kill.
Signal ==
  /\ pc = "kill"
  /\ doomed' = [doomed EXCEPT ![at] = TRUE]
  /\ pc' = "reap"
  /\ UNCHANGED <<input, final, temp, at, state, job, late, nextIndex, outcomes, bad, failure,
                 raised, ending, phase, own, mailbox, pipe, notes, limits>>

\* A variant of Reap that leaves the temporary path of an active child.
ReapUncleaned ==
  /\ pc = "reap" /\ ~Alive(at)
  /\ state' = [state EXCEPT ![at] = "idle"]
  /\ StopNext(FALSE)
  /\ UNCHANGED <<input, final, temp, job, late, nextIndex, outcomes, bad, failure, loaded, procs,
                 notes, limits>>

\* The child is gone and what it owned is cleaned; or the cleanup fails; or the
\* child survives even the kill and its temporary path is kept.
Reap ==
  /\ pc = "reap"
  /\ \/ /\ ~Alive(at)
        /\ temp' = IF state[at] = "active" THEN Cleaned(job[at]) ELSE temp
        /\ state' = [state EXCEPT ![at] = "idle"]
        /\ StopNext(FALSE)
        /\ UNCHANGED limits
     \/ /\ ~Alive(at) /\ state[at] = "active" /\ temp[name[job[at]]] = "ours"
        /\ MayFault
        /\ state' = [state EXCEPT ![at] = "idle"]
        /\ StopNext(TRUE)
        /\ UNCHANGED temp
     \/ /\ Alive(at)
        /\ MayFault
        /\ StopNext(TRUE)
        /\ UNCHANGED <<temp, state>>
  /\ UNCHANGED <<input, final, job, late, nextIndex, outcomes, bad, failure, loaded, procs, notes>>

Stopping == pc \in {"stop", "join", "kill", "reap"}

\* Ctrl-C in the supervisor.  A child that is spawned but not yet in `workers`
\* is lost to _stop_all.  _stop_all handles no interrupt of its own: one that
\* comes while it stops the children leaves the rest of them as they are.
Interrupt ==
  /\ pc \in {"start", "register", "poll", "exit", "dispatch"} \/ Stopping
  /\ Trouble
  /\ interrupted' = TRUE
  /\ IF Stopping
       THEN /\ pc' = "done" /\ outcome' = "interrupt" /\ UNCHANGED at
            /\ unclean' = unclean \cup {w \in Children : at <= w}
       ELSE GoTo("stop") /\ UNCHANGED <<outcome, unclean>>
  /\ UNCHANGED <<input, final, temp, state, job, late, nextIndex, outcomes, bad, failure, loaded,
                 raised, procs, blamed, wrote, told>>

-----------------------------------------------------------------------------
(* DatasetRuntime.from_cache_sources *)

\* The sources with these outcomes, in input order.
WithOutcome(kinds) ==
  LET upTo[s \in 0..N] ==
        IF s = 0 THEN <<>>
        ELSE IF outcomes[s] \in kinds THEN Append(upTo[s - 1], s) ELSE upTo[s - 1]
  IN upTo[N]

\* A variant of SuccessfulPaths that leaves out the failed sources only.
SuccessfulPathsUnfailed == LET sources == WithOutcome({"success", "none"})
                           IN  [k \in DOMAIN sources |-> name[sources[k]]]

\* _successful_cache_paths: the caches of the successful sources, in input order.
SuccessfulPaths == LET sources == WithOutcome({"success"})
                   IN  [k \in DOMAIN sources |-> name[sources[k]]]

\* write_cache returns the results; from_cache_sources has a dataset to load.
Returns == ~reuse

\* The successful caches are loaded, or there is none and the results come
\* back as a CacheSourcesDatasetError.  A cache that cannot be loaded raises.
LoadDataset ==
  /\ pc = "done" /\ outcome = "results" /\ ~Returns
  /\ \/ SuccessfulPaths = <<>> /\ outcome' = "no dataset" /\ UNCHANGED loaded
     \/ SuccessfulPaths /= <<>> /\ outcome' = "dataset" /\ loaded' = SuccessfulPaths
     \/ SuccessfulPaths /= <<>> /\ outcome' = "raised" /\ UNCHANGED loaded
  /\ UNCHANGED <<input, final, temp, pc, at, state, job, late, nextIndex, outcomes, bad,
                 failure, raised, procs, notes, limits>>

\* The call has come back to its caller.
Over == pc = "done" /\ (outcome = "results" => Returns)

Supervise ==
  \/ Preflight \/ Start \/ Register \/ PollMessage \/ PollNothing \/ PollExit
  \/ Dispatch \/ Dispatched \/ Stop \/ Join \/ Signal \/ Reap
  \/ LoadDataset

-----------------------------------------------------------------------------
(* The children: _worker, _run_source and write_named_source *)

Goes(w, place) == phase' = [phase EXCEPT ![w] = place]

Send(w, kind, ok) == pipe' = [pipe EXCEPT ![w] = Append(@, Message(kind, ok))]

\* The native runtime exists.
Boot(w) ==
  /\ phase[w] = "boot"
  /\ Goes(w, "waiting") /\ Send(w, "ready", TRUE)
  /\ UNCHANGED <<input, final, temp, super, own, mailbox, doomed, notes, limits>>

\* _run_source returns and the child waits for its next job.
Report(w, ok) ==
  /\ Goes(w, "waiting") /\ Send(w, "finished", ok)

Blame(source, failed) == blamed' = [blamed EXCEPT ![source] = @ \/ failed]

\* jobs.get(): the end, a job that cannot be unpickled, or a source to write.
\* An existing cache is reused, or refused by the validation or without reuse;
\* otherwise CacheBuilder::create makes the temporary directory, or fails.
Take(w) ==
  LET s == mailbox[w]
      n == name[s]
  IN
  /\ phase[w] = "waiting" /\ s /= Empty
  /\ mailbox' = [mailbox EXCEPT ![w] = Empty]
  /\ \/ s = Quit /\ Goes(w, "dead") /\ UNCHANGED <<own, pipe, temp, blamed>>
     \/ /\ s /= Quit
        /\ Goes(w, "dead") /\ Send(w, "failed", FALSE)
        /\ UNCHANGED <<own, temp, blamed>>
     \/ /\ s /= Quit /\ final[n] /= "absent"
        /\ \E ok \in IF reuse THEN BOOLEAN ELSE {FALSE} : Report(w, ok) /\ Blame(s, ~ok)
        /\ UNCHANGED <<own, temp>>
     \/ /\ s /= Quit /\ final[n] = "absent"
        /\ Report(w, FALSE) /\ Blame(s, TRUE)
        /\ temp' = [temp EXCEPT ![n] = "absent"]
        /\ UNCHANGED own
     \/ /\ s /= Quit /\ final[n] = "absent"
        /\ own' = [own EXCEPT ![w] = s]
        /\ temp' = [temp EXCEPT ![n] = "ours"]
        /\ Goes(w, "writing")
        /\ UNCHANGED <<pipe, blamed>>
  /\ UNCHANGED <<input, final, super, doomed, wrote, told, interrupted, limits>>

\* The write fails: the temporary path is cleaned, except when iter(source)
\* itself raises.
WriteFails(w) ==
  /\ phase[w] = "writing"
  /\ temp' \in {temp, [temp EXCEPT ![name[own[w]]] = "absent"]}
  /\ Report(w, FALSE) /\ Blame(own[w], TRUE)
  /\ own' = [own EXCEPT ![w] = 0]
  /\ UNCHANGED <<input, final, super, mailbox, doomed, wrote, told, interrupted, limits>>

\* The source is written and publish_cache renames its directory.
Publish(w) ==
  LET n == name[own[w]] IN
  /\ phase[w] = "writing"
  /\ final' = [final EXCEPT ![n] = "new"]
  /\ temp' = [temp EXCEPT ![n] = "absent"]
  /\ wrote' = [wrote EXCEPT ![own[w]] = TRUE]
  /\ Goes(w, "published")
  /\ UNCHANGED <<input, super, own, mailbox, pipe, doomed, blamed, told, interrupted, limits>>

ReportPublished(w) ==
  /\ phase[w] = "published"
  /\ Report(w, TRUE)
  /\ own' = [own EXCEPT ![w] = 0]
  /\ UNCHANGED <<input, final, temp, super, mailbox, doomed, notes, limits>>

\* An interrupt is raised in the child: the write cleans up, and the child
\* reports the interrupt and ends.
ChildInterrupt(w) ==
  /\ phase[w] \in {"boot", "waiting", "writing", "published"}
  /\ Trouble
  /\ temp' \in IF phase[w] = "writing" THEN {temp, [temp EXCEPT ![name[own[w]]] = "absent"]}
                                       ELSE {temp}
  /\ Send(w, "interrupted", FALSE)
  /\ Goes(w, "leaving")
  /\ told' = TRUE
  /\ own' = [own EXCEPT ![w] = 0]
  /\ UNCHANGED <<input, final, super, mailbox, doomed, blamed, wrote, interrupted,
                 unclean>>

\* The child ends after it reported an interrupt, or because nobody reads what
\* it sends; it dies, or is killed by stop().
Exit(w) ==
  /\ Alive(w)
  /\ IF phase[w] = "leaving" \/ doomed[w] \/ Orphan(w) THEN UNCHANGED troubles ELSE Trouble
  /\ Goes(w, "dead")
  /\ own' = [own EXCEPT ![w] = 0]
  /\ UNCHANGED <<input, final, temp, super, mailbox, pipe, doomed, notes, unclean>>

\* The deadline of a starting or active child passes.
Expire(w) ==
  /\ state[w] \in {"starting", "active"} /\ ~late[w]
  /\ late' = [late EXCEPT ![w] = TRUE]
  /\ UNCHANGED <<input, final, temp, pc, at, state, job, nextIndex, outcomes, bad, failure,
                 raised, ending, procs, notes, limits>>

ChildStep(w) ==
  Boot(w) \/ Take(w) \/ WriteFails(w) \/ Publish(w) \/ ReportPublished(w)

Ended == Over /\ UNCHANGED vars

Next ==
  \/ Supervise \/ Interrupt \/ Ended
  \/ \E w \in Children : ChildStep(w) \/ ChildInterrupt(w) \/ Exit(w) \/ Expire(w)

Spec == Init /\ [][Next]_vars

\* The supervisor runs, time passes and a killed process dies.  Children are
\* promised nothing: each may hang at any step.
Fairness ==
  /\ WF_vars(Supervise)
  /\ \A w \in Children : WF_vars(Expire(w)) /\ WF_vars(doomed[w] /\ Exit(w))

FairSpec == Spec /\ Fairness

-----------------------------------------------------------------------------
(* Properties *)

\* The results are honest: a success has a cache, a source without an outcome
\* is explained by a pool failure, and an error without one is the source's
\* own and has published nothing.  A dataset has one cache for every success, in
\* the order of the sources and not of their completion, and each of them exists;
\* there is no dataset only if no source has succeeded.
HonestOutcomes ==
  /\ outcome \in {"results", "dataset", "no dataset"} => \A s \in Sources :
       /\ outcomes[s] = "success" => final[name[s]] /= "absent"
       /\ outcomes[s] = "none" => failure
       /\ outcomes[s] = "error" => blamed[s] /\ ~wrote[s]
  /\ outcome = "dataset" =>
       \E position \in [Sources -> 0..N] :
         /\ \A s \in Sources : IF outcomes[s] = "success"
                                THEN position[s] \in DOMAIN loaded /\ loaded[position[s]] = name[s]
                                ELSE position[s] = 0
         /\ \A s, t \in Sources : s < t /\ position[s] /= 0 /\ position[t] /= 0
                                    => position[s] < position[t]
         /\ \A k \in DOMAIN loaded : (\E s \in Sources : position[s] = k)
                                     /\ final[loaded[k]] /= "absent"
  /\ outcome = "no dataset" => \A s \in Sources : outcomes[s] /= "success"

\* However the call ends, every child is gone and nothing of theirs is left in the
\* temporary directory, with two exceptions.  A child whose own shutdown or
\* cleanup failed, or was not reached because an interrupt cut _stop_all short,
\* may be left with the directory of its one source.  An interrupt between the
\* spawn of a child and its entry in `workers` leaves that child running: a single
\* one, which has no source, gets none and so writes nothing.
NothingLeft ==
  pc = "done" =>
    /\ \A w \in Children : Alive(w) =>
         \/ w \in unclean
         \/ Orphan(w) /\ interrupted /\ own[w] = 0 /\ mailbox[w] = Empty
    /\ \A v, w \in Children : Orphan(v) /\ Orphan(w) => v = w
    /\ \A n \in Names : temp[n] = "ours" =>
         \E w \in unclean : job[w] \in Sources /\ name[job[w]] = n

\* Supervisor and child agree: an idle child has an empty mailbox whenever one
\* is put into it and no outcome on its way, and nobody else works on the
\* source of an active one.  So neither a full mailbox nor a protocol violation
\* is ever met, and no source is written twice.  The temporary path of a child
\* that is writing is never removed under it: a destination is released only
\* after its writer has stopped.
Agreement ==
  \A w \in Children :
    /\ phase[w] = "writing" => temp[name[own[w]]] = "ours"
    /\ state[w] = "idle" /\ ~Stopping /\ pc /= "done" =>
         mailbox[w] = Empty /\ \A k \in DOMAIN pipe[w] : pipe[w][k].kind = "interrupted"
    /\ state[w] = "active" => \A v \in Children \ {w} :
         Alive(v) /\ phase[v] \in {"writing", "published"} => own[v] /= job[w]

\* The call returns although any child may hang for ever at any step.
CallReturns == <>Over

-----------------------------------------------------------------------------
(* What the documentation says and the code does not do *)

\* An interrupt that a child has reported comes out of the call.
InterruptPropagates == told /\ pc = "done" => outcome \in {"interrupt", "raised"}

=============================================================================
