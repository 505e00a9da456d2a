------------------------ MODULE ParallelWriterProofs ------------------------
(***************************************************************************)
(* The safety of write_parallel, for every number of sources, processes    *)
(* and troubles, and every input.                                          *)
(***************************************************************************)
EXTENDS ParallelWriter, WellFoundedInduction, TLAPS

Working == {"start", "register", "poll", "exit", "dispatch"}
Ending  == {"stop", "join", "kill", "reap"}
Kept    == {"results", "dataset", "no dataset"}
Messages == [kind : {"ready", "finished", "interrupted", "failed"}, ok : BOOLEAN]
States   == {"absent", "unregistered", "starting", "idle", "active"}
Live     == {"boot", "waiting", "writing", "published"}

\* The types of the variables the argument is about.
Typed ==
  /\ name \in [Sources -> Names \cup {BadName}]
  /\ final \in [Names -> {"absent", "old", "new"}]
  /\ temp \in [Names -> {"absent", "stale", "ours"}]
  /\ pc \in {"preflight", "done"} \cup Working \cup Ending
  /\ at \in Children
  /\ state \in [Children -> States]
  /\ job \in [Children -> 0..N]
  /\ nextIndex \in 1..(N + 1)
  /\ outcomes \in [Sources -> {"none", "success", "error"}]
  /\ phase \in [Children -> Live \cup {"absent", "leaving", "dead"}]
  /\ own \in [Children -> 0..N]
  /\ mailbox \in [Children -> -1..N]
  /\ pipe \in [Children -> Seq(Messages)]
  /\ blamed \in [Sources -> BOOLEAN] /\ wrote \in [Sources -> BOOLEAN]
  /\ failure \in BOOLEAN /\ interrupted \in BOOLEAN
  /\ unclean \in SUBSET Children

Distinct == \A s, t \in Sources : s /= t => ~SameDestination(s, t)

\* Children are started in turn, and only for sources with destinations of
\* their own.  Only an interrupt leaves one unregistered, the last one.
Roster ==
  /\ \A w \in Children : state[w] = "absent" <=> phase[w] = "absent"
  /\ pc = "preflight" => at = 1 /\ \A w \in Children : state[w] = "absent"
  /\ pc = "start" => \A w \in Children : state[w] = "absent" <=> at <= w
  /\ pc = "register" => /\ state[at] = "unregistered"
                        /\ \A w \in Children : state[w] = "absent" <=> at < w
  /\ \A w \in Children : state[w] = "unregistered" =>
       (pc = "register" /\ at = w) \/ (pc \in Ending \cup {"done"} /\ interrupted)
  /\ pc \in {"join", "kill", "reap"} => Registered(at)
  /\ pc \in {"poll", "exit", "dispatch"} => \A w \in Children : state[w] /= "absent"
  /\ \A v, w \in Children : v < w /\ state[w] /= "absent" => Registered(v)
  /\ Distinct \/ (pc \in {"preflight", "done"} /\ \A w \in Children : state[w] = "absent")

\* A source that a child has been given.
Given(w) ==
  /\ job[w] \in Sources /\ job[w] < nextIndex /\ outcomes[job[w]] = "none"
  /\ name[job[w]] \in Names /\ name[job[w]] /= BadName

\* What a child does is what it was told.
Tasked(w) ==
  /\ state[w] = "active" => Given(w)
  /\ state[w] \in {"absent", "unregistered"} => own[w] = 0 /\ mailbox[w] = Empty
  /\ phase[w] \in {"writing", "published"} =>
       state[w] = "active" /\ own[w] = job[w] /\ mailbox[w] = Empty
  /\ Alive(w) /\ mailbox[w] \in Sources =>
       state[w] = "active" /\ mailbox[w] = job[w] /\ ~wrote[job[w]]
  /\ phase[w] = "writing" => ~wrote[own[w]] /\ temp[name[own[w]]] = "ours"
  /\ phase[w] = "published" => final[name[own[w]]] /= "absent"

\* No source has two children.
Apart ==
  \A v, w \in Children : v /= w /\ state[v] = "active" /\ state[w] = "active" => job[v] /= job[w]

Quiet(q) == \A k \in DOMAIN q : q[k].kind = "interrupted"

\* A pipe with at most one answer of these kinds, and nothing after it while the
\* child lives on.
Answer(q, kinds, live) ==
  q /= <<>> => /\ Head(q).kind \in kinds \cup (IF live THEN {} ELSE {"interrupted"})
               /\ Quiet(Tail(q)) /\ (live => Tail(q) = <<>>)

\* What an outcome on its way says of its source.
Truthful(m, s) ==
  m.kind = "finished" => IF m.ok THEN final[name[s]] /= "absent" ELSE blamed[s] /\ ~wrote[s]

\* The conversation of supervisor and child, until the pool is stopped.
Talk(w) ==
  LET live == phase[w] \in Live IN
  /\ state[w] = "absent" => mailbox[w] = Empty /\ pipe[w] = <<>>
  /\ state[w] \in {"unregistered", "starting"} =>
       /\ mailbox[w] = Empty
       /\ phase[w] = "boot" => pipe[w] = <<>>
       /\ Answer(pipe[w], {"ready"}, live)
  /\ state[w] = "idle" =>
       /\ mailbox[w] = Empty /\ phase[w] /= "boot"
       /\ Answer(pipe[w], {}, live)
  /\ state[w] = "active" =>
       /\ mailbox[w] \in {Empty, job[w]} /\ phase[w] /= "boot"
       /\ phase[w] \in {"writing", "published"} => pipe[w] = <<>>
       /\ mailbox[w] = job[w] => Answer(pipe[w], {}, live)
       /\ Answer(pipe[w], {"finished", "failed"}, live)
       /\ pipe[w] /= <<>> => Truthful(Head(pipe[w]), job[w])

Talks == pc \in {"preflight"} \cup Working => \A w \in Children : Talk(w)

Settled == \A s \in Sources : outcomes[s] /= "none"

\* The outcomes are honest and complete, or the lack of one is explained.
Ledger ==
  /\ pc = "preflight" => nextIndex = 1
  /\ \A s \in Sources : nextIndex <= s => ~wrote[s]
  /\ pc \in {"preflight"} \cup Working =>
       \A s \in Sources : nextIndex <= s => outcomes[s] = "none"
  /\ \A s \in Sources :
       /\ outcomes[s] = "success" => name[s] \in Names /\ final[name[s]] /= "absent"
       /\ outcomes[s] = "error" => blamed[s] /\ ~wrote[s]
  /\ pc \in Ending => failure \/ interrupted \/ Settled
  /\ outcome \in Kept => pc = "done" /\ (failure \/ Settled)
  /\ outcome = "dataset" => loaded = SuccessfulPaths
  /\ outcome = "no dataset" => SuccessfulPaths = <<>>

\* The child has, or had when its cleanup failed, the source with destination n.
Owner(w, n) ==
  (state[w] = "active" \/ w \in unclean) /\ job[w] \in Sources /\ name[job[w]] = n

\* The child is gone with what it made, or there is a reason why not.
Gone(w) == w \in unclean \/ (state[w] /= "active" /\ (Alive(w) => state[w] = "unregistered"))

\* What children have made belongs to a child that will be reaped or could not be.
Tidy ==
  /\ pc \in {"preflight"} \cup Working => unclean = {}
  /\ \A n \in Names : temp[n] = "ours" => \E w \in Children : Owner(w, n)
  /\ pc \in Ending => \A v \in Children : v < at => Gone(v)
  /\ pc = "done" => \A v \in Children : Gone(v)

Tasks == \A w \in Children : Tasked(w)

Inv == Typed /\ Roster /\ Tasks /\ Apart /\ Talks /\ Ledger /\ Tidy

-----------------------------------------------------------------------------
(* Lemmas *)

\* Children are numbered from 1.
LEMMA ChildFacts ==
  /\ 1 \in Children /\ \A w \in Children : w \in Nat /\ 1 <= w
  /\ \A w \in Children : w + 1 \notin Children => \A v \in Children : v <= w
BY ParallelAssumption DEF Children

\* A step leaves child v, its source and its destination alone.
Spared(v) ==
  /\ name' = name /\ nextIndex <= nextIndex'
  /\ phase'[v] = phase[v] /\ own'[v] = own[v] /\ mailbox'[v] = mailbox[v]
  /\ state'[v] = state[v] /\ job'[v] = job[v]
  /\ state[v] = "active" =>
       /\ outcomes'[job[v]] = outcomes[job[v]]
       /\ wrote'[job[v]] => wrote[job[v]]
       /\ blamed[job[v]] => blamed'[job[v]]
       /\ temp'[name[job[v]]] = temp[name[job[v]]]
       /\ final[name[job[v]]] /= "absent" => final'[name[job[v]]] /= "absent"

\* Such a child goes on as it was told.
LEMMA SparedTasked ==
  ASSUME NEW v \in Children, Typed, Typed', Tasked(v), Spared(v)
  PROVE  Tasked(v)'
<1>1. state[v] = "active" => job[v] < nextIndex'
  <2>1. state[v] = "active" => job[v] < nextIndex
    BY Zenon DEF Tasked, Given
  <2>2. job[v] \in Int /\ nextIndex \in Int /\ nextIndex' \in Int
    BY ParallelAssumption DEF Typed
  <2>3. nextIndex <= nextIndex'
    BY Zenon DEF Spared
  <2> QED BY <2>1, <2>2, <2>3
<1>2. Given(v) /\ state[v] = "active" => Given(v)'
  BY <1>1, Zenon DEF Spared, Given
<1>3. (state[v] = "active" => Given(v))'
  BY <1>2, Zenon DEF Spared, Tasked
<1>8. (state[v] \in {"absent", "unregistered"} => own[v] = 0 /\ mailbox[v] = Empty)'
  BY Zenon DEF Spared, Tasked, Empty
<1>4. (phase[v] \in {"writing", "published"} =>
         state[v] = "active" /\ own[v] = job[v] /\ mailbox[v] = Empty)'
  BY Zenon DEF Spared, Tasked, Empty
<1>5. (Alive(v) /\ mailbox[v] \in Sources =>
         state[v] = "active" /\ mailbox[v] = job[v] /\ ~wrote[job[v]])'
  BY Zenon DEF Spared, Tasked, Alive
<1>6. (phase[v] = "writing" => ~wrote[own[v]] /\ temp[name[own[v]]] = "ours")'
  BY Zenon DEF Spared, Tasked
<1>7. (phase[v] = "published" => final[name[own[v]]] /= "absent")'
  BY Zenon DEF Spared, Tasked
<1> QED BY <1>3, <1>4, <1>5, <1>6, <1>7, <1>8, Zenon DEF Tasked

\* And so does the conversation with it.
LEMMA SparedTalk ==
  ASSUME NEW v \in Children, Talk(v), Spared(v), pipe'[v] = pipe[v]
  PROVE  Talk(v)'
<1>1. state[v] = "active" /\ pipe[v] /= <<>> /\ Truthful(Head(pipe[v]), job[v]) =>
        Truthful(Head(pipe[v]), job[v])'
  BY Zenon DEF Spared, Truthful
<1> QED BY <1>1, Zenon DEF Spared, Talk, Empty

\* Everything the children's tasks and the outcomes depend on.
still == <<name, final, temp, state, job, nextIndex, outcomes, phase, own, mailbox, blamed,
           wrote>>

\* A step of the supervisor that touches none of that.
LEMMA StillChildren ==
  ASSUME Inv, Typed', UNCHANGED still
  PROVE  /\ Tasks' /\ Apart'
         /\ \A w \in Children : Talk(w) /\ pipe'[w] = pipe[w] => Talk(w)'
         /\ Distinct' <=> Distinct
         /\ Settled' <=> Settled
         /\ SuccessfulPaths' = SuccessfulPaths
<1>1. nextIndex <= nextIndex'
  BY ParallelAssumption DEF Inv, Typed, still
<1>2. \A v \in Children : Spared(v)
  BY <1>1, Zenon DEF Spared, still
<1>3. Tasks'
  BY <1>2, SparedTasked, Zenon DEF Inv, Tasks
<1>4. \A w \in Children : Talk(w) /\ pipe'[w] = pipe[w] => Talk(w)'
  BY <1>2, SparedTalk, Zenon
<1>5. Apart'
  BY Zenon DEF Inv, Apart, still
<1>6. (Distinct' <=> Distinct) /\ (Settled' <=> Settled)
  BY Zenon DEF Distinct, SameDestination, Settled, still
<1>7. SuccessfulPaths' = SuccessfulPaths
  BY SMT DEF SuccessfulPaths, WithOutcome, still
<1> QED BY <1>3, <1>4, <1>5, <1>6, <1>7, Zenon

\* Nor the pipes.
LEMMA CalmTalks ==
  ASSUME Inv, UNCHANGED still, UNCHANGED pipe, pc \in Working
  PROVE  pipe' \in [Children -> Seq(Messages)] /\ \A w \in Children : Talk(w)'
<1>1. nextIndex <= nextIndex'
  BY ParallelAssumption DEF Inv, Typed, still
<1>2. \A v \in Children : Spared(v) /\ Talk(v) /\ pipe'[v] = pipe[v]
  BY <1>1, Zenon DEF Inv, Talks, Spared, still
<1> QED BY <1>2, SparedTalk, Zenon DEF Inv, Typed

\* The supervisor looks at the next child or goes on with its round.
LEMMA RoundGoesOn ==
  ASSUME Inv, UNCHANGED still, pipe' \in [Children -> Seq(Messages)],
         \A w \in Children : Talk(w)',
         pc \in {"poll", "exit", "dispatch"},
         pc' \in {"poll", "exit", "dispatch"}, at' \in Children, failure' \in BOOLEAN,
         UNCHANGED <<interrupted, unclean, outcome, loaded>>
  PROVE  Inv'
<1>1. Typed'
  BY Zenon DEF Inv, Typed, Working, still
<1>2. /\ Tasks' /\ Apart'
      /\ (Distinct' <=> Distinct) /\ (Settled' <=> Settled) /\ SuccessfulPaths' = SuccessfulPaths
  BY <1>1, StillChildren, Zenon
<1>3. /\ pc \in Working /\ pc' \in Working /\ pc' /= "preflight" /\ pc' /= "start"
      /\ pc' /= "done" /\ pc' \notin Ending /\ pc /= "done" /\ pc /= "preflight"
      /\ pc' \notin {"join", "kill", "reap"}
  BY DEF Working, Ending
<1>8. \A w \in Children : state'[w] /= "unregistered" /\ state'[w] /= "absent"
  <2>1. pc /= "register" /\ pc \notin Ending \cup {"done"} /\ pc' /= "register"
    BY <1>3 DEF Ending
  <2> QED BY <2>1, Zenon DEF Inv, Roster, still
<1>4. Roster'
  <2>1. pc' /= "register"
    BY Zenon
  <2>2. Distinct /\ \A w \in Children : phase'[w] /= "absent" /\ Registered(w)'
    BY <1>3, <1>8, Zenon DEF Inv, Roster, Registered, still
  <2> QED BY <1>2, <1>3, <1>8, <2>1, <2>2, Zenon DEF Roster
<1>5. Talks'
  BY Zenon DEF Talks
<1>6. Ledger'
  BY <1>2, <1>3, Zenon DEF Inv, Ledger, still
<1>7. Tidy'
  BY <1>3, Zenon DEF Inv, Tidy, Owner, still
<1> QED BY <1>1, <1>2, <1>4, <1>5, <1>6, <1>7, Zenon DEF Inv

\* The supervisor begins to stop the children, for a reason.
LEMMA StopBegins ==
  ASSUME Inv, UNCHANGED still, pipe' \in [Children -> Seq(Messages)],
         pc \in Working, pc' = "stop", at' = 1,
         failure' \in BOOLEAN, interrupted' \in BOOLEAN,
         failure' \/ interrupted' \/ Settled, interrupted' \/ pc /= "register",
         UNCHANGED <<unclean, outcome, loaded>>
  PROVE  Inv'
<1>1. Typed'
  BY ChildFacts, Zenon DEF Inv, Typed, Ending, still
<1>2. /\ Tasks' /\ Apart' /\ (Settled' <=> Settled)
      /\ (Distinct' <=> Distinct) /\ SuccessfulPaths' = SuccessfulPaths
  BY <1>1, StillChildren, Zenon
<1>3. /\ pc' \notin Working /\ pc' \in Ending /\ pc /= "done" /\ pc /= "preflight"
  BY DEF Working, Ending
<1>4. Roster'
  <2>1. pc \notin Ending \cup {"done"} /\ pc' /= "register" /\ pc' /= "start"
        /\ pc' \notin {"poll", "exit", "dispatch"} /\ pc' /= "preflight" /\ pc' /= "done"
        /\ pc' \notin {"join", "kill", "reap"}
    BY <1>3 DEF Working, Ending
  <2>2. \A w \in Children : state[w] = "unregistered" => interrupted'
    BY <2>1, Zenon DEF Inv, Roster
  <2>3. \A v, w \in Children : v < w /\ state'[w] /= "absent" => Registered(v)'
    BY Zenon DEF Inv, Roster, Registered, still
  <2> QED BY <1>2, <1>3, <2>1, <2>2, <2>3, Zenon DEF Inv, Roster, still
<1>5. Talks'
  BY <1>3, Zenon DEF Talks
<1>6. Ledger'
  BY <1>2, <1>3, Zenon DEF Inv, Ledger, still
<1>7. Tidy'
  <2>1. \A v \in Children : ~(v < 1)
    BY ChildFacts
  <2>2. pc' /= "done" /\ pc' /= "preflight"
    OBVIOUS
  <2> QED BY <1>3, <2>1, <2>2, Zenon DEF Inv, Tidy, Owner, still
<1> QED BY <1>1, <1>2, <1>4, <1>5, <1>6, <1>7, Zenon DEF Inv

\* A step within _stop_all that keeps the child it looks at.
LEMMA StopGoesOn ==
  ASSUME Inv, UNCHANGED <<still, pipe>>, pc \in Ending, pc' \in Ending,
         Registered(at),
         UNCHANGED <<at, failure, interrupted, unclean, outcome, loaded>>
  PROVE  Inv'
<1>1. Typed'
  BY Zenon DEF Inv, Typed, still
<1>2. /\ Tasks' /\ Apart' /\ (Settled' <=> Settled)
      /\ (Distinct' <=> Distinct) /\ SuccessfulPaths' = SuccessfulPaths
  BY <1>1, StillChildren, Zenon
<1>3. /\ pc' \notin Working /\ pc /= "done" /\ pc /= "preflight" /\ pc' /= "done"
      /\ pc' /= "preflight" /\ pc' \notin {"start", "register", "poll", "exit", "dispatch"}
      /\ pc /= "register"
  BY DEF Working, Ending
<1>4. Roster'
  BY <1>2, <1>3, Zenon DEF Inv, Roster, Registered, still
<1>5. Talks'
  BY <1>3, Zenon DEF Talks
<1>6. Ledger'
  BY <1>2, <1>3, Zenon DEF Inv, Ledger, still
<1>7. Tidy'
  BY <1>3, Zenon DEF Inv, Tidy, Owner, Gone, Alive, still
<1> QED BY <1>1, <1>2, <1>4, <1>5, <1>6, <1>7, Zenon DEF Inv

\* The call ends: every child is gone, or there is a reason why not.
LEMMA StopEnds ==
  ASSUME Inv, UNCHANGED <<still, pipe>>, pc \in Ending, pc' = "done",
         UNCHANGED <<at, failure, loaded>>,
         interrupted' \in BOOLEAN, interrupted => interrupted',
         unclean' \in SUBSET Children, unclean \subseteq unclean',
         outcome' \in Kept => outcome' = "results" /\ ~interrupted,
         \A v \in Children : Gone(v)'
  PROVE  Inv'
<1>1. Typed'
  BY Zenon DEF Inv, Typed, still
<1>2. /\ Tasks' /\ Apart' /\ (Settled' <=> Settled)
      /\ (Distinct' <=> Distinct) /\ SuccessfulPaths' = SuccessfulPaths
  BY <1>1, StillChildren, Zenon
<1>3. /\ pc' \notin Working /\ pc' \notin Ending /\ pc \notin {"preflight", "done"}
      /\ "dataset" \in Kept /\ "no dataset" \in Kept
  BY DEF Working, Ending, Kept
<1>4. Roster'
  <2>1. pc' /= "start" /\ pc' /= "register" /\ pc' /= "preflight" /\ pc /= "register"
        /\ pc' \notin {"join", "kill", "reap"} /\ pc' \notin {"poll", "exit", "dispatch"}
    BY DEF Ending
  <2> QED BY <1>2, <1>3, <2>1, Zenon DEF Inv, Roster, Registered, still
<1>5. Talks'
  BY <1>3, Zenon DEF Talks
<1>6. Ledger'
  BY <1>2, <1>3, Zenon DEF Inv, Ledger, still
<1>7. Tidy'
  <2>1. \A n \in Names : temp'[n] = "ours" => \E w \in Children : Owner(w, n)'
    BY Zenon DEF Inv, Tidy, Owner, still
  <2> QED BY <1>3, <2>1, Zenon DEF Tidy
<1> QED BY <1>1, <1>2, <1>4, <1>5, <1>6, <1>7, Zenon DEF Inv

\* A step that only concerns what the argument leaves out.
LEMMA Unmoved ==
  ASSUME Inv, UNCHANGED <<still, pipe>>,
         UNCHANGED <<pc, at, failure, interrupted, unclean, outcome, loaded>>
  PROVE  Inv'
<1>1. Typed'
  BY Zenon DEF Inv, Typed, still
<1>2. /\ Tasks' /\ Apart' /\ (Settled' <=> Settled)
      /\ \A w \in Children : Talk(w) /\ pipe'[w] = pipe[w] => Talk(w)'
      /\ (Distinct' <=> Distinct) /\ SuccessfulPaths' = SuccessfulPaths
  BY <1>1, StillChildren, Zenon
<1>3. Roster'
  BY <1>2, Zenon DEF Inv, Roster, Registered, still
<1>4. Talks'
  BY <1>2, Zenon DEF Inv, Talks
<1>5. Ledger'
  BY <1>2, Zenon DEF Inv, Ledger, still
<1>6. Tidy'
  BY Zenon DEF Inv, Tidy, Owner, Gone, Alive, still
<1> QED BY <1>1, <1>2, <1>3, <1>4, <1>5, <1>6, Zenon DEF Inv

\* Time passes.
LEMMA ExpireInv == ASSUME Inv, NEW w \in Children, Expire(w) PROVE Inv'
<1>1. /\ UNCHANGED <<still, pipe>>
      /\ UNCHANGED <<pc, at, failure, interrupted, unclean, outcome, loaded>>
  BY Zenon DEF Expire, still, input, ending, procs, notes, limits
<1> QED BY <1>1, Unmoved, Zenon

\* The rest of a poll.
LEMMA PolledInv ==
  ASSUME Inv, UNCHANGED still, pipe' \in [Children -> Seq(Messages)],
         \A w \in Children : Talk(w)',
         pc \in {"poll", "exit"}, NEW error \in BOOLEAN, Polled(error),
         UNCHANGED <<interrupted, unclean, outcome, loaded>>
  PROVE  Inv'
<1>1. at \in Children /\ failure \in BOOLEAN /\ interrupted \in BOOLEAN
  BY Zenon DEF Inv, Typed
<1>2. bad' \in BOOLEAN
  BY Zenon DEF Polled
<1>3. pc \in {"poll", "exit", "dispatch"} /\ pc \in Working
  BY DEF Working
<1>4. CASE at + 1 \in Children
  <2>1. at' \in Children /\ pc' \in {"poll", "exit", "dispatch"} /\ failure' \in BOOLEAN
    BY <1>1, <1>4, Zenon DEF Polled
  <2> QED BY <1>3, <2>1, RoundGoesOn, Zenon
<1>5. CASE at + 1 \notin Children /\ bad' = TRUE
  <2>1. pc' = "stop" /\ at' = 1 /\ failure' = TRUE /\ pc /= "register"
    BY <1>5, Zenon DEF Polled, GoTo
  <2> QED BY <1>1, <1>3, <2>1, StopBegins, Zenon
<1>6. CASE at + 1 \notin Children /\ bad' = FALSE
  <2>1. pc' \in {"poll", "exit", "dispatch"} /\ at' \in Children /\ failure' \in BOOLEAN
    BY <1>6, ChildFacts, Zenon DEF Polled, GoTo
  <2> QED BY <1>3, <2>1, RoundGoesOn, Zenon
<1> QED BY <1>2, <1>4, <1>5, <1>6, Zenon

\* The polls that find no message.
LEMMA PollInv == ASSUME Inv, PollNothing \/ PollExit PROVE Inv'
<1>1. UNCHANGED <<still, pipe>> /\ UNCHANGED <<interrupted, unclean, outcome, loaded>>
  BY Zenon DEF PollNothing, PollExit, still, input, ending, procs, notes, limits
<1>2. pipe' \in [Children -> Seq(Messages)] /\ \A w \in Children : Talk(w)'
  <2>1. pc \in Working
    BY Zenon DEF PollNothing, PollExit, Working
  <2> QED BY <1>1, <2>1, CalmTalks, Zenon
<1>3. CASE PollNothing /\ Alive(at)
  <2>1. pc \in {"poll", "exit", "dispatch"} /\ pc' \in {"poll", "exit", "dispatch"}
        /\ at' \in Children /\ failure' \in BOOLEAN
    BY <1>3, Zenon DEF PollNothing, Inv, Typed
  <2> QED BY <1>1, <1>2, <2>1, RoundGoesOn, Zenon
<1>4. CASE PollNothing /\ ~Alive(at)
  <2>1. pc \in {"poll", "exit"} /\ Polled(TRUE)
    BY <1>4, Zenon DEF PollNothing
  <2> QED BY <1>1, <1>2, <2>1, PolledInv, Zenon
<1>5. CASE PollExit
  <2> DEFINE error == ~Alive(at) \/ (late[at] /\ state[at] \in {"starting", "active"})
  <2>1. pc \in {"poll", "exit"} /\ Polled(error)
    BY <1>5, Zenon DEF PollExit
  <2>2. error \in BOOLEAN
    OBVIOUS
  <2> HIDE DEF error
  <2> QED BY <1>1, <1>2, <2>1, <2>2, PolledInv, Zenon
<1> QED BY <1>3, <1>4, <1>5, Zenon

\* The end of a dispatch.
LEMMA DispatchedInv == ASSUME Inv, Dispatched PROVE Inv'
<1>1. UNCHANGED <<still, pipe>> /\ UNCHANGED <<interrupted, unclean, outcome, loaded, failure>>
  BY Zenon DEF Dispatched, still, input, ending, procs, notes, limits
<1>2. /\ at \in Children /\ failure \in BOOLEAN /\ interrupted \in BOOLEAN
      /\ pc = "dispatch" /\ failure' \in BOOLEAN /\ interrupted' \in BOOLEAN
  BY <1>1, Zenon DEF Inv, Typed, Dispatched
<1>3. pc \in {"poll", "exit", "dispatch"} /\ pc \in Working /\ pc /= "register"
  BY <1>2 DEF Working
<1>4. pipe' \in [Children -> Seq(Messages)] /\ \A w \in Children : Talk(w)'
  BY <1>1, <1>3, CalmTalks, Zenon
<1>5. CASE at + 1 \in Children
  <2>1. at' \in Children /\ pc' \in {"poll", "exit", "dispatch"}
    BY <1>2, <1>5, Zenon DEF Dispatched
  <2> QED BY <1>1, <1>2, <1>3, <1>4, <2>1, RoundGoesOn, Zenon
<1>6. CASE at + 1 \notin Children /\ Settled
  <2>1. at' = 1 /\ pc' = "stop"
    BY <1>6, Zenon DEF Dispatched, GoTo, Settled
  <2> QED BY <1>1, <1>2, <1>3, <1>4, <1>6, <2>1, StopBegins, Zenon
<1>7. CASE at + 1 \notin Children /\ ~Settled
  <2>1. at' \in Children /\ pc' \in {"poll", "exit", "dispatch"}
    BY <1>7, ChildFacts, Zenon DEF Dispatched, GoTo, Settled
  <2> QED BY <1>1, <1>2, <1>3, <1>4, <2>1, RoundGoesOn, Zenon
<1> QED BY <1>5, <1>6, <1>7, Zenon

\* Steps of _stop_all that only signal and wait.
LEMMA SignalInv == ASSUME Inv, Join \/ Signal PROVE Inv'
<1>1. UNCHANGED <<still, pipe>> /\ UNCHANGED <<at, failure, interrupted, unclean, outcome, loaded>>
  BY Zenon DEF Join, Signal, still, input, ending, procs, notes, limits
<1>2. pc \in Ending /\ pc' \in Ending /\ pc \in {"join", "kill"}
  BY DEF Join, Signal, Ending
<1>3. Registered(at)
  BY <1>2, Zenon DEF Inv, Roster
<1> QED BY <1>1, <1>2, <1>3, StopGoesOn, Zenon

\* An interrupt stops the children, or ends the shutdown.
LEMMA InterruptInv == ASSUME Inv, Interrupt PROVE Inv'
<1>1. UNCHANGED <<still, pipe>> /\ UNCHANGED <<failure, loaded>> /\ interrupted' = TRUE
  BY Zenon DEF Interrupt, still, input, ending, procs, notes, limits
<1>2. failure \in BOOLEAN /\ failure' \in BOOLEAN
  BY <1>1, Zenon DEF Inv, Typed
<1>3. CASE Stopping
  <2>1. pc \in Ending
    BY <1>3 DEF Stopping, Ending
  <2>2. pc' = "done" /\ outcome' = "interrupt" /\ UNCHANGED at
        /\ unclean' = unclean \cup {w \in Children : at <= w}
    BY <1>3, Zenon DEF Interrupt
  <2>4. unclean' \in SUBSET Children /\ unclean \subseteq unclean'
    BY <2>2, Zenon DEF Inv, Typed
  <2>5. ASSUME NEW v \in Children PROVE Gone(v)'
    <3>1. v < at \/ at <= v
      BY ChildFacts DEF Inv, Typed
    <3>2. CASE v < at
      <4>1. Gone(v)
        BY <2>1, <3>2, Zenon DEF Inv, Tidy
      <4> QED BY <1>1, <2>4, <4>1, Zenon DEF Gone, Alive, still
    <3>3. CASE at <= v
      BY <2>2, <3>3, Zenon DEF Gone
    <3> QED BY <3>1, <3>2, <3>3, Zenon
  <2>3. "interrupt" \notin Kept
    BY DEF Kept
  <2> QED BY <1>1, <1>2, <2>1, <2>2, <2>3, <2>4, <2>5, StopEnds, Zenon
<1>4. CASE ~Stopping
  <2>1. pc \in Working
    BY <1>4, Zenon DEF Interrupt, Working
  <2>2. pc' = "stop" /\ at' = 1 /\ UNCHANGED <<outcome, unclean>>
    BY <1>4, Zenon DEF Interrupt, GoTo
  <2>3. pipe' \in [Children -> Seq(Messages)]
    BY <1>1, Zenon DEF Inv, Typed
  <2> QED BY <1>1, <1>2, <2>1, <2>2, <2>3, StopBegins, Zenon
<1> QED BY <1>3, <1>4, Zenon

\* from_cache_sources loads what the call has written.
LEMMA LoadInv == ASSUME Inv, LoadDataset PROVE Inv'
<1>1. /\ UNCHANGED <<still, pipe>> /\ UNCHANGED <<pc, at, failure, interrupted, unclean>>
  BY Zenon DEF LoadDataset, still, input, ending, procs, notes, limits
<1>2. Typed'
  BY <1>1, Zenon DEF Inv, Typed, still
<1>3. /\ Tasks' /\ Apart' /\ (Settled' <=> Settled)
      /\ \A w \in Children : Talk(w) /\ pipe'[w] = pipe[w] => Talk(w)'
      /\ (Distinct' <=> Distinct) /\ SuccessfulPaths' = SuccessfulPaths
  BY <1>1, <1>2, StillChildren, Zenon
<1>4. Roster'
  BY <1>1, <1>3, Zenon DEF Inv, Roster, Registered, still
<1>5. Talks'
  BY <1>1, <1>3, Zenon DEF Inv, Talks
<1>6. Ledger'
  <2>1. outcome \in Kept /\ pc = "done" /\ pc \notin Ending
    BY DEF LoadDataset, Kept, Ending
  <2>2. failure \/ Settled
    BY <2>1, Zenon DEF Inv, Ledger
  <2>3. /\ outcome' = "dataset" => loaded' = SuccessfulPaths
        /\ outcome' = "no dataset" => SuccessfulPaths = <<>>
    BY Zenon DEF LoadDataset
  <2> QED BY <1>1, <1>3, <2>1, <2>2, <2>3, Zenon DEF Inv, Ledger, still
<1>7. Tidy'
  BY <1>1, Zenon DEF Inv, Tidy, Owner, Gone, Alive, still
<1> QED BY <1>2, <1>3, <1>4, <1>5, <1>6, <1>7, Zenon DEF Inv

-----------------------------------------------------------------------------
(* Starting *)

\* Two sources with one destination fail every source before a child exists.
LEMMA PreflightInv == ASSUME Inv, Preflight PROVE Inv'
<1>1. /\ UNCHANGED <<name, final, temp, at, state, job, nextIndex, failure, loaded, phase, own,
                     mailbox, pipe, wrote, interrupted, unclean>>
      /\ pc = "preflight" /\ nextIndex = 1 /\ at = 1
      /\ \A w \in Children : state[w] = "absent" /\ phase[w] = "absent"
  BY Zenon DEF Preflight, input, procs, limits, Inv, Roster, Ledger
<1>2. \A s \in Sources : 1 <= s
  BY DEF Sources
<1>3. \A s \in Sources : ~wrote[s] /\ outcomes[s] = "none"
  BY <1>1, <1>2, Zenon DEF Inv, Ledger
<1>4. \A w \in Children : ~Alive(w) /\ ~(Alive(w)') /\ state'[w] = "absent" /\ phase'[w] = "absent"
  BY <1>1, Zenon DEF Alive
<1>5. Tasks' /\ Apart'
  <2>1. \A w \in Children : own'[w] = 0 /\ mailbox'[w] = Empty
    BY <1>1, Zenon DEF Inv, Tasks, Tasked
  <2>2. 0 \notin Sources /\ Empty \notin Sources
    BY DEF Sources, Empty
  <2> QED BY <1>4, <2>1, <2>2, Zenon DEF Tasks, Tasked, Apart, Empty
<1>6. CASE \E s, t \in Sources : s /= t /\ SameDestination(s, t)
  <2>1. /\ outcomes' = [s \in Sources |-> "error"] /\ blamed' = [s \in Sources |-> TRUE]
        /\ pc' = "done" /\ outcome' = "results"
    BY <1>6, Zenon DEF Preflight
  <2>2. Typed'
    BY <1>1, <2>1, Zenon DEF Inv, Typed
  <2>3. pc' \notin Working /\ pc' \notin Ending
    BY <2>1 DEF Working, Ending
  <2>4. Roster'
    BY <1>1, <2>1, Zenon DEF Roster
  <2>5. Talks'
    BY <2>1, <2>3, Zenon DEF Talks
  <2>6. Ledger'
    BY <1>1, <1>3, <2>1, <2>3, Zenon DEF Ledger, Settled
  <2>7. Tidy'
    BY <1>1, <1>4, <2>1, <2>3, Zenon DEF Inv, Tidy, Owner, Gone
  <2> QED BY <1>5, <2>2, <2>4, <2>5, <2>6, <2>7, Zenon DEF Inv
<1>7. CASE ~\E s, t \in Sources : s /= t /\ SameDestination(s, t)
  <2>1. /\ blamed' = [s \in Sources |-> name[s] = BadName]
        /\ pc' = "start" /\ outcome' = outcome /\ outcomes' = outcomes
    BY <1>7, Zenon DEF Preflight
  <2>2. Typed'
    BY <1>1, <2>1, Zenon DEF Inv, Typed, Working
  <2>3. pc' \in Working /\ pc' \notin Ending
    BY <2>1 DEF Working, Ending
  <2>4. Roster'
    <3>1. Distinct'
      BY <1>1, <1>7, Zenon DEF Distinct, SameDestination
    <3> QED BY <1>1, <2>1, <3>1, ChildFacts, Zenon DEF Roster
  <2>5. Talks'
    <3>1. \A w \in Children : mailbox[w] = Empty /\ pipe[w] = <<>>
      BY <1>1, Zenon DEF Inv, Talks, Talk
    <3> QED BY <1>1, <3>1, Zenon DEF Talks, Talk, Empty
  <2>6. Ledger'
    <3>1. outcome \notin Kept
      BY <1>1, Zenon DEF Inv, Ledger
    <3>2. outcome /= "dataset" /\ outcome /= "no dataset"
      BY <3>1 DEF Kept
    <3> QED BY <1>1, <1>3, <2>1, <2>3, <3>1, <3>2, Zenon DEF Ledger
  <2>7. Tidy'
    BY <1>1, <1>4, <2>1, <2>3, Zenon DEF Inv, Tidy, Owner, Gone
  <2> QED BY <1>5, <2>2, <2>4, <2>5, <2>6, <2>7, Zenon DEF Inv
<1> QED BY <1>6, <1>7, Zenon

\* A call that has not ended has no results yet.
LEMMA NotEnded ==
  ASSUME Inv, pc /= "done"
  PROVE  outcome \notin Kept /\ outcome /= "dataset" /\ outcome /= "no dataset"
<1>1. outcome \notin Kept
  BY Zenon DEF Inv, Ledger
<1> QED BY <1>1 DEF Kept

\* One child does something and the others are spared.
LEMMA OneChild ==
  ASSUME Inv, Typed', NEW w \in Children, Tasked(w)', \A v \in Children \ {w} : Spared(v)
  PROVE  Tasks'
<1>1. ASSUME NEW v \in Children, v /= w PROVE Tasked(v)'
  BY <1>1, SparedTasked, Zenon DEF Inv, Tasks
<1> QED BY <1>1, Zenon DEF Tasks

\* So is their conversation.
LEMMA OneTalk ==
  ASSUME Inv, pc \in Working, NEW w \in Children, Talk(w)',
         \A v \in Children \ {w} : Spared(v) /\ pipe'[v] = pipe[v]
  PROVE  \A v \in Children : Talk(v)'
<1>1. ASSUME NEW v \in Children, v /= w PROVE Talk(v)'
  BY <1>1, SparedTalk, Zenon DEF Inv, Talks
<1> QED BY <1>1, Zenon

\* The supervisor moves child w from "absent" to "unregistered", or from there to
\* "starting".
LEMMA OneStarts ==
  ASSUME Inv, pc \in {"start", "register"}, NEW w \in Children, w = at,
         UNCHANGED <<name, final, temp, job, nextIndex, outcomes, outcome, loaded, own, mailbox,
                     pipe, blamed, wrote, interrupted, failure, unclean>>,
         state[w] \in {"absent", "unregistered"}, NEW new \in {"unregistered", "starting"},
         state' = [state EXCEPT ![w] = new], phase' \in [Children -> Live \cup
                                                         {"absent", "leaving", "dead"}],
         phase'[w] \notin {"absent", "writing", "published"},
         \A v \in Children \ {w} : phase'[v] = phase[v],
         Talk(w)', pc' \in Working, at' \in Children, Roster'
  PROVE  Inv'
<1>1. /\ pc \in Working /\ pc /= "preflight" /\ pc /= "done" /\ pc' \notin Ending
      /\ pc' /= "preflight" /\ pc' /= "done"
  BY DEF Working, Ending
<1>2. /\ state' \in [Children -> States] /\ state'[w] = new
      /\ \A v \in Children \ {w} : state'[v] = state[v]
  BY Zenon DEF Inv, Typed, States
<1>3. Typed'
  BY <1>2, Zenon DEF Inv, Typed
<1>4. \A v \in Children \ {w} : Spared(v) /\ pipe'[v] = pipe[v]
  <2>1. nextIndex <= nextIndex'
    BY ParallelAssumption DEF Inv, Typed
  <2> QED BY <1>2, <2>1, Zenon DEF Spared
<1>5. Tasked(w)'
  <2>1. own[w] = 0 /\ mailbox[w] = Empty
    BY Zenon DEF Inv, Tasks, Tasked
  <2>2. mailbox[w] \notin Sources /\ new /= "active"
    BY <2>1 DEF Empty, Sources
  <2> QED BY <1>2, <2>1, <2>2, Zenon DEF Tasked, Empty
<1>6. Tasks' /\ \A v \in Children : Talk(v)'
  BY <1>1, <1>3, <1>4, <1>5, OneChild, OneTalk, Zenon
<1>7. \A v \in Children : state[v] = "active" <=> state'[v] = "active"
  BY <1>2, Zenon
<1>8. Apart'
  BY <1>7, Zenon DEF Inv, Apart
<1>9. Ledger'
  BY <1>1, NotEnded, Zenon DEF Inv, Ledger
<1>10. Tidy'
  <2>1. /\ unclean = {}
        /\ \A n \in Names : temp[n] = "ours" => \E v \in Children : Owner(v, n)
    BY <1>1, Zenon DEF Inv, Tidy
  <2>2. \A n \in Names : temp'[n] = "ours" => \E v \in Children : Owner(v, n)'
    <3>1. \A v \in Children, n \in Names : Owner(v, n) => Owner(v, n)'
      BY <1>7 DEF Owner
    <3> QED BY <2>1, <3>1, Zenon
  <2> QED BY <1>1, <2>1, <2>2, Zenon DEF Tidy
<1> QED BY <1>3, <1>6, <1>8, <1>9, <1>10, Zenon DEF Inv, Talks

\* The next child is spawned, or the pool is stopped.
LEMMA StartInv == ASSUME Inv, Start PROVE Inv'
<1>1. /\ UNCHANGED <<name, final, temp, job, nextIndex, outcomes, outcome, loaded, own, mailbox,
                     pipe, blamed, wrote, interrupted, unclean>>
      /\ pc = "start" /\ at \in Children /\ state[at] = "absent" /\ phase[at] = "absent"
      /\ at \in Nat /\ Distinct
  <2>1. at \in Children /\ at \in Nat /\ at <= at
    BY ChildFacts DEF Inv, Typed
  <2> QED BY <2>1, Zenon DEF Start, input, ending, notes, Inv, Roster
<1>2. pc \in Working /\ pc /= "preflight" /\ pc \notin Ending \cup {"done"}
  BY <1>1 DEF Working, Ending
<1>3. CASE Trouble /\ failure' = TRUE /\ GoTo("stop") /\ UNCHANGED <<state, phase>>
  <2>1. UNCHANGED still /\ pipe' \in [Children -> Seq(Messages)] /\ pc' = "stop" /\ at' = 1
        /\ interrupted' \in BOOLEAN /\ pc /= "register"
    BY <1>1, <1>3, Zenon DEF still, GoTo, Inv, Typed
  <2> QED BY <1>1, <1>2, <1>3, <2>1, StopBegins, Zenon
<1>4. CASE /\ state' = [state EXCEPT ![at] = "unregistered"]
           /\ phase' = [phase EXCEPT ![at] = "boot"]
           /\ pc' = "register" /\ UNCHANGED <<at, failure, troubles>>
  <2>1. PICK w \in Children : w = at
    BY <1>1, Zenon
  <2>2. /\ state' = [state EXCEPT ![w] = "unregistered"] /\ state'[w] = "unregistered"
        /\ phase'[w] = "boot" /\ at' = w /\ pc' = "register" /\ failure' = failure
        /\ \A v \in Children \ {w} : state'[v] = state[v] /\ phase'[v] = phase[v]
        /\ phase' \in [Children -> Live \cup {"absent", "leaving", "dead"}]
    BY <1>4, <2>1, Zenon DEF Inv, Typed, Live
  <2>3. pc' \in Working /\ pc' \notin Ending
    BY <2>2 DEF Working, Ending
  <2>4. \A v \in Children : /\ state[v] = "absent" <=> w <= v
                            /\ state[v] /= "unregistered"
    BY <1>1, <1>2, <2>1, Zenon DEF Inv, Roster
  <2>5. \A v \in Children : state'[v] = "absent" <=> w < v
    BY <2>2, <2>4, ChildFacts
  <2>6. Roster'
    <3>1. \A v \in Children : state'[v] = "absent" <=> phase'[v] = "absent"
      <4>1. \A v \in Children : state[v] = "absent" <=> phase[v] = "absent"
        BY Zenon DEF Inv, Roster
      <4>2. state'[w] /= "absent" /\ phase'[w] /= "absent"
        BY <2>2
      <4> QED BY <2>2, <4>1, <4>2, Zenon
    <3>2. \A v \in Children : state'[v] = "unregistered" => v = w
      BY <2>2, <2>4, Zenon
    <3>3. \A u, v \in Children : u < v /\ state'[v] /= "absent" => Registered(u)'
      <4>1. \A u, v \in Children : u < v /\ state'[v] /= "absent" =>
              state'[u] /= "absent" /\ u /= w
        BY <2>5, ChildFacts
      <4> QED BY <3>2, <4>1, Zenon DEF Registered
    <3>4. Distinct'
      BY <1>1, Zenon DEF Distinct, SameDestination
    <3> QED BY <2>2, <2>5, <3>1, <3>2, <3>3, <3>4, Zenon DEF Roster
  <2>7. Talk(w)'
    <3>1. mailbox[w] = Empty /\ pipe[w] = <<>>
      BY <1>1, <1>2, <2>1, Zenon DEF Inv, Talks, Talk
    <3> QED BY <1>1, <2>2, <3>1, Zenon DEF Talk, Answer, Empty
  <2>8. pc \in {"start", "register"} /\ state[w] \in {"absent", "unregistered"}
        /\ "unregistered" \in {"unregistered", "starting"}
        /\ phase'[w] \notin {"absent", "writing", "published"}
    BY <1>1, <2>1, <2>2
  <2> QED BY <1>1, <2>1, <2>2, <2>3, <2>6, <2>7, <2>8, OneStarts, Zenon
<1> QED BY <1>1, <1>3, <1>4, Zenon DEF Start

\* A child is entered in the list, and the next one is spawned or the polling begins.
LEMMA RegisterInv == ASSUME Inv, Register PROVE Inv'
<1>1. PICK w \in Children : w = at
  BY Zenon DEF Inv, Typed
<1>2. /\ UNCHANGED <<name, final, temp, job, nextIndex, outcomes, outcome, loaded, phase, own,
                     mailbox, pipe, blamed, wrote, interrupted, failure, unclean>>
      /\ pc = "register" /\ state' = [state EXCEPT ![w] = "starting"]
      /\ \/ pc' = "start" /\ at' = w + 1 /\ at' \in Children
         \/ pc' = "poll" /\ at' = 1 /\ w + 1 \notin Children
  BY <1>1, Zenon DEF Register, input, ending, procs, notes, limits, GoTo
<1>3. /\ state[w] = "unregistered" /\ phase[w] /= "absent" /\ Distinct
      /\ \A v \in Children : state[v] = "absent" <=> w < v
      /\ \A v \in Children : state[v] = "unregistered" => v = w
  <2>1. pc \notin Ending \cup {"done"} /\ pc /= "preflight" /\ pc /= "done"
    BY <1>2 DEF Ending
  <2>2. state[w] = "unregistered" /\ \A v \in Children : state[v] = "absent" <=> w < v
    BY <1>1, <1>2, Zenon DEF Inv, Roster
  <2> QED BY <1>1, <2>1, <2>2, Zenon DEF Inv, Roster
<1>4. /\ state'[w] = "starting" /\ \A v \in Children \ {w} : state'[v] = state[v]
  BY <1>2, Zenon DEF Inv, Typed
<1>5. pc' \in Working /\ at' \in Children /\ pc' \notin Ending /\ pc' /= "preflight"
      /\ pc' /= "done" /\ pc' /= "register" /\ pc \in Working
  BY <1>2, ChildFacts DEF Working, Ending
<1>6. \A v \in Children : state'[v] = "absent" <=> w + 1 <= v
  BY <1>3, <1>4, ChildFacts
<1>7. Roster'
  <2>1. \A v \in Children : state'[v] = "absent" <=> phase'[v] = "absent"
    <3>1. \A v \in Children : state[v] = "absent" <=> phase[v] = "absent"
      BY Zenon DEF Inv, Roster
    <3>2. state'[w] /= "absent" /\ phase'[w] /= "absent"
      BY <1>2, <1>3, <1>4
    <3> QED BY <1>2, <1>4, <3>1, <3>2, Zenon
  <2>2. \A v \in Children : state'[v] /= "unregistered"
    BY <1>3, <1>4, Zenon
  <2>3. pc' = "start" => \A v \in Children : state'[v] = "absent" <=> at' <= v
    BY <1>2, <1>6, Zenon
  <2>4. pc' = "poll" => \A v \in Children : state'[v] /= "absent"
    BY <1>2, <1>6, ChildFacts
  <2>5. \A u, v \in Children : u < v /\ state'[v] /= "absent" => Registered(u)'
    <3>1. \A u, v \in Children : u < v /\ state'[v] /= "absent" => state'[u] /= "absent"
      BY <1>6, ChildFacts
    <3> QED BY <2>2, <3>1, Zenon DEF Registered
  <2>6. Distinct'
    BY <1>2, <1>3, Zenon DEF Distinct, SameDestination
  <2> QED BY <1>2, <1>5, <2>1, <2>2, <2>3, <2>4, <2>5, <2>6, Zenon DEF Roster
<1>8. phase[w] \notin {"writing", "published"}
  BY <1>3, Zenon DEF Inv, Tasks, Tasked
<1>9. Talk(w)'
  <2>1. Talk(w)
    BY <1>5, Zenon DEF Inv, Talks
  <2> QED BY <1>2, <1>3, <1>4, <2>1, Zenon DEF Talk, Empty
<1>10. /\ pc \in {"start", "register"} /\ state[w] \in {"absent", "unregistered"}
       /\ "starting" \in {"unregistered", "starting"}
       /\ phase'[w] \notin {"absent", "writing", "published"}
       /\ phase' \in [Children -> Live \cup {"absent", "leaving", "dead"}]
       /\ \A v \in Children \ {w} : phase'[v] = phase[v]
  BY <1>2, <1>3, <1>8, Zenon DEF Inv, Typed
<1> QED BY <1>1, <1>2, <1>5, <1>7, <1>9, <1>10, OneStarts, Zenon

-----------------------------------------------------------------------------
(* Polling and dispatching *)

\* Active children have destinations of their own.
LEMMA NamesApart ==
  ASSUME Inv, NEW v \in Children, NEW w \in Children, v /= w,
         state[v] = "active", state[w] = "active"
  PROVE  job[v] /= job[w] /\ name[job[v]] /= name[job[w]]
<1>1. job[v] /= job[w] /\ Given(v) /\ Given(w)
  BY Zenon DEF Inv, Apart, Tasks, Tasked
<1>2. Distinct
  BY Zenon DEF Inv, Roster
<1> QED BY <1>1, <1>2, Zenon DEF Distinct, SameDestination, Given

\* After the answer of a child there is nothing but an interrupt.
LEMMA AnswerTaken ==
  ASSUME NEW q \in Seq(Messages), q /= <<>>, NEW kinds, NEW live \in BOOLEAN,
         Answer(q, kinds, live)
  PROVE  /\ Tail(q) \in Seq(Messages)
         /\ Answer(Tail(q), {}, live) /\ Answer(Tail(q), {"finished", "failed"}, live)
         /\ Tail(q) /= <<>> => Head(Tail(q)).kind = "interrupted"
<1> DEFINE r == Tail(q)
<1>1. Quiet(r) /\ (live => r = <<>>)
  BY Zenon DEF Answer
<1>2. r \in Seq(Messages)
  OBVIOUS
<1> HIDE DEF r
<1>3. r /= <<>> => 1 \in DOMAIN r /\ Head(r) = r[1] /\ DOMAIN Tail(r) = 1..(Len(r) - 1)
                   /\ \A k \in 1..(Len(r) - 1) : Tail(r)[k] = r[k + 1] /\ k + 1 \in DOMAIN r
  BY <1>2
<1>4. r /= <<>> => Head(r).kind = "interrupted" /\ Quiet(Tail(r)) /\ ~live
  BY <1>1, <1>3, Zenon DEF Quiet
<1>5. Answer(r, {}, live) /\ Answer(r, {"finished", "failed"}, live)
  BY <1>4, Zenon DEF Answer
<1> QED BY <1>2, <1>4, <1>5, Zenon DEF r

\* The supervisor takes a message out of a pipe.
LEMMA MessageTaken ==
  ASSUME Inv, PollMessage, NEW w \in Children, w = at
  PROVE  /\ UNCHANGED <<name, final, job, nextIndex, outcome, loaded, phase, own, mailbox,
                        blamed, wrote>>
         /\ pc = "poll" /\ pipe[w] /= <<>> /\ pipe[w] \in Seq(Messages)
         /\ pipe'[w] = Tail(pipe[w]) /\ \A v \in Children \ {w} : pipe'[v] = pipe[v]
         /\ pipe' \in [Children -> Seq(Messages)]
         /\ Talk(w) /\ Tasked(w) /\ state[w] \notin {"absent", "unregistered"}
<1>1. /\ UNCHANGED <<name, final, job, nextIndex, outcome, loaded, phase, own, mailbox,
                     blamed, wrote>>
      /\ pc = "poll" /\ pipe[w] /= <<>> /\ pipe' = [pipe EXCEPT ![w] = Tail(@)]
  BY Zenon DEF PollMessage, input, ending
<1>2. pipe \in [Children -> Seq(Messages)]
  BY Zenon DEF Inv, Typed
<1>3. pipe[w] \in Seq(Messages)
  BY <1>2, Zenon
<1>4. Tail(pipe[w]) \in Seq(Messages)
  BY <1>1, <1>3
<1>5. pc \in {"preflight"} \cup Working /\ pc /= "register" /\ pc \notin Ending \cup {"done"}
  BY <1>1 DEF Working, Ending
<1>6. Talk(w) /\ Tasked(w) /\ state[w] \notin {"absent", "unregistered"}
  BY <1>1, <1>2, <1>5, Zenon DEF Inv, Talks, Tasks, Roster
<1> QED BY <1>1, <1>2, <1>3, <1>4, <1>6, Zenon

\* A child is ready.
LEMMA ReadyInv ==
  ASSUME Inv, PollMessage, Head(pipe[at]).kind = "ready",
         state' = [state EXCEPT ![at] = "idle"], pc' = "exit",
         UNCHANGED <<at, outcomes, temp, failure, interrupted, unclean>>
  PROVE  Inv'
<1>1. PICK w \in Children : w = at
  BY Zenon DEF Inv, Typed
<1>2. /\ UNCHANGED <<name, final, temp, job, nextIndex, outcome, outcomes, loaded, phase, own,
                     mailbox, blamed, wrote, failure, interrupted, unclean>>
      /\ pc = "poll" /\ pipe[w] /= <<>> /\ pipe[w] \in Seq(Messages)
      /\ pipe'[w] = Tail(pipe[w]) /\ pipe' \in [Children -> Seq(Messages)]
      /\ \A v \in Children \ {w} : pipe'[v] = pipe[v]
      /\ Talk(w) /\ Tasked(w) /\ state[w] \notin {"absent", "unregistered"}
  BY <1>1, MessageTaken, Zenon
<1>3. state \in [Children -> States]
  BY Zenon DEF Inv, Typed
<1>4. state'[w] = "idle" /\ \A v \in Children \ {w} : state'[v] = state[v]
  BY <1>1, <1>3, Zenon DEF States
<1>5. pc \in Working /\ pc' \in Working /\ pc' \notin Ending /\ pc' /= "done"
      /\ pc \notin Ending \cup {"done"} /\ pc /= "register"
  BY <1>2 DEF Working, Ending
<1>6. Typed'
  <2>1. state' \in [Children -> States]
    BY <1>1, <1>3, Zenon DEF States
  <2>2. UNCHANGED <<name, final, temp, job, nextIndex, outcomes, phase, own, mailbox, blamed,
                    wrote, failure, interrupted, unclean, at>>
    BY <1>2, Zenon
  <2>3. Typed
    BY Zenon DEF Inv
  <2>4. /\ pc' \in {"preflight", "done"} \cup Working \cup Ending
        /\ pipe' \in [Children -> Seq(Messages)]
    BY <1>2, <1>5, Zenon
  <2>5. /\ name' \in [Sources -> Names \cup {BadName}]
        /\ final' \in [Names -> {"absent", "old", "new"}]
        /\ temp' \in [Names -> {"absent", "stale", "ours"}]
        /\ at' \in Children /\ job' \in [Children -> 0..N] /\ nextIndex' \in 1..(N + 1)
        /\ outcomes' \in [Sources -> {"none", "success", "error"}]
    BY <2>2, <2>3, Zenon DEF Typed
  <2>6. /\ phase' \in [Children -> Live \cup {"absent", "leaving", "dead"}]
        /\ own' \in [Children -> 0..N] /\ mailbox' \in [Children -> -1..N]
        /\ blamed' \in [Sources -> BOOLEAN] /\ wrote' \in [Sources -> BOOLEAN]
        /\ failure' \in BOOLEAN /\ interrupted' \in BOOLEAN /\ unclean' \in SUBSET Children
    BY <2>2, <2>3, Zenon DEF Typed
  <2> QED BY <2>1, <2>4, <2>5, <2>6, Zenon DEF Typed
<1>7. state[w] = "starting"
  <2>1. state[w] /= "idle"
    BY <1>1, <1>2, Zenon DEF Talk, Answer
  <2>2. state[w] /= "active"
    BY <1>1, <1>2, Zenon DEF Talk, Answer
  <2> QED BY <1>2, <1>3, <2>1, <2>2, Zenon DEF States
<1>8. mailbox[w] = Empty /\ phase[w] /= "boot" /\ phase[w] \notin {"writing", "published"}
  BY <1>2, <1>7, Zenon DEF Talk, Tasked
<1>9. \A v \in Children \ {w} : Spared(v) /\ pipe'[v] = pipe[v]
  <2>1. nextIndex <= nextIndex'
    BY <1>2, ParallelAssumption DEF Inv, Typed
  <2> QED BY <1>2, <1>4, <2>1, Zenon DEF Spared
<1>10. Tasked(w)'
  <2>1. mailbox'[w] \notin Sources
    BY <1>2, <1>8 DEF Empty, Sources
  <2> QED BY <1>2, <1>4, <1>8, <2>1, Zenon DEF Tasked
<1>11. Talk(w)'
  <2>1. Answer(Tail(pipe[w]), {}, phase[w] \in Live)
    <3>1. Answer(pipe[w], {"ready"}, phase[w] \in Live)
      BY <1>2, <1>7, Zenon DEF Talk
    <3>2. (phase[w] \in Live) \in BOOLEAN
      OBVIOUS
    <3> QED BY <1>2, <3>1, <3>2, AnswerTaken, Zenon
  <2> QED BY <1>2, <1>4, <1>8, <2>1, Zenon DEF Talk, Empty
<1>12. Tasks' /\ \A v \in Children : Talk(v)'
  BY <1>5, <1>6, <1>9, <1>10, <1>11, OneChild, OneTalk, Zenon
<1>13. \A v \in Children : state[v] = "active" <=> state'[v] = "active"
  BY <1>4, <1>7, Zenon
<1>14. \A v \in Children : /\ state[v] /= "absent" /\ state'[v] /= "absent"
                            /\ state[v] /= "unregistered" /\ state'[v] /= "unregistered"
  BY <1>2, <1>4, <1>5, Zenon DEF Inv, Roster
<1>15. Roster'
  <2>1. Distinct'
    BY <1>2, Zenon DEF Inv, Roster, Distinct, SameDestination
  <2> QED BY <1>2, <1>14, <2>1, Zenon DEF Inv, Roster, Registered
<1>16. Apart'
  BY <1>2, <1>13, Zenon DEF Inv, Apart
<1>17. Ledger'
  BY <1>2, <1>5, NotEnded, Zenon DEF Inv, Ledger
<1>18. Tidy'
  BY <1>2, <1>5, <1>13, Zenon DEF Inv, Tidy, Owner
<1> QED BY <1>6, <1>12, <1>15, <1>16, <1>17, <1>18, Zenon DEF Inv, Talks

\* A child is interrupted, or reports a failure.
LEMMA TroubleInv ==
  ASSUME Inv, PollMessage, UNCHANGED <<state, outcomes, temp, unclean>>,
         \/ interrupted' = TRUE /\ GoTo("stop") /\ UNCHANGED <<bad, failure>>
         \/ /\ Head(pipe[at]).kind = "failed" \/ state[at] /= "active"
            /\ Head(pipe[at]).kind \in {"failed", "finished"}
            /\ Polled(TRUE) /\ UNCHANGED interrupted
  PROVE  Inv'
<1>1. PICK w \in Children : w = at
  BY Zenon DEF Inv, Typed
<1>2. /\ UNCHANGED <<name, final, temp, state, job, nextIndex, outcome, outcomes, loaded, phase,
                     own, mailbox, blamed, wrote, unclean>>
      /\ pc = "poll" /\ pipe[w] /= <<>> /\ pipe[w] \in Seq(Messages)
      /\ pipe'[w] = Tail(pipe[w]) /\ pipe' \in [Children -> Seq(Messages)]
      /\ \A v \in Children \ {w} : pipe'[v] = pipe[v]
      /\ Talk(w) /\ state[w] \notin {"absent", "unregistered"}
  BY <1>1, MessageTaken, Zenon
<1>3. pc \in Working /\ UNCHANGED still /\ failure \in BOOLEAN
  BY <1>2, Zenon DEF Working, still, Inv, Typed
<1>4. CASE interrupted' = TRUE /\ GoTo("stop") /\ UNCHANGED <<bad, failure>>
  <2>1. pc' = "stop" /\ at' = 1 /\ failure' \in BOOLEAN /\ interrupted' \in BOOLEAN
        /\ interrupted'
    BY <1>3, <1>4, Zenon DEF GoTo
  <2> QED BY <1>2, <1>3, <2>1, StopBegins, Zenon
<1>5. CASE /\ Head(pipe[at]).kind = "failed" \/ state[at] /= "active"
           /\ Head(pipe[at]).kind \in {"failed", "finished"}
           /\ Polled(TRUE) /\ UNCHANGED interrupted
  <2>1. state[w] = "active"
    <3>1. state[w] /= "idle" /\ state[w] /= "starting"
      BY <1>1, <1>2, <1>5, Zenon DEF Talk, Answer
    <3>2. state[w] \in States
      BY Zenon DEF Inv, Typed
    <3> QED BY <1>2, <3>1, <3>2, Zenon DEF States
  <2>2. Spared(w) /\ \A v \in Children \ {w} : Spared(v) /\ pipe'[v] = pipe[v]
    <3>1. nextIndex <= nextIndex'
      BY <1>2, ParallelAssumption DEF Inv, Typed
    <3> QED BY <1>2, <3>1, Zenon DEF Spared
  <2>3. Talk(w)'
    <3>1. /\ Answer(pipe[w], {"finished", "failed"}, phase[w] \in Live)
          /\ mailbox[w] \in {Empty, job[w]} /\ phase[w] /= "boot"
      BY <1>2, <2>1, Zenon DEF Talk
    <3>2. mailbox[w] /= job[w] /\ phase[w] \notin {"writing", "published"}
      BY <1>1, <1>2, <1>5, <2>1, Zenon DEF Talk, Answer
    <3>3. (phase[w] \in Live) \in BOOLEAN
      OBVIOUS
    <3>4. /\ Answer(Tail(pipe[w]), {"finished", "failed"}, phase[w] \in Live)
          /\ Tail(pipe[w]) /= <<>> => Head(Tail(pipe[w])).kind = "interrupted"
      BY <1>2, <3>1, <3>3, AnswerTaken, Zenon
    <3>5. (pipe[w] /= <<>> => Truthful(Head(pipe[w]), job[w]))'
      BY <1>2, <3>4, Zenon DEF Truthful
    <3> QED BY <1>2, <2>1, <3>1, <3>2, <3>4, <3>5, Zenon DEF Talk, Empty
  <2>4. \A v \in Children : Talk(v)'
    BY <1>3, <2>2, <2>3, OneTalk, Zenon
  <2>5. pc \in {"poll", "exit"} /\ TRUE \in BOOLEAN
    BY <1>2
  <2> QED BY <1>2, <1>3, <1>5, <2>4, <2>5, PolledInv, Zenon
<1> QED BY <1>4, <1>5, Zenon

\* A child has finished a source: the outcome is collected and the child is idle.
LEMMA FinishedInv ==
  ASSUME Inv, PollMessage, Head(pipe[at]).kind = "finished", state[at] = "active",
         outcomes' = [outcomes EXCEPT ![job[at]] =
                        IF Head(pipe[at]).ok THEN "success" ELSE "error"],
         state' = [state EXCEPT ![at] = "idle"],
         \/ /\ temp' = Cleaned(job[at]) /\ pc' = "exit"
            /\ UNCHANGED <<at, failure, interrupted, unclean>>
         \/ /\ temp' = temp /\ unclean' = unclean \cup {at} /\ pc' = "stop" /\ at' = 1
            /\ failure' \in BOOLEAN /\ interrupted' \in BOOLEAN /\ (failure' \/ interrupted')
  PROVE  Inv'
<1>1. PICK w \in Children : w = at
  BY Zenon DEF Inv, Typed
<1>2. /\ UNCHANGED <<name, final, job, nextIndex, outcome, loaded, phase, own, mailbox, blamed,
                     wrote>>
      /\ pc = "poll" /\ pipe[w] /= <<>> /\ pipe[w] \in Seq(Messages)
      /\ pipe'[w] = Tail(pipe[w]) /\ pipe' \in [Children -> Seq(Messages)]
      /\ \A v \in Children \ {w} : pipe'[v] = pipe[v]
      /\ Talk(w) /\ Tasked(w)
  BY <1>1, MessageTaken, Zenon
<1>3. PICK s \in Sources : s = job[w] /\ s < nextIndex /\ outcomes[s] = "none" /\ name[s] \in Names
  BY <1>1, <1>2, Zenon DEF Tasked, Given
<1>4. /\ state'[w] = "idle" /\ \A v \in Children \ {w} : state'[v] = state[v]
      /\ state' \in [Children -> States]
      /\ state[w] = "active"
  BY <1>1, Zenon DEF Inv, Typed, States
<1>5. /\ Answer(pipe[w], {"finished", "failed"}, phase[w] \in Live)
      /\ mailbox[w] \in {Empty, job[w]} /\ phase[w] /= "boot"
      /\ phase[w] \notin {"writing", "published"} /\ Truthful(Head(pipe[w]), s)
  BY <1>1, <1>2, <1>3, Zenon DEF Talk
<1>6. mailbox[w] = Empty
  BY <1>1, <1>2, <1>4, <1>5, Zenon DEF Talk, Answer
<1>7. /\ outcomes' \in [Sources -> {"none", "success", "error"}]
      /\ \A t \in Sources \ {s} : outcomes'[t] = outcomes[t]
      /\ outcomes'[s] = "success" => final[name[s]] /= "absent"
      /\ outcomes'[s] = "error" => blamed[s] /\ ~wrote[s]
  <2>1. outcomes \in [Sources -> {"none", "success", "error"}]
    BY Zenon DEF Inv, Typed
  <2>2. outcomes' = [outcomes EXCEPT ![s] = IF Head(pipe[w]).ok THEN "success" ELSE "error"]
    BY <1>1, <1>3, Zenon
  <2>3. IF Head(pipe[w]).ok THEN final[name[s]] /= "absent" ELSE blamed[s] /\ ~wrote[s]
    BY <1>1, <1>5, Zenon DEF Truthful
  <2>4. CASE Head(pipe[w]).ok
    <3>1. outcomes' = [outcomes EXCEPT ![s] = "success"] /\ final[name[s]] /= "absent"
      BY <2>2, <2>3, <2>4, Zenon
    <3> QED BY <2>1, <3>1, Zenon
  <2>5. CASE ~Head(pipe[w]).ok
    <3>1. outcomes' = [outcomes EXCEPT ![s] = "error"] /\ blamed[s] /\ ~wrote[s]
      BY <2>2, <2>3, <2>5, Zenon
    <3> QED BY <2>1, <3>1, Zenon
  <2> QED BY <2>4, <2>5, Zenon
<1>8. /\ temp' \in [Names -> {"absent", "stale", "ours"}]
      /\ \A n \in Names : n /= name[s] => temp'[n] = temp[n]
      /\ pc' = "exit" => temp'[name[s]] /= "ours"
  <2>1. temp \in [Names -> {"absent", "stale", "ours"}]
    BY Zenon DEF Inv, Typed
  <2>2. CASE temp' = temp /\ pc' = "stop"
    BY <2>1, <2>2, Zenon
  <2>3. CASE temp' = Cleaned(job[at])
    <3>1. temp' = [temp EXCEPT ![name[s]] =
                     IF temp[name[s]] = "ours" THEN "absent" ELSE temp[name[s]]]
      BY <1>1, <1>3, <2>3, Zenon DEF Cleaned
    <3>2. (IF temp[name[s]] = "ours" THEN "absent" ELSE temp[name[s]]) \in {"absent", "stale"}
      BY <1>3, <2>1
    <3> QED BY <1>3, <2>1, <3>1, <3>2
  <2> QED BY <2>2, <2>3, Zenon
<1>9. /\ pc \in Working /\ pc' \in {"exit", "stop"} /\ at' \in Children /\ pc' /= "done"
      /\ pc' /= "preflight" /\ pc' \in {"preflight", "done"} \cup Working \cup Ending
      /\ failure' \in BOOLEAN /\ interrupted' \in BOOLEAN /\ unclean' \in SUBSET Children
      /\ pc' \in Ending => failure' \/ interrupted'
      /\ unclean = {} /\ pc \notin Ending \cup {"done"}
      /\ \/ pc' = "exit" /\ unclean' = {} /\ pc' \in Working /\ pc' \notin Ending
         \/ pc' = "stop" /\ at' = 1 /\ w \in unclean' /\ pc' \notin Working
  <2>1. failure \in BOOLEAN /\ interrupted \in BOOLEAN /\ unclean = {} /\ at \in Children
    <3>1. pc \in Working
      BY <1>2 DEF Working
    <3> QED BY <3>1, Zenon DEF Inv, Typed, Tidy
  <2>2. "poll" \in Working /\ "exit" \in Working /\ "exit" \notin Ending /\ "stop" \in Ending
        /\ "stop" \notin Working /\ "poll" \notin Ending
    BY DEF Working, Ending
  <2> QED BY <1>1, <1>2, <2>1, <2>2, ChildFacts, Zenon
<1>10. Typed'
  BY <1>2, <1>4, <1>7, <1>8, <1>9, Zenon DEF Inv, Typed
<1>11. \A v \in Children \ {w} : Spared(v) /\ pipe'[v] = pipe[v]
  <2>1. nextIndex <= nextIndex'
    BY <1>2, ParallelAssumption DEF Inv, Typed
  <2>2. ASSUME NEW v \in Children \ {w}, state[v] = "active"
        PROVE  outcomes'[job[v]] = outcomes[job[v]] /\ temp'[name[job[v]]] = temp[name[job[v]]]
    <3>1. job[v] /= s /\ name[job[v]] /= name[s]
      BY <1>3, <1>4, <2>2, NamesApart, Zenon
    <3>2. job[v] \in Sources /\ name[job[v]] \in Names
      BY <2>2, Zenon DEF Inv, Tasks, Tasked, Given
    <3> QED BY <1>7, <1>8, <3>1, <3>2, Zenon
  <2> QED BY <1>2, <1>4, <2>1, <2>2, Zenon DEF Spared
<1>12. Tasked(w)'
  <2>1. mailbox'[w] \notin Sources
    BY <1>2, <1>6 DEF Empty, Sources
  <2> QED BY <1>2, <1>4, <1>5, <2>1, Zenon DEF Tasked
<1>13. Talk(w)'
  <2>1. (phase[w] \in Live) \in BOOLEAN
    OBVIOUS
  <2>2. Answer(Tail(pipe[w]), {}, phase[w] \in Live)
    BY <1>2, <1>5, <2>1, AnswerTaken, Zenon
  <2> QED BY <1>2, <1>4, <1>5, <1>6, <2>2, Zenon DEF Talk, Empty
<1>14. Tasks' /\ \A v \in Children : Talk(v)'
  BY <1>9, <1>10, <1>11, <1>12, <1>13, OneChild, OneTalk, Zenon
<1>15. \A v \in Children : state'[v] = "active" => state[v] = "active" /\ v /= w
  BY <1>4, Zenon
<1>16. Roster'
  <2>1. \A v \in Children : /\ state[v] /= "absent" /\ phase[v] /= "absent"
                            /\ state'[v] /= "absent" /\ state'[v] /= "unregistered"
    <3>1. pc \notin Ending \cup {"done"} /\ pc /= "register"
      BY <1>2, <1>9, Zenon
    <3> QED BY <1>2, <1>4, <3>1, Zenon DEF Inv, Roster
  <2>2. Distinct'
    BY <1>2, Zenon DEF Inv, Roster, Distinct, SameDestination
  <2> QED BY <1>2, <1>9, <2>1, <2>2, Zenon DEF Roster, Registered
<1>17. Apart'
  BY <1>2, <1>15, Zenon DEF Inv, Apart
<1>18. Ledger'
  <2>1. \A t \in Sources : nextIndex <= t => t /= s
    BY <1>3, ParallelAssumption DEF Inv, Typed, Sources
  <2>2. \A t \in Sources : nextIndex' <= t => ~wrote'[t] /\ outcomes'[t] = "none"
    BY <1>2, <1>7, <1>9, <2>1, Zenon DEF Inv, Ledger
  <2>3. \A t \in Sources :
          /\ outcomes'[t] = "success" => name'[t] \in Names /\ final'[name'[t]] /= "absent"
          /\ outcomes'[t] = "error" => blamed'[t] /\ ~wrote'[t]
    <3>1. \A t \in Sources :
            /\ outcomes[t] = "success" => name[t] \in Names /\ final[name[t]] /= "absent"
            /\ outcomes[t] = "error" => blamed[t] /\ ~wrote[t]
      BY Zenon DEF Inv, Ledger
    <3> QED BY <1>2, <1>3, <1>7, <3>1, Zenon
  <2>4. outcome' \notin Kept /\ outcome' /= "dataset" /\ outcome' /= "no dataset"
    BY <1>2, NotEnded, Zenon
  <2> QED BY <1>9, <2>2, <2>3, <2>4, Zenon DEF Ledger
<1>19. Tidy'
  <2>1. ASSUME NEW n \in Names, temp'[n] = "ours"
        PROVE  \E v \in Children : Owner(v, n)'
    <3>1. CASE n = name[s]
      <4>1. w \in unclean'
        BY <1>8, <1>9, <2>1, <3>1, Zenon
      <4> QED BY <1>2, <1>3, <3>1, <4>1, Zenon DEF Owner
    <3>2. CASE n /= name[s]
      <4>1. temp[n] = "ours"
        BY <1>8, <2>1, <3>2, Zenon
      <4>2. PICK v \in Children : Owner(v, n)
        BY <4>1, Zenon DEF Inv, Tidy
      <4>3. v /= w /\ state[v] = "active" /\ job[v] \in Sources /\ name[job[v]] = n
        BY <1>3, <1>9, <3>2, <4>2, Zenon DEF Owner
      <4> QED BY <1>2, <1>4, <4>3, Zenon DEF Owner
    <3> QED BY <3>1, <3>2, Zenon
  <2>2. \A v \in Children : ~(v < 1)
    BY ChildFacts
  <2> QED BY <1>9, <2>1, <2>2, Zenon DEF Tidy
<1> QED BY <1>10, <1>14, <1>16, <1>17, <1>18, <1>19, Zenon DEF Inv, Talks

\* The supervisor handles a message.
LEMMA PollMessageInv == ASSUME Inv, PollMessage PROVE Inv'
<1> DEFINE m == Head(pipe[at])
<1>1. CASE /\ m.kind = "ready" /\ state' = [state EXCEPT ![at] = "idle"] /\ pc' = "exit"
           /\ UNCHANGED <<at, outcomes, temp, bad, failure, interrupted, limits>>
  <2>1. UNCHANGED <<at, outcomes, temp, failure, interrupted, unclean>>
    BY <1>1, Zenon DEF limits
  <2> QED BY <1>1, <2>1, ReadyInv, Zenon
<1>2. CASE /\ m.kind = "finished" /\ state[at] = "active"
           /\ outcomes' = [outcomes EXCEPT ![job[at]] = IF m.ok THEN "success" ELSE "error"]
           /\ state' = [state EXCEPT ![at] = "idle"]
           /\ \/ /\ temp' = Cleaned(job[at]) /\ pc' = "exit"
                 /\ UNCHANGED <<at, failure, interrupted, limits>>
              \/ /\ temp[name[job[at]]] = "ours" /\ MayFault
                 /\ \/ failure' = TRUE /\ UNCHANGED interrupted
                    \/ interrupted' = TRUE /\ UNCHANGED failure
                 /\ GoTo("stop") /\ UNCHANGED temp
  <2>1. failure \in BOOLEAN /\ interrupted \in BOOLEAN
    BY Zenon DEF Inv, Typed
  <2>2. \/ /\ temp' = Cleaned(job[at]) /\ pc' = "exit"
           /\ UNCHANGED <<at, failure, interrupted, unclean>>
        \/ /\ temp' = temp /\ unclean' = unclean \cup {at} /\ pc' = "stop" /\ at' = 1
           /\ failure' \in BOOLEAN /\ interrupted' \in BOOLEAN /\ (failure' \/ interrupted')
    BY <1>2, <2>1, Zenon DEF limits, MayFault, GoTo
  <2> QED BY <1>2, <2>2, FinishedInv, Zenon
<1>3. CASE /\ m.kind = "interrupted" /\ interrupted' = TRUE /\ GoTo("stop")
           /\ UNCHANGED <<state, outcomes, temp, bad, failure, limits>>
  BY <1>3, TroubleInv, Zenon DEF limits
<1>4. CASE /\ m.kind = "failed" \/ (m.kind = "finished" /\ state[at] /= "active")
           /\ Polled(TRUE)
           /\ UNCHANGED <<state, outcomes, temp, interrupted, limits>>
  <2>1. /\ m.kind = "failed" \/ state[at] /= "active"
        /\ m.kind \in {"failed", "finished"}
    BY <1>4, Zenon
  <2> QED BY <1>4, <2>1, TroubleInv, Zenon DEF limits
<1> QED BY <1>1, <1>2, <1>3, <1>4, Zenon DEF PollMessage

\* A source is dispatched, or settled by an error of its own.
LEMMA DispatchInv == ASSUME Inv, Dispatch PROVE Inv'
<1>1. PICK w \in Children : w = at
  BY Zenon DEF Inv, Typed
<1>2. /\ UNCHANGED <<name, final, temp, pc, at, failure, outcome, loaded, phase, own, pipe,
                     wrote, interrupted, unclean>>
      /\ pc = "dispatch" /\ state[w] = "idle" /\ nextIndex <= N /\ nextIndex' = nextIndex + 1
  BY <1>1, Zenon DEF Dispatch, HasTurn, input, ending, limits
<1>3. PICK s \in Sources : s = nextIndex
  BY <1>2, ParallelAssumption DEF Inv, Typed, Sources
<1>4. /\ nextIndex' \in 1..(N + 1) /\ nextIndex <= nextIndex' /\ s < nextIndex'
      /\ \A t \in Sources : nextIndex' <= t => nextIndex <= t /\ t /= s
      /\ \A t \in Sources : t < nextIndex => t /= s
  BY <1>2, <1>3, ParallelAssumption DEF Inv, Typed, Sources
<1>5. pc \in Working /\ pc' \in Working /\ pc' \notin Ending /\ pc' /= "done" /\ pc' /= "preflight"
      /\ pc \notin Ending \cup {"done"} /\ pc' /= "register" /\ pc /= "register"
  BY <1>2 DEF Working, Ending
<1>6. outcomes[s] = "none" /\ ~wrote[s]
  <2>1. nextIndex <= s
    BY <1>3, ParallelAssumption DEF Sources
  <2> QED BY <1>5, <2>1, Zenon DEF Inv, Ledger
<1>7. \A v \in Children : state[v] = "active" => job[v] \in Sources /\ job[v] /= s
  BY <1>4, Zenon DEF Inv, Tasks, Tasked, Given
<1>8. Distinct /\ Distinct'
  BY <1>2, Zenon DEF Inv, Roster, Distinct, SameDestination
<1>9. \A v \in Children : /\ state[v] /= "absent" /\ phase[v] /= "absent"
                           /\ state[v] /= "unregistered"
  BY <1>2, <1>5, Zenon DEF Inv, Roster
<1>10. CASE /\ outcomes' = [outcomes EXCEPT ![nextIndex] = "error"]
            /\ blamed' = [blamed EXCEPT ![nextIndex] = TRUE]
            /\ UNCHANGED <<state, job, late, mailbox>>
  <2>1. /\ outcomes' \in [Sources -> {"none", "success", "error"}] /\ outcomes'[s] = "error"
        /\ blamed' \in [Sources -> BOOLEAN] /\ blamed'[s]
        /\ \A t \in Sources \ {s} : outcomes'[t] = outcomes[t] /\ blamed'[t] = blamed[t]
    BY <1>3, <1>10 DEF Inv, Typed
  <2>2. Typed'
    BY <1>2, <1>4, <1>10, <2>1, Zenon DEF Inv, Typed
  <2>3. \A v \in Children : Spared(v) /\ pipe'[v] = pipe[v]
    BY <1>2, <1>4, <1>7, <1>10, <2>1, Zenon DEF Spared
  <2>4. Tasks' /\ \A v \in Children : Talk(v)'
    BY <1>5, <2>2, <2>3, SparedTasked, SparedTalk, Zenon DEF Inv, Tasks, Talks
  <2>5. Roster'
    BY <1>2, <1>5, <1>8, <1>9, <1>10, Zenon DEF Roster, Registered
  <2>6. Apart'
    BY <1>2, <1>10, Zenon DEF Inv, Apart
  <2>7. Ledger'
    <3>1. \A t \in Sources : nextIndex' <= t => ~wrote'[t] /\ outcomes'[t] = "none"
      BY <1>2, <1>4, <1>5, <2>1, Zenon DEF Inv, Ledger
    <3>2. \A t \in Sources :
            /\ outcomes'[t] = "success" => name'[t] \in Names /\ final'[name'[t]] /= "absent"
            /\ outcomes'[t] = "error" => blamed'[t] /\ ~wrote'[t]
      <4>1. \A t \in Sources :
              /\ outcomes[t] = "success" => name[t] \in Names /\ final[name[t]] /= "absent"
              /\ outcomes[t] = "error" => blamed[t] /\ ~wrote[t]
        BY Zenon DEF Inv, Ledger
      <4> QED BY <1>2, <1>6, <2>1, <4>1, Zenon
    <3>3. outcome' \notin Kept /\ outcome' /= "dataset" /\ outcome' /= "no dataset"
      BY <1>2, <1>5, NotEnded, Zenon
    <3> QED BY <1>5, <3>1, <3>2, <3>3, Zenon DEF Ledger
  <2>8. Tidy'
    BY <1>2, <1>5, <1>10, Zenon DEF Inv, Tidy, Owner
  <2> QED BY <2>2, <2>4, <2>5, <2>6, <2>7, <2>8, Zenon DEF Inv, Talks
<1>11. CASE /\ name[nextIndex] /= BadName /\ Unoccupied(nextIndex)
            /\ state' = [state EXCEPT ![at] = "active"]
            /\ job' = [job EXCEPT ![at] = nextIndex]
            /\ late' = [late EXCEPT ![at] = FALSE]
            /\ mailbox' = [mailbox EXCEPT ![at] = nextIndex]
            /\ UNCHANGED <<outcomes, blamed>>
  <2>1. s \in 0..N /\ s \in -1..N
    BY ParallelAssumption DEF Sources
  <2>2. /\ state' \in [Children -> States]
        /\ job' \in [Children -> 0..N] /\ mailbox' \in [Children -> -1..N]
        /\ state'[w] = "active" /\ job'[w] = s /\ mailbox'[w] = s
        /\ \A v \in Children \ {w} :
             state'[v] = state[v] /\ job'[v] = job[v] /\ mailbox'[v] = mailbox[v]
    BY <1>1, <1>3, <1>11, <2>1 DEF Inv, Typed, States
  <2>3. Typed'
    BY <1>2, <1>4, <1>11, <2>2, Zenon DEF Inv, Typed
  <2>4. \A v \in Children \ {w} : Spared(v) /\ pipe'[v] = pipe[v]
    BY <1>2, <1>4, <1>11, <2>2, Zenon DEF Spared
  <2>5. Tasked(w) /\ Talk(w)
    BY <1>5, Zenon DEF Inv, Tasks, Talks
  <2>6. name[s] \in Names /\ name[s] /= BadName
    BY <1>3, <1>11, Zenon DEF Inv, Typed
  <2>7. /\ phase[w] \notin {"writing", "published", "boot"}
        /\ Answer(pipe[w], {}, phase[w] \in Live)
    BY <1>2, <2>5, Zenon DEF Tasked, Talk
  <2>8. Tasked(w)'
    <3>1. Given(w)'
      BY <1>2, <1>4, <1>6, <1>11, <2>2, <2>6, Zenon DEF Given
    <3> QED BY <1>2, <1>6, <2>2, <2>7, <3>1, Zenon DEF Tasked, Alive
  <2>9. Talk(w)'
    <3>1. Answer(pipe[w], {"finished", "failed"}, phase[w] \in Live)
      BY <2>7, Zenon DEF Answer
    <3>2. pipe[w] /= <<>> => Head(pipe[w]).kind = "interrupted"
      BY <2>7, Zenon DEF Answer
    <3>3. (pipe[w] /= <<>> => Truthful(Head(pipe[w]), job[w]))'
      BY <1>2, <3>2, Zenon DEF Truthful
    <3> QED BY <1>2, <2>2, <2>7, <3>1, <3>3, Zenon DEF Talk
  <2>10. Tasks' /\ \A v \in Children : Talk(v)'
    BY <1>5, <2>3, <2>4, <2>8, <2>9, OneChild, OneTalk, Zenon
  <2>11. Roster'
    <3>1. \A v \in Children : /\ state'[v] /= "absent" /\ phase'[v] /= "absent"
                              /\ state'[v] /= "unregistered"
      BY <1>2, <1>9, <2>2, Zenon
    <3> QED BY <1>2, <1>5, <1>8, <3>1, Zenon DEF Roster, Registered
  <2>12. Apart'
    <3>1. \A v \in Children \ {w} : state'[v] = "active" => job'[v] = job[v] /\ job[v] /= s
      BY <1>7, <2>2, Zenon
    <3>2. \A u, v \in Children \ {w} :
            u /= v /\ state'[u] = "active" /\ state'[v] = "active" => job'[u] /= job'[v]
      BY <2>2, Zenon DEF Inv, Apart
    <3> QED BY <2>2, <3>1, <3>2, Zenon DEF Apart
  <2>13. Ledger'
    <3>1. \A t \in Sources : nextIndex' <= t => ~wrote'[t] /\ outcomes'[t] = "none"
      BY <1>2, <1>4, <1>5, <1>11, Zenon DEF Inv, Ledger
    <3>2. outcome' \notin Kept /\ outcome' /= "dataset" /\ outcome' /= "no dataset"
      BY <1>2, <1>5, NotEnded, Zenon
    <3> QED BY <1>2, <1>5, <1>11, <3>1, <3>2, Zenon DEF Inv, Ledger
  <2>14. Tidy'
    <3>1. unclean = {} /\ unclean' = {}
      BY <1>2, <1>5, Zenon DEF Inv, Tidy
    <3>2. ASSUME NEW n \in Names, temp'[n] = "ours"
          PROVE  \E v \in Children : Owner(v, n)'
      <4>1. PICK v \in Children : Owner(v, n)
        BY <1>2, <3>2, Zenon DEF Inv, Tidy
      <4>2. state[v] = "active" /\ job[v] \in Sources /\ name[job[v]] = n /\ v /= w
        BY <1>2, <3>1, <4>1, Zenon DEF Owner
      <4> QED BY <1>2, <2>2, <4>2, Zenon DEF Owner
    <3> QED BY <1>5, <3>1, <3>2, Zenon DEF Tidy
  <2> QED BY <2>3, <2>10, <2>11, <2>12, <2>13, <2>14, Zenon DEF Inv, Talks
<1> QED BY <1>10, <1>11, Zenon DEF Dispatch

-----------------------------------------------------------------------------
(* Stopping *)

\* A child that is not in the list is followed by none that is.
LEMMA NoneAfter ==
  ASSUME Inv, NEW w \in Children, w + 1 \notin Children \/ ~Registered(w + 1)
  PROVE  \A v \in Children : v <= w \/ Gone(v)
<1> SUFFICES ASSUME NEW v \in Children, ~(v <= w) PROVE Gone(v)
  OBVIOUS
<1>1. w + 1 \in Children
  BY ChildFacts
<1>2. v = w + 1 \/ w + 1 < v
  BY ChildFacts
<1>3. state[v] \in {"absent", "unregistered"}
  BY <1>1, <1>2, Zenon DEF Inv, Roster, Registered
<1>4. state[v] = "absent" => phase[v] = "absent"
  BY Zenon DEF Inv, Roster
<1> QED BY <1>3, <1>4, Zenon DEF Gone, Alive

\* The next child is looked at, or the call ends.
LEMMA StopNextEnd ==
  ASSUME Inv, NEW error \in BOOLEAN, StopNext(error), pc \in Ending
  PROVE  /\ \/ pc' = "stop" /\ at' = at + 1 /\ at' \in Children /\ outcome' = outcome
            \/ /\ pc' = "done" /\ at' = at
               /\ at + 1 \notin Children \/ ~Registered(at + 1)
         /\ outcome' \in Kept => outcome' = "results" /\ pc' = "done" /\ ~interrupted
<1>1. pc /= "done"
  BY DEF Ending
<1>2. outcome \notin Kept
  BY <1>1, NotEnded, Zenon
<1>3. CASE at + 1 \in Children /\ Registered(at + 1)
  BY <1>2, <1>3, Zenon DEF StopNext
<1>4. CASE ~(at + 1 \in Children /\ Registered(at + 1))
  <2>1. /\ pc' = "done" /\ at' = at
        /\ outcome' = IF raised' THEN "raised" ELSE IF interrupted THEN "interrupt" ELSE "results"
    BY <1>4, Zenon DEF StopNext
  <2>2. outcome' \in Kept => outcome' = "results" /\ ~interrupted
    BY <2>1 DEF Kept
  <2> QED BY <1>4, <2>1, <2>2, Zenon
<1> QED BY <1>3, <1>4, Zenon

\* A child is asked to end, or will be signalled; or there is none left.
LEMMA StopInv == ASSUME Inv, Stop PROVE Inv'
<1>1. PICK w \in Children : w = at
  BY Zenon DEF Inv, Typed
<1>2. /\ UNCHANGED <<name, final, temp, state, job, nextIndex, outcomes, failure, loaded, phase,
                     own, pipe, blamed, wrote, interrupted, unclean>>
      /\ pc = "stop"
  BY Zenon DEF Stop, input, notes, limits
<1>3. /\ pc \in Ending /\ pc /= "done" /\ interrupted' \in BOOLEAN /\ (interrupted => interrupted')
      /\ unclean' \in SUBSET Children /\ unclean \subseteq unclean'
  <2>1. interrupted \in BOOLEAN /\ interrupted' = interrupted
    BY <1>2, Zenon DEF Inv, Typed
  <2>2. unclean' \in SUBSET Children /\ unclean \subseteq unclean'
    BY <1>2, Zenon DEF Inv, Typed
  <2>3. pc \in Ending /\ pc /= "done"
    BY <1>2 DEF Ending
  <2>4. interrupted' \in BOOLEAN /\ (interrupted => interrupted')
    BY <2>1
  <2> QED BY <2>2, <2>3, <2>4, Zenon
<1>4. CASE ~Registered(w)
  <2>1. StopNext(FALSE) /\ mailbox' = mailbox
    BY <1>1, <1>4, Zenon DEF Stop
  <2>2. w + 1 \notin Children \/ ~Registered(w + 1)
    <3>1. w < w + 1
      BY ChildFacts
    <3> QED BY <1>4, <3>1, Zenon DEF Inv, Roster, Registered
  <2>3. /\ pc' = "done" /\ at' = at
        /\ outcome' \in Kept => outcome' = "results" /\ ~interrupted
    BY <1>1, <1>3, <2>1, <2>2, StopNextEnd, Zenon DEF StopNext
  <2>4. \A v \in Children : Gone(v)'
    <3>1. Gone(w)
      BY <1>4, Zenon DEF Inv, Roster, Registered, Gone, Alive
    <3>2. \A v \in Children : v < w \/ v = w \/ ~(v <= w)
      BY ChildFacts
    <3>3. \A v \in Children : v < w => Gone(v)
      BY <1>1, <1>3, Zenon DEF Inv, Tidy
    <3>4. \A v \in Children : Gone(v)
      BY <2>2, <3>1, <3>2, <3>3, NoneAfter, Zenon
    <3> QED BY <1>2, <3>4, Zenon DEF Gone, Alive
  <2>5. UNCHANGED <<still, pipe>> /\ UNCHANGED <<at, failure, loaded>>
    BY <1>2, <2>1, <2>3, Zenon DEF still
  <2> QED BY <1>3, <2>3, <2>4, <2>5, StopEnds, Zenon
<1>5. CASE Registered(w) /\ pc' = "kill"
  <2>1. mailbox' = [mailbox EXCEPT ![at] = IF pc' = "join" THEN Quit ELSE @]
        /\ UNCHANGED <<at, outcome>>
    BY <1>1, <1>5, Zenon DEF Stop
  <2>2. mailbox' = mailbox
    BY <1>5, <2>1, Zenon DEF Inv, Typed
  <2>3. /\ UNCHANGED <<still, pipe>>
        /\ UNCHANGED <<at, failure, interrupted, unclean, outcome, loaded>>
    BY <1>2, <2>1, <2>2, Zenon DEF still
  <2>4. pc' \in Ending
    BY <1>5 DEF Ending
  <2> QED BY <1>1, <1>3, <1>5, <2>3, <2>4, StopGoesOn, Zenon
<1>6. CASE Registered(w) /\ pc' /= "kill"
  <2>1. /\ pc' = "join" /\ state[w] = "idle" /\ UNCHANGED <<at, outcome>>
        /\ mailbox' = [mailbox EXCEPT ![w] = Quit]
    BY <1>1, <1>6, Zenon DEF Stop
  <2>2. Quit \in -1..N /\ Quit \notin Sources
    BY ParallelAssumption DEF Quit, Sources
  <2>3. /\ mailbox' \in [Children -> -1..N] /\ mailbox'[w] \notin Sources
        /\ \A v \in Children \ {w} : mailbox'[v] = mailbox[v]
    BY <2>1, <2>2, Zenon DEF Inv, Typed
  <2>4. /\ pc' \in Ending /\ pc' \notin Working /\ pc' \notin {"preflight", "done", "start"}
        /\ pc' /= "register" /\ pc /= "register" /\ pc' \notin {"poll", "exit", "dispatch"}
    BY <1>2, <2>1 DEF Ending, Working
  <2>5. Typed'
    BY <1>2, <2>1, <2>3, <2>4, Zenon DEF Inv, Typed
  <2>6. \A v \in Children \ {w} : Spared(v)
    <3>1. nextIndex <= nextIndex'
      BY <1>2, ParallelAssumption DEF Inv, Typed
    <3> QED BY <1>2, <2>3, <3>1, Zenon DEF Spared
  <2>7. Tasked(w)'
    <3>1. phase[w] \notin {"writing", "published"}
      BY <2>1, Zenon DEF Inv, Tasks, Tasked
    <3> QED BY <1>2, <2>1, <2>3, <3>1, Zenon DEF Tasked
  <2>8. Tasks'
    BY <2>5, <2>6, <2>7, OneChild, Zenon
  <2>9. Roster'
    <3>1. Distinct'
      BY <1>2, <1>6, Zenon DEF Inv, Roster, Registered, Distinct, SameDestination
    <3> QED BY <1>1, <1>2, <1>6, <2>1, <2>4, <3>1, Zenon DEF Inv, Roster, Registered
  <2>10. Apart' /\ Talks'
    BY <1>2, <2>1, <2>4, Zenon DEF Inv, Apart, Talks
  <2>11. Ledger'
    BY <1>2, <1>3, <2>1, <2>4, NotEnded, Zenon DEF Inv, Ledger, Settled
  <2>12. Tidy'
    BY <1>2, <1>3, <2>1, <2>4, Zenon DEF Inv, Tidy, Owner, Gone, Alive
  <2> QED BY <2>5, <2>8, <2>9, <2>10, <2>11, <2>12, Zenon DEF Inv
<1> QED BY <1>4, <1>5, <1>6, Zenon

\* A child is reaped, or cannot be, and the next one is looked at.
LEMMA ReapedInv ==
  ASSUME Inv, pc = "reap", NEW w \in Children, w = at, NEW error \in BOOLEAN, StopNext(error),
         UNCHANGED <<name, final, job, nextIndex, outcomes, failure, loaded, phase, own, mailbox,
                     pipe, blamed, wrote, interrupted>>,
         state' \in [Children -> States],
         temp' \in [Names -> {"absent", "stale", "ours"}],
         unclean' \in {unclean, unclean \cup {w}},
         \A v \in Children \ {w} : state'[v] = state[v],
         \A n \in Names : temp'[n] = temp[n] \/ (state[w] = "active" /\ n = name[job[w]]),
         \/ state' = state /\ temp' = temp /\ w \in unclean'
         \/ ~Alive(w) /\ state'[w] = "idle",
         w \in unclean' \/ (state[w] = "active" => temp'[name[job[w]]] /= "ours")
  PROVE  Inv'
<1>1. /\ pc \in Ending /\ pc /= "done" /\ pc /= "preflight" /\ pc /= "register"
      /\ Registered(w) /\ Registered(w)' /\ phase[w] /= "absent" /\ Distinct
  <2>1. pc \in Ending
    BY DEF Ending
  <2> QED BY <2>1, Zenon DEF Inv, Roster, Registered
<1>2. /\ \/ pc' = "stop" /\ at' = w + 1 /\ at' \in Children /\ outcome' = outcome
         \/ pc' = "done" /\ at' = w /\ (w + 1 \notin Children \/ ~Registered(w + 1))
      /\ outcome' \in Kept => outcome' = "results" /\ pc' = "done" /\ ~interrupted
  BY <1>1, StopNextEnd, Zenon
<1>3. /\ pc' \notin Working /\ pc' \notin {"join", "kill", "reap", "preflight"} /\ at' \in Children
      /\ pc' \in {"preflight", "done"} \cup Working \cup Ending
      /\ pc' = "done" => pc' \notin Ending
  BY <1>2 DEF Working, Ending
<1>4. Typed'
  <2>1. unclean \in SUBSET Children
    BY Zenon DEF Inv, Typed
  <2>2. unclean' \in SUBSET Children
    BY <2>1
  <2> QED BY <1>3, <2>2, Zenon DEF Inv, Typed
<1>5. nextIndex <= nextIndex'
  BY ParallelAssumption DEF Inv, Typed
<1>6. \A v \in Children \ {w} : Spared(v)
  <2>1. ASSUME NEW v \in Children \ {w}, state[v] = "active"
        PROVE  temp'[name[job[v]]] = temp[name[job[v]]]
    <3>1. state[w] = "active" => name[job[v]] /= name[job[w]]
      BY <2>1, NamesApart, Zenon
    <3>2. name[job[v]] \in Names
      BY <2>1, Zenon DEF Inv, Tasks, Tasked, Given
    <3> QED BY <3>1, <3>2, Zenon
  <2> QED BY <1>5, <2>1, Zenon DEF Spared
<1>7. Tasks'
  <2>1. CASE state' = state /\ temp' = temp
    <3>1. Spared(w)
      BY <1>5, <2>1, Zenon DEF Spared
    <3>2. Tasked(w)'
      BY <1>4, <3>1, SparedTasked, Zenon DEF Inv, Tasks
    <3> QED BY <1>4, <1>6, <3>2, OneChild, Zenon
  <2>2. CASE ~Alive(w) /\ state'[w] = "idle"
    <3>1. phase'[w] \in {"absent", "dead"}
      BY <2>2, Zenon DEF Alive
    <3>2. Tasked(w)'
      BY <2>2, <3>1, Zenon DEF Tasked, Alive
    <3> QED BY <1>4, <1>6, <3>2, OneChild, Zenon
  <2> QED BY <2>1, <2>2, Zenon
<1>8. Roster'
  <2>1. \A v \in Children : /\ state'[v] = "absent" <=> state[v] = "absent"
                            /\ state'[v] = "unregistered" <=> state[v] = "unregistered"
                            /\ Registered(v) => Registered(v)'
    BY <1>1, Zenon DEF Registered
  <2>2. Distinct'
    BY <1>1, Zenon DEF Distinct, SameDestination
  <2>3. pc' \notin {"start", "register", "poll", "exit", "dispatch"}
        /\ pc' \in Ending \cup {"done"}
    BY <1>2 DEF Ending
  <2> QED BY <1>1, <1>3, <2>1, <2>2, <2>3, Zenon DEF Inv, Roster
<1>9. Apart' /\ Talks'
  <2>1. \A v \in Children : state'[v] = "active" => state[v] = "active"
    BY Zenon
  <2> QED BY <1>3, <2>1, Zenon DEF Inv, Apart, Talks
<1>10. Ledger'
  <2>1. failure \/ interrupted \/ Settled
    BY <1>1, Zenon DEF Inv, Ledger
  <2>2. outcome' /= "dataset" /\ outcome' /= "no dataset"
    BY <1>2 DEF Kept
  <2>3. Settled' <=> Settled
    BY Zenon DEF Settled
  <2> QED BY <1>2, <1>3, <2>1, <2>2, <2>3, Zenon DEF Inv, Ledger
<1>11. Tidy'
  <2>1. ASSUME NEW n \in Names, temp'[n] = "ours"
        PROVE  \E v \in Children : Owner(v, n)'
    <3>1. CASE state[w] = "active" /\ n = name[job[w]]
      <4>1. w \in unclean' /\ job[w] \in Sources
        BY <2>1, <3>1, Zenon DEF Inv, Tasks, Tasked, Given
      <4> QED BY <3>1, <4>1, Zenon DEF Owner
    <3>2. CASE ~(state[w] = "active" /\ n = name[job[w]])
      <4>1. temp[n] = "ours"
        BY <2>1, <3>2, Zenon
      <4>2. PICK v \in Children : Owner(v, n)
        BY <4>1, Zenon DEF Inv, Tidy
      <4>3. v /= w \/ w \in unclean'
        BY <3>2, <4>2, Zenon DEF Owner
      <4> QED BY <4>2, <4>3, Zenon DEF Owner
    <3> QED BY <3>1, <3>2, Zenon
  <2>2. ASSUME NEW v \in Children, v /= w, Gone(v) PROVE Gone(v)'
    BY <2>2, Zenon DEF Gone, Alive
  <2>3. Gone(w)'
    BY Zenon DEF Gone, Alive
  <2>4. \A v \in Children : v <= w => Gone(v)'
    <3>1. \A v \in Children : v <= w => v < w \/ v = w
      BY ChildFacts
    <3>2. \A v \in Children : v < w => Gone(v)
      BY <1>1, Zenon DEF Inv, Tidy
    <3> QED BY <2>2, <2>3, <3>1, <3>2, Zenon
  <2>5. pc' = "done" => \A v \in Children : Gone(v)'
    <3>1. pc' = "done" => \A v \in Children : v <= w \/ Gone(v)
      BY <1>2, NoneAfter, Zenon
    <3> QED BY <2>2, <2>3, <2>4, <3>1, Zenon
  <2>6. pc' = "stop" => \A v \in Children : v < at' => Gone(v)'
    <3>1. pc' = "stop" => \A v \in Children : v < at' => v <= w
      BY <1>2, ChildFacts
    <3> QED BY <2>4, <3>1, Zenon
  <2> QED BY <1>2, <1>3, <2>1, <2>5, <2>6, Zenon DEF Tidy
<1> QED BY <1>4, <1>7, <1>8, <1>9, <1>10, <1>11, Zenon DEF Inv

\* The three ways to reap a child.
LEMMA ReapInv == ASSUME Inv, Reap PROVE Inv'
<1>1. PICK w \in Children : w = at
  BY Zenon DEF Inv, Typed
<1>2. /\ UNCHANGED <<name, final, job, nextIndex, outcomes, failure, loaded, phase, own, mailbox,
                     pipe, blamed, wrote, interrupted>>
      /\ pc = "reap"
  BY Zenon DEF Reap, input, procs, notes
<1>3. /\ state \in [Children -> States]
      /\ temp \in [Names -> {"absent", "stale", "ours"}]
      /\ state[w] = "active" => name[job[w]] \in Names
  BY Zenon DEF Inv, Typed, Tasks, Tasked, Given
<1>4. CASE /\ ~Alive(at)
           /\ temp' = IF state[at] = "active" THEN Cleaned(job[at]) ELSE temp
           /\ state' = [state EXCEPT ![at] = "idle"]
           /\ StopNext(FALSE) /\ UNCHANGED limits
  <2>1. /\ state' \in [Children -> States]
        /\ \A v \in Children \ {w} : state'[v] = state[v]
        /\ ~Alive(w) /\ state'[w] = "idle" /\ unclean' = unclean
    BY <1>1, <1>3, <1>4, Zenon DEF limits, States
  <2>2. /\ temp' \in [Names -> {"absent", "stale", "ours"}]
        /\ \A n \in Names : temp'[n] = temp[n] \/ (state[w] = "active" /\ n = name[job[w]])
        /\ state[w] = "active" => temp'[name[job[w]]] /= "ours"
    <3>1. CASE state[w] /= "active"
      BY <1>1, <1>3, <1>4, <3>1, Zenon
    <3>2. CASE state[w] = "active"
      <4>1. PICK n \in Names : n = name[job[w]]
        BY <1>3, <3>2, Zenon
      <4>2. temp' = [temp EXCEPT ![n] = IF temp[n] = "ours" THEN "absent" ELSE temp[n]]
        BY <1>1, <1>4, <3>2, <4>1, Zenon DEF Cleaned
      <4>3. (IF temp[n] = "ours" THEN "absent" ELSE temp[n]) \in {"absent", "stale"}
        BY <1>3
      <4>4. /\ temp' \in [Names -> {"absent", "stale", "ours"}] /\ temp'[n] /= "ours"
            /\ \A k \in Names \ {n} : temp'[k] = temp[k]
        BY <1>3, <4>2, <4>3
      <4> QED BY <3>2, <4>1, <4>4, Zenon
    <3> QED BY <3>1, <3>2, Zenon
  <2>3. unclean' \in {unclean, unclean \cup {w}}
    BY <2>1, Zenon
  <2>4. FALSE \in BOOLEAN /\ StopNext(FALSE)
    BY <1>3, <1>4, <2>1, Zenon
  <2> QED BY <1>1, <1>2, <2>1, <2>2, <2>3, <2>4, ReapedInv, Zenon
<1>5. CASE /\ ~Alive(at) /\ state[at] = "active" /\ temp[name[job[at]]] = "ours"
           /\ MayFault /\ state' = [state EXCEPT ![at] = "idle"]
           /\ StopNext(TRUE) /\ UNCHANGED temp
  <2>1. /\ state' \in [Children -> States]
        /\ \A v \in Children \ {w} : state'[v] = state[v]
        /\ ~Alive(w) /\ state'[w] = "idle" /\ temp' = temp
        /\ unclean' \in {unclean, unclean \cup {w}} /\ w \in unclean'
        /\ temp' \in [Names -> {"absent", "stale", "ours"}]
        /\ \A n \in Names : temp'[n] = temp[n]
        /\ TRUE \in BOOLEAN /\ StopNext(TRUE)
    BY <1>1, <1>3, <1>5, Zenon DEF MayFault, States
  <2> QED BY <1>1, <1>2, <2>1, ReapedInv, Zenon
<1>6. CASE Alive(at) /\ MayFault /\ StopNext(TRUE) /\ UNCHANGED <<temp, state>>
  <2>1. /\ state' = state /\ temp' = temp
        /\ unclean' \in {unclean, unclean \cup {w}} /\ w \in unclean'
        /\ state' \in [Children -> States]
        /\ temp' \in [Names -> {"absent", "stale", "ours"}]
        /\ \A v \in Children : state'[v] = state[v]
        /\ \A n \in Names : temp'[n] = temp[n]
        /\ TRUE \in BOOLEAN /\ StopNext(TRUE)
    BY <1>1, <1>3, <1>6, Zenon DEF MayFault
  <2> QED BY <1>1, <1>2, <2>1, ReapedInv, Zenon
<1> QED BY <1>4, <1>5, <1>6, Zenon DEF Reap

-----------------------------------------------------------------------------
(* The children *)

\* What a step of a child may do: it leaves the supervisor and the other
\* children alone, and touches only the destination it was given.
Moves(w) ==
  /\ UNCHANGED <<name, pc, at, state, job, nextIndex, outcomes, outcome, loaded, failure,
                 interrupted, unclean>>
  /\ final' \in [Names -> {"absent", "old", "new"}]
  /\ temp' \in [Names -> {"absent", "stale", "ours"}]
  /\ phase' \in [Children -> Live \cup {"absent", "leaving", "dead"}]
  /\ own' \in [Children -> 0..N] /\ mailbox' \in [Children -> -1..N]
  /\ pipe' \in [Children -> Seq(Messages)]
  /\ blamed' \in [Sources -> BOOLEAN] /\ wrote' \in [Sources -> BOOLEAN]
  /\ Alive(w) /\ phase'[w] /= "absent"
  /\ \A v \in Children \ {w} : /\ phase'[v] = phase[v] /\ own'[v] = own[v]
                               /\ mailbox'[v] = mailbox[v] /\ pipe'[v] = pipe[v]
  /\ \A n \in Names : /\ temp'[n] = temp[n] \/ (state[w] = "active" /\ n = name[job[w]])
                      /\ final[n] /= "absent" => final'[n] /= "absent"
  /\ \A s \in Sources : /\ wrote'[s] => wrote[s] \/ (state[w] = "active" /\ s = job[w])
                        /\ blamed[s] => blamed'[s]

\* Such a step keeps the invariant if the child itself does what it was told.
LEMMA MovesInv ==
  ASSUME Inv, NEW w \in Children, Moves(w), Tasked(w)', pc \in Working => Talk(w)'
  PROVE  Inv'
<1>1. /\ UNCHANGED <<name, pc, at, state, job, nextIndex, outcomes, outcome, loaded, failure,
                     interrupted, unclean>>
      /\ Alive(w) /\ phase[w] /= "absent" /\ phase'[w] /= "absent"
  BY Zenon DEF Moves, Alive
<1>2. Typed'
  <2>1. /\ final' \in [Names -> {"absent", "old", "new"}]
        /\ temp' \in [Names -> {"absent", "stale", "ours"}]
        /\ phase' \in [Children -> Live \cup {"absent", "leaving", "dead"}]
        /\ own' \in [Children -> 0..N] /\ mailbox' \in [Children -> -1..N]
        /\ pipe' \in [Children -> Seq(Messages)]
        /\ blamed' \in [Sources -> BOOLEAN] /\ wrote' \in [Sources -> BOOLEAN]
    BY Zenon DEF Moves
  <2> QED BY <1>1, <2>1, Zenon DEF Inv, Typed
<1>3. nextIndex <= nextIndex'
  BY <1>1, ParallelAssumption DEF Inv, Typed
<1>4. \A v \in Children : state[v] = "active" => Given(v)
  BY Zenon DEF Inv, Tasks, Tasked
<1>5. \A v \in Children \ {w} : Spared(v) /\ pipe'[v] = pipe[v]
  <2>1. ASSUME NEW v \in Children \ {w}, state[v] = "active"
        PROVE  /\ outcomes'[job[v]] = outcomes[job[v]]
               /\ wrote'[job[v]] => wrote[job[v]]
               /\ blamed[job[v]] => blamed'[job[v]]
               /\ temp'[name[job[v]]] = temp[name[job[v]]]
               /\ final[name[job[v]]] /= "absent" => final'[name[job[v]]] /= "absent"
    <3>1. job[v] \in Sources /\ name[job[v]] \in Names
      BY <1>4, <2>1, Zenon DEF Given
    <3>2. state[w] = "active" => job[v] /= job[w] /\ name[job[v]] /= name[job[w]]
      BY <2>1, NamesApart, Zenon
    <3> QED BY <1>1, <3>1, <3>2, Zenon DEF Moves
  <2>2. ASSUME NEW v \in Children \ {w}
        PROVE  /\ phase'[v] = phase[v] /\ own'[v] = own[v] /\ mailbox'[v] = mailbox[v]
               /\ pipe'[v] = pipe[v]
    BY Zenon DEF Moves
  <2> QED BY <1>1, <1>3, <2>1, <2>2, Zenon DEF Spared
<1>6. Tasks'
  BY <1>2, <1>5, OneChild, Zenon
<1>7. state[w] /= "absent" /\ pc /= "preflight"
  BY <1>1, Zenon DEF Inv, Roster
<1>8. Talks'
  <2>1. pc \in Working => \A v \in Children : Talk(v)'
    BY <1>5, OneTalk, Zenon
  <2> QED BY <1>1, <1>7, <2>1, Zenon DEF Talks
<1>9. Roster'
  <2>1. \A v \in Children : phase'[v] = "absent" <=> phase[v] = "absent"
    BY <1>1, Zenon DEF Moves
  <2>2. Distinct'
    BY <1>1, <1>7, Zenon DEF Inv, Roster, Distinct, SameDestination
  <2> QED BY <1>1, <2>1, <2>2, Zenon DEF Inv, Roster, Registered
<1>10. Apart'
  BY <1>1, Zenon DEF Inv, Apart
<1>11. Ledger'
  <2>1. SuccessfulPaths' = SuccessfulPaths
    BY <1>1, SMT DEF SuccessfulPaths, WithOutcome
  <2>2. \A s \in Sources : nextIndex <= s => ~wrote'[s]
    <3>1. ASSUME NEW s \in Sources, nextIndex <= s, state[w] = "active" PROVE s /= job[w]
      <4>1. job[w] < nextIndex
        BY <1>4, <3>1, Zenon DEF Given
      <4> QED BY <3>1, <4>1, ParallelAssumption DEF Inv, Typed, Sources
    <3> QED BY <3>1, Zenon DEF Inv, Ledger, Moves
  <2>3. ASSUME NEW s \in Sources
        PROVE  /\ outcomes'[s] = "success" => name'[s] \in Names /\ final'[name'[s]] /= "absent"
               /\ outcomes'[s] = "error" => blamed'[s] /\ ~wrote'[s]
    <3>1. outcomes[s] = "error" => ~(state[w] = "active" /\ s = job[w])
      BY <1>4, Zenon DEF Given
    <3>2. /\ outcomes[s] = "success" => name[s] \in Names /\ final[name[s]] /= "absent"
          /\ outcomes[s] = "error" => blamed[s] /\ ~wrote[s]
      BY Zenon DEF Inv, Ledger
    <3>3. /\ wrote'[s] => wrote[s] \/ (state[w] = "active" /\ s = job[w])
          /\ blamed[s] => blamed'[s]
          /\ name[s] \in Names /\ final[name[s]] /= "absent" => final'[name[s]] /= "absent"
      BY Zenon DEF Moves
    <3> QED BY <1>1, <3>1, <3>2, <3>3, Zenon
  <2>4. /\ pc \in Ending => failure \/ interrupted \/ Settled
        /\ outcome \in Kept => pc = "done" /\ (failure \/ Settled)
        /\ outcome = "dataset" => loaded = SuccessfulPaths
        /\ outcome = "no dataset" => SuccessfulPaths = <<>>
        /\ pc = "preflight" => nextIndex = 1
        /\ pc \in {"preflight"} \cup Working =>
             \A s \in Sources : nextIndex <= s => outcomes[s] = "none"
    BY Zenon DEF Inv, Ledger
  <2>5. Settled' <=> Settled
    BY <1>1, Zenon DEF Settled
  <2> QED BY <1>1, <2>1, <2>2, <2>3, <2>4, <2>5, Zenon DEF Ledger
<1>12. Tidy'
  <2>1. ASSUME NEW n \in Names, temp'[n] = "ours"
        PROVE  \E v \in Children : Owner(v, n)'
    <3>1. temp[n] = "ours" \/ (state[w] = "active" /\ n = name[job[w]])
      BY <2>1, Zenon DEF Moves
    <3>2. \E v \in Children : Owner(v, n)
      BY <1>4, <3>1, Zenon DEF Inv, Tidy, Owner, Given
    <3> QED BY <1>1, <3>2, Zenon DEF Owner
  <2>2. ASSUME NEW v \in Children, Gone(v) PROVE Gone(v)'
    <3>1. Alive(v)' => Alive(v)
      <4>1. v /= w => phase'[v] = phase[v]
        BY Zenon DEF Moves
      <4> QED BY <1>1, <4>1, Zenon DEF Alive
    <3> QED BY <1>1, <2>2, <3>1, Zenon DEF Gone
  <2> QED BY <1>1, <2>1, <2>2, Zenon DEF Inv, Tidy
<1> QED BY <1>2, <1>6, <1>8, <1>9, <1>10, <1>11, <1>12, Zenon DEF Inv

\* A message is put into a pipe.
LEMMA Sent ==
  ASSUME NEW q \in Seq(Messages), NEW m \in Messages
  PROVE  /\ Append(q, m) \in Seq(Messages) /\ Append(q, m) /= <<>>
         /\ q = <<>> => Head(Append(q, m)) = m /\ Tail(Append(q, m)) = <<>>
         /\ q /= <<>> => Head(Append(q, m)) = Head(q)
         /\ q /= <<>> /\ Tail(q) = <<>> =>
              \A k \in DOMAIN Tail(Append(q, m)) : Tail(Append(q, m))[k] = m
<1> DEFINE r == Append(q, m)
<1>1. /\ r \in Seq(Messages) /\ Len(r) = Len(q) + 1 /\ r[Len(q) + 1] = m
      /\ \A k \in 1..Len(q) : r[k] = q[k]
  OBVIOUS
<1>2. r /= <<>> /\ Len(q) \in Nat
  BY <1>1
<1>3. q = <<>> => r = <<m>>
  OBVIOUS
<1>4. q /= <<>> => Len(q) > 0 /\ Head(r) = Head(q)
  OBVIOUS
<1>5. ASSUME q /= <<>>, Tail(q) = <<>>
      PROVE  \A k \in DOMAIN Tail(r) : Tail(r)[k] = m
  <2>1. Len(q) /= 0 /\ Len(Tail(q)) = Len(q) - 1 /\ Len(<<>>) = 0
    BY <1>5
  <2>2. Len(Tail(q)) = 0
    BY <1>5, <2>1, Zenon
  <2> HIDE DEF r
  <2> DEFINE l == Len(q)
  <2>3. l = 1
    <3>1. l \in Nat /\ l - 1 = 0
      BY <1>2, <2>1, <2>2, Zenon
    <3> HIDE DEF l
    <3> QED BY <3>1
  <2>4. Len(r) = 1 + 1 /\ r[1 + 1] = m
    BY <1>1, <2>3, Zenon
  <2>5. r /= <<>> => DOMAIN Tail(r) = 1..(Len(r) - 1)
                     /\ \A k \in 1..(Len(r) - 1) : Tail(r)[k] = r[k + 1]
    BY <1>1
  <2> QED BY <1>2, <2>4, <2>5
<1>6. Head(<<m>>) = m /\ Tail(<<m>>) = <<>>
  <2>1. <<m>> \in Seq(Messages) /\ Len(<<m>>) = 1
    OBVIOUS
  <2> QED BY <2>1
<1> QED BY <1>1, <1>2, <1>3, <1>4, <1>5, <1>6, Zenon

\* The answer is the only message.
LEMMA AnswerSent ==
  ASSUME NEW m \in Messages, NEW kinds, m.kind \in kinds, NEW live \in BOOLEAN
  PROVE  Answer(Append(<<>>, m), kinds, live)
<1>1. <<>> \in Seq(Messages)
  OBVIOUS
<1>2. Head(Append(<<>>, m)) = m /\ Tail(Append(<<>>, m)) = <<>>
  BY <1>1, Sent, Zenon
<1>3. Quiet(<<>>)
  BY DEF Quiet
<1> QED BY <1>2, <1>3, Zenon DEF Answer

\* After an interrupt nothing follows.
LEMMA AnswerInterrupted ==
  ASSUME NEW q \in Seq(Messages), NEW m \in Messages, m.kind = "interrupted", NEW kinds,
         Answer(q, kinds, TRUE)
  PROVE  Answer(Append(q, m), kinds, FALSE)
<1>1. CASE q = <<>>
  <2>1. Head(Append(q, m)) = m /\ Tail(Append(q, m)) = <<>>
    BY <1>1, Sent, Zenon
  <2>2. Quiet(<<>>)
    BY DEF Quiet
  <2> QED BY <2>1, <2>2, Zenon DEF Answer
<1>2. CASE q /= <<>>
  <2>1. Tail(q) = <<>> /\ Head(q).kind \in kinds
    BY <1>2, Zenon DEF Answer
  <2>2. Head(Append(q, m)) = Head(q)
    BY <1>2, Sent, Zenon
  <2>3. Quiet(Tail(Append(q, m)))
    BY <1>2, <2>1, Sent, Zenon DEF Quiet
  <2> QED BY <2>1, <2>2, <2>3, Zenon DEF Answer
<1> QED BY <1>1, <1>2, Zenon

\* A child that ends leaves its answer behind.
LEMMA AnswerLeft ==
  ASSUME NEW q, NEW kinds, NEW live \in BOOLEAN, Answer(q, kinds, live)
  PROVE  Answer(q, kinds, FALSE)
BY Zenon DEF Answer

\* A child sends a message.
LEMMA SendFacts ==
  ASSUME Inv, NEW w \in Children, NEW kind \in {"ready", "finished", "interrupted", "failed"},
         NEW ok \in BOOLEAN, Send(w, kind, ok)
  PROVE  /\ pipe' \in [Children -> Seq(Messages)]
         /\ pipe[w] \in Seq(Messages) /\ Message(kind, ok) \in Messages
         /\ Message(kind, ok).kind = kind /\ Message(kind, ok).ok = ok
         /\ pipe'[w] = Append(pipe[w], Message(kind, ok))
         /\ \A v \in Children \ {w} : pipe'[v] = pipe[v]
<1>1. pipe \in [Children -> Seq(Messages)]
  BY Zenon DEF Inv, Typed
<1>2. pipe[w] \in Seq(Messages)
  BY <1>1, Zenon
<1>3. /\ Message(kind, ok) \in Messages /\ Message(kind, ok).kind = kind
      /\ Message(kind, ok).ok = ok
  BY DEF Message, Messages
<1>4. Append(pipe[w], Message(kind, ok)) \in Seq(Messages)
  BY <1>2, <1>3, Sent, Zenon
<1> QED BY <1>1, <1>2, <1>3, <1>4, Zenon DEF Send

\* An active child answers.
LEMMA ActiveAnswers ==
  ASSUME NEW w \in Children, state[w] = "active", UNCHANGED <<state, job>>, job[w] \in Sources,
         pipe[w] = <<>>, NEW m \in Messages, m.kind \in {"finished", "failed"},
         pipe'[w] = Append(pipe[w], m), phase'[w] \in {"waiting", "dead"}, mailbox'[w] = Empty,
         Truthful(m, job[w])'
  PROVE  Talk(w)'
<1>1. /\ Append(<<>>, m) /= <<>> /\ Head(Append(<<>>, m)) = m
  <2>1. <<>> \in Seq(Messages)
    OBVIOUS
  <2> QED BY <2>1, Sent, Zenon
<1>2. (phase[w] \in Live)' \in BOOLEAN
  OBVIOUS
<1>3. Answer(Append(<<>>, m), {"finished", "failed"}, (phase[w] \in Live)')
  BY <1>2, AnswerSent, Zenon
<1>4. job[w] /= Empty
  BY DEF Empty, Sources
<1> QED BY <1>1, <1>3, <1>4, Zenon DEF Talk, Empty

\* A child has started.
LEMMA BootInv == ASSUME Inv, NEW w \in Children, Boot(w) PROVE Inv'
<1>1. /\ UNCHANGED <<name, pc, at, state, job, nextIndex, outcomes, outcome, loaded, failure,
                     interrupted, unclean, final, temp, own, mailbox, blamed, wrote>>
      /\ phase[w] = "boot" /\ phase' = [phase EXCEPT ![w] = "waiting"] /\ Send(w, "ready", TRUE)
  BY Zenon DEF Boot, Goes, input, super, ending, notes, limits
<1> DEFINE m == Message("ready", TRUE)
<1>2. /\ pipe' \in [Children -> Seq(Messages)] /\ m \in Messages /\ m.kind = "ready"
      /\ pipe'[w] = Append(pipe[w], m) /\ \A v \in Children \ {w} : pipe'[v] = pipe[v]
  BY <1>1, SendFacts, Zenon
<1>3. /\ phase' \in [Children -> Live \cup {"absent", "leaving", "dead"}] /\ phase'[w] = "waiting"
      /\ \A v \in Children \ {w} : phase'[v] = phase[v]
  BY <1>1, Zenon DEF Inv, Typed, Live
<1>4. Moves(w)
  BY <1>1, <1>2, <1>3, Zenon DEF Moves, Inv, Typed, Alive
<1>5. Tasked(w)'
  BY <1>1, <1>3, Zenon DEF Inv, Tasks, Tasked, Given, Alive
<1>6. pc \in Working => Talk(w)'
  <2> SUFFICES ASSUME pc \in Working PROVE Talk(w)'
    OBVIOUS
  <2>1. Talk(w) /\ state[w] /= "absent" /\ state[w] \in States
    BY <1>1, Zenon DEF Inv, Talks, Roster, Typed
  <2>2. state[w] \in {"unregistered", "starting"} /\ mailbox[w] = Empty /\ pipe[w] = <<>>
    BY <1>1, <2>1, Zenon DEF Talk, States
  <2>3. TRUE \in BOOLEAN /\ "waiting" \in Live
    BY DEF Live
  <2>4. Answer(pipe'[w], {"ready"}, TRUE)
    BY <1>2, <2>2, <2>3, AnswerSent, Zenon
  <2> QED BY <1>1, <1>3, <2>2, <2>3, <2>4, Zenon DEF Talk, Empty
<1> QED BY <1>4, <1>5, <1>6, MovesInv, Zenon

\* What a child that has taken a source knows.
LEMMA TakenSource ==
  ASSUME Inv, NEW w \in Children, phase[w] = "waiting", mailbox[w] /= Empty, mailbox[w] /= Quit
  PROVE  /\ mailbox[w] = job[w] /\ job[w] \in Sources /\ state[w] = "active" /\ ~wrote[job[w]]
         /\ name[job[w]] \in Names /\ Given(w)
         /\ pc \in Working => pipe[w] = <<>>
<1>1. mailbox[w] \in Sources
  <2>1. mailbox[w] \in -1..N
    BY Zenon DEF Inv, Typed
  <2> QED BY <2>1, ParallelAssumption DEF Empty, Quit, Sources
<1>2. /\ mailbox[w] = job[w] /\ state[w] = "active" /\ ~wrote[job[w]] /\ Given(w)
  BY <1>1, Zenon DEF Inv, Tasks, Tasked, Alive
<1>3. pc \in Working => pipe[w] = <<>>
  <2>1. phase[w] \in Live
    BY DEF Live
  <2> QED BY <1>2, <2>1, Zenon DEF Inv, Talks, Talk, Answer
<1> QED BY <1>1, <1>2, <1>3, Zenon DEF Given

\* A child ends, when it is told to or because the job cannot be unpickled.
LEMMA TakeEndInv ==
  ASSUME Inv, NEW w \in Children, Take(w), Goes(w, "dead"), UNCHANGED <<own, temp, blamed>>,
         \/ mailbox[w] = Quit /\ UNCHANGED pipe
         \/ mailbox[w] /= Quit /\ Send(w, "failed", FALSE)
  PROVE  Inv'
<1>1. /\ UNCHANGED <<name, pc, at, state, job, nextIndex, outcomes, outcome, loaded, failure,
                     interrupted, unclean, final, temp, own, blamed, wrote>>
      /\ phase[w] = "waiting" /\ mailbox[w] /= Empty /\ mailbox' = [mailbox EXCEPT ![w] = Empty]
      /\ phase' = [phase EXCEPT ![w] = "dead"]
  BY Zenon DEF Take, Goes, input, super, ending, limits
<1>2. /\ phase' \in [Children -> Live \cup {"absent", "leaving", "dead"}] /\ phase'[w] = "dead"
      /\ \A v \in Children \ {w} : phase'[v] = phase[v]
  BY <1>1, Zenon DEF Inv, Typed
<1>3. Empty \in -1..N
  BY ParallelAssumption DEF Empty
<1>4. /\ mailbox' \in [Children -> -1..N] /\ mailbox'[w] = Empty
      /\ \A v \in Children \ {w} : mailbox'[v] = mailbox[v]
  BY <1>1, <1>3, Zenon DEF Inv, Typed
<1>5. /\ pipe' \in [Children -> Seq(Messages)]
      /\ \A v \in Children \ {w} : pipe'[v] = pipe[v]
  BY SendFacts, Zenon DEF Inv, Typed
<1>6. Moves(w)
  <2>1. Alive(w) /\ phase'[w] /= "absent"
    BY <1>1, <1>2, Zenon DEF Alive
  <2>2. UNCHANGED <<own, blamed, wrote, final, temp>>
    BY <1>1, Zenon
  <2>3. /\ own' \in [Children -> 0..N] /\ final' \in [Names -> {"absent", "old", "new"}]
        /\ temp' \in [Names -> {"absent", "stale", "ours"}]
        /\ blamed' \in [Sources -> BOOLEAN] /\ wrote' \in [Sources -> BOOLEAN]
    BY <2>2, Zenon DEF Inv, Typed
  <2> QED BY <1>1, <1>2, <1>4, <1>5, <2>1, <2>2, <2>3, Zenon DEF Moves
<1>7. Tasked(w)'
  BY <1>1, <1>2, Zenon DEF Inv, Tasks, Tasked, Given, Alive
<1>8. CASE mailbox[w] = Quit
  <2>1. pc \notin Working
    <3>1. pc \in Working => mailbox[w] = job[w] /\ state[w] = "active"
      <4>1. state[w] \in States
        BY Zenon DEF Inv, Typed
      <4> QED BY <1>1, <4>1, Zenon DEF Inv, Talks, Talk, States
    <3>2. state[w] = "active" => job[w] \in Sources
      BY Zenon DEF Inv, Tasks, Tasked, Given
    <3>3. Quit \notin Sources
      BY DEF Quit, Sources
    <3> QED BY <1>8, <3>1, <3>2, <3>3, Zenon
  <2> QED BY <1>6, <1>7, <2>1, MovesInv, Zenon
<1>9. CASE mailbox[w] /= Quit /\ Send(w, "failed", FALSE)
  <2> DEFINE m == Message("failed", FALSE)
  <2>1. m \in Messages /\ m.kind = "failed" /\ pipe'[w] = Append(pipe[w], m)
    BY <1>9, SendFacts, Zenon
  <2>2. state[w] = "active" /\ job[w] \in Sources /\ (pc \in Working => pipe[w] = <<>>)
    BY <1>1, <1>9, TakenSource, Zenon
  <2>3. Truthful(m, job[w])'
    BY <2>1, Zenon DEF Truthful, Message
  <2>4. pc \in Working => Talk(w)'
    BY <1>1, <1>2, <1>4, <2>1, <2>2, <2>3, ActiveAnswers, Zenon
  <2> QED BY <1>6, <1>7, <2>4, MovesInv, Zenon
<1> QED BY <1>8, <1>9, Zenon

\* A child reports on its source.
LEMMA ReportInv ==
  ASSUME Inv, NEW w \in Children, Moves(w), NEW ok \in BOOLEAN, Report(w, ok),
         state[w] = "active", Given(w), pc \in Working => pipe[w] = <<>>,
         mailbox'[w] = Empty, wrote' = wrote, final' = final,
         IF ok THEN final[name[job[w]]] /= "absent" ELSE blamed'[job[w]] /\ ~wrote[job[w]]
  PROVE  Inv'
<1> DEFINE m == Message("finished", ok)
<1>1. m \in Messages /\ m.kind = "finished" /\ m.ok = ok /\ pipe'[w] = Append(pipe[w], m)
  BY SendFacts, Zenon DEF Report
<1>2. phase'[w] = "waiting" /\ UNCHANGED <<state, job, name, outcomes, nextIndex>>
  <2>1. UNCHANGED <<state, job, name, outcomes, nextIndex>>
    BY Zenon DEF Moves
  <2>2. phase \in [Children -> Live \cup {"absent", "leaving", "dead"}]
    BY Zenon DEF Inv, Typed
  <2> QED BY <2>1, <2>2, Zenon DEF Report, Goes
<1>3. Truthful(m, job[w])'
  <2>1. m' = m /\ job'[w] = job[w] /\ name'[job[w]] = name[job[w]]
    BY <1>2, Zenon DEF Message
  <2> QED BY <1>1, <2>1, Zenon DEF Truthful
<1>4. pc \in Working => Talk(w)'
  BY <1>1, <1>2, <1>3, ActiveAnswers, Zenon DEF Given
<1>5. Tasked(w)'
  <2>1. mailbox'[w] \notin Sources
    BY DEF Empty, Sources
  <2> QED BY <1>2, <2>1, Zenon DEF Tasked, Given
<1> QED BY <1>4, <1>5, MovesInv, Zenon

\* What Blame writes down.
LEMMA BlameFacts ==
  ASSUME Inv, NEW s \in Sources, NEW failed \in BOOLEAN, Blame(s, failed)
  PROVE  /\ blamed' \in [Sources -> BOOLEAN] /\ (failed => blamed'[s])
         /\ \A t \in Sources : blamed[t] => blamed'[t]
<1>1. blamed \in [Sources -> BOOLEAN]
  BY Zenon DEF Inv, Typed
<1>2. blamed' = [blamed EXCEPT ![s] = blamed[s] \/ failed]
  BY Zenon DEF Blame
<1>3. (blamed[s] \/ failed) \in BOOLEAN
  OBVIOUS
<1> QED BY <1>1, <1>2, <1>3

\* A child moves on, and sends something or not.
LEMMA GoesFacts ==
  ASSUME Inv, NEW w \in Children, NEW place \in Live \cup {"leaving", "dead"}, Goes(w, place)
  PROVE  /\ phase' \in [Children -> Live \cup {"absent", "leaving", "dead"}]
         /\ phase'[w] = place /\ \A v \in Children \ {w} : phase'[v] = phase[v]
<1>1. phase \in [Children -> Live \cup {"absent", "leaving", "dead"}]
  BY Zenon DEF Inv, Typed
<1> QED BY <1>1, Zenon DEF Goes

\* The jobs of a child that takes a source.
LEMMA TakeFacts ==
  ASSUME Inv, NEW w \in Children, Take(w), mailbox[w] /= Quit
  PROVE  /\ UNCHANGED <<name, pc, at, state, job, nextIndex, outcomes, outcome, loaded, failure,
                        interrupted, unclean, final, wrote>>
         /\ final' \in [Names -> {"absent", "old", "new"}] /\ wrote' \in [Sources -> BOOLEAN]
         /\ Alive(w) /\ mailbox' \in [Children -> -1..N] /\ mailbox'[w] = Empty
         /\ \A v \in Children \ {w} : mailbox'[v] = mailbox[v]
         /\ mailbox[w] = job[w] /\ job[w] \in Sources /\ state[w] = "active" /\ ~wrote[job[w]]
         /\ name[job[w]] \in Names /\ Given(w)
         /\ pc \in Working => pipe[w] = <<>>
<1>1. /\ UNCHANGED <<name, pc, at, state, job, nextIndex, outcomes, outcome, loaded, failure,
                     interrupted, unclean, final, wrote>>
      /\ phase[w] = "waiting" /\ mailbox[w] /= Empty /\ mailbox' = [mailbox EXCEPT ![w] = Empty]
  BY Zenon DEF Take, input, super, ending, limits
<1>2. Empty \in -1..N
  BY ParallelAssumption DEF Empty
<1>3. /\ mailbox \in [Children -> -1..N] /\ final \in [Names -> {"absent", "old", "new"}]
      /\ wrote \in [Sources -> BOOLEAN]
  BY Zenon DEF Inv, Typed
<1>4. /\ mailbox' \in [Children -> -1..N] /\ mailbox'[w] = Empty
      /\ \A v \in Children \ {w} : mailbox'[v] = mailbox[v]
  BY <1>1, <1>2, <1>3, Zenon
<1>5. /\ mailbox[w] = job[w] /\ job[w] \in Sources /\ state[w] = "active" /\ ~wrote[job[w]]
      /\ name[job[w]] \in Names /\ Given(w)
      /\ pc \in Working => pipe[w] = <<>>
  BY <1>1, TakenSource, Zenon
<1> QED BY <1>1, <1>3, <1>4, <1>5, Zenon DEF Alive

\* A child answers at once: the cache exists, or its directory cannot be made.
LEMMA TakeAnswerInv ==
  ASSUME Inv, NEW w \in Children, Take(w), mailbox[w] /= Quit, UNCHANGED own,
         NEW ok \in BOOLEAN, Report(w, ok), NEW failed \in BOOLEAN, Blame(mailbox[w], failed),
         IF ok THEN final[name[mailbox[w]]] /= "absent" ELSE failed = TRUE,
         temp' \in {temp, [temp EXCEPT ![name[mailbox[w]]] = "absent"]}
  PROVE  Inv'
<1>1. /\ UNCHANGED <<name, pc, at, state, job, nextIndex, outcomes, outcome, loaded, failure,
                     interrupted, unclean, final, wrote>>
      /\ final' \in [Names -> {"absent", "old", "new"}] /\ wrote' \in [Sources -> BOOLEAN]
      /\ Alive(w) /\ mailbox' \in [Children -> -1..N] /\ mailbox'[w] = Empty
      /\ \A v \in Children \ {w} : mailbox'[v] = mailbox[v]
      /\ mailbox[w] = job[w] /\ job[w] \in Sources /\ state[w] = "active" /\ ~wrote[job[w]]
      /\ name[job[w]] \in Names /\ Given(w)
      /\ pc \in Working => pipe[w] = <<>>
  BY TakeFacts, Zenon
<1>2. /\ temp' \in [Names -> {"absent", "stale", "ours"}]
      /\ \A n \in Names : temp'[n] = temp[n] \/ n = name[job[w]]
  <2>1. temp \in [Names -> {"absent", "stale", "ours"}]
    BY Zenon DEF Inv, Typed
  <2>2. temp' = temp \/ temp' = [temp EXCEPT ![name[job[w]]] = "absent"]
    BY <1>1, Zenon
  <2> QED BY <1>1, <2>1, <2>2, Zenon
<1>3. /\ blamed' \in [Sources -> BOOLEAN] /\ (failed => blamed'[job[w]])
      /\ \A t \in Sources : blamed[t] => blamed'[t]
  BY <1>1, BlameFacts, Zenon
<1>4. /\ phase' \in [Children -> Live \cup {"absent", "leaving", "dead"}] /\ phase'[w] = "waiting"
      /\ \A v \in Children \ {w} : phase'[v] = phase[v]
  <2>1. "waiting" \in Live \cup {"leaving", "dead"}
    BY DEF Live
  <2> QED BY <2>1, GoesFacts, Zenon DEF Report
<1>5. pipe' \in [Children -> Seq(Messages)] /\ \A v \in Children \ {w} : pipe'[v] = pipe[v]
  BY SendFacts, Zenon DEF Report
<1>6. own' \in [Children -> 0..N] /\ own' = own
  BY Zenon DEF Inv, Typed
<1>7. Moves(w)
  BY <1>1, <1>2, <1>3, <1>4, <1>5, <1>6, Zenon DEF Moves
<1>8. IF ok THEN final[name[job[w]]] /= "absent" ELSE blamed'[job[w]] /\ ~wrote[job[w]]
  BY <1>1, <1>3, Zenon
<1> QED BY <1>1, <1>7, <1>8, ReportInv, Zenon

\* A child makes its temporary directory and begins to write.
LEMMA TakeWriteInv ==
  ASSUME Inv, NEW w \in Children, Take(w), mailbox[w] /= Quit,
         own' = [own EXCEPT ![w] = mailbox[w]], temp' = [temp EXCEPT ![name[mailbox[w]]] = "ours"],
         Goes(w, "writing"), UNCHANGED <<pipe, blamed>>
  PROVE  Inv'
<1>1. /\ UNCHANGED <<name, pc, at, state, job, nextIndex, outcomes, outcome, loaded, failure,
                     interrupted, unclean, final, wrote>>
      /\ final' \in [Names -> {"absent", "old", "new"}] /\ wrote' \in [Sources -> BOOLEAN]
      /\ Alive(w) /\ mailbox' \in [Children -> -1..N] /\ mailbox'[w] = Empty
      /\ \A v \in Children \ {w} : mailbox'[v] = mailbox[v]
      /\ mailbox[w] = job[w] /\ job[w] \in Sources /\ state[w] = "active" /\ ~wrote[job[w]]
      /\ name[job[w]] \in Names /\ Given(w)
      /\ pc \in Working => pipe[w] = <<>>
  BY TakeFacts, Zenon
<1>2. /\ temp \in [Names -> {"absent", "stale", "ours"}] /\ own \in [Children -> 0..N]
      /\ blamed' \in [Sources -> BOOLEAN] /\ pipe' \in [Children -> Seq(Messages)]
      /\ job[w] \in 0..N
  BY Zenon DEF Inv, Typed
<1>3. /\ temp' \in [Names -> {"absent", "stale", "ours"}] /\ temp'[name[job[w]]] = "ours"
      /\ \A n \in Names : temp'[n] = temp[n] \/ n = name[job[w]]
  BY <1>1, <1>2, Zenon
<1>4. /\ own' \in [Children -> 0..N] /\ own'[w] = job[w]
      /\ \A v \in Children \ {w} : own'[v] = own[v]
  BY <1>1, <1>2, Zenon
<1>5. /\ phase' \in [Children -> Live \cup {"absent", "leaving", "dead"}] /\ phase'[w] = "writing"
      /\ \A v \in Children \ {w} : phase'[v] = phase[v]
  <2>1. "writing" \in Live \cup {"leaving", "dead"}
    BY DEF Live
  <2> QED BY <2>1, GoesFacts, Zenon
<1>6. Moves(w)
  BY <1>1, <1>2, <1>3, <1>4, <1>5, Zenon DEF Moves
<1>7. job[w] /= Empty /\ Empty \notin Sources
  <2>1. job[w] \in Sources
    BY <1>1, Zenon
  <2> QED BY <2>1 DEF Empty, Sources
<1>8. Tasked(w)'
  BY <1>1, <1>3, <1>4, <1>5, <1>7, Zenon DEF Tasked, Given, Empty
<1>9. pc \in Working => Talk(w)'
  BY <1>1, <1>5, <1>7, Zenon DEF Talk, Answer, Empty
<1> QED BY <1>6, <1>8, <1>9, MovesInv, Zenon

\* A child takes its next job.
LEMMA TakeInv == ASSUME Inv, NEW w \in Children, Take(w) PROVE Inv'
<1> DEFINE s == mailbox[w]
           n == name[s]
<1>1. CASE s = Quit /\ Goes(w, "dead") /\ UNCHANGED <<own, pipe, temp, blamed>>
  BY <1>1, TakeEndInv, Zenon
<1>2. CASE /\ s /= Quit /\ Goes(w, "dead") /\ Send(w, "failed", FALSE)
           /\ UNCHANGED <<own, temp, blamed>>
  BY <1>2, TakeEndInv, Zenon
<1>3. CASE /\ s /= Quit /\ final[n] /= "absent"
           /\ \E ok \in IF reuse THEN BOOLEAN ELSE {FALSE} : Report(w, ok) /\ Blame(s, ~ok)
           /\ UNCHANGED <<own, temp>>
  <2>1. PICK ok \in BOOLEAN : Report(w, ok) /\ Blame(s, ~ok)
    BY <1>3, Zenon
  <2>2. (~ok) \in BOOLEAN /\ (IF ok THEN final[n] /= "absent" ELSE (~ok) = TRUE)
    BY <1>3
  <2> QED BY <1>3, <2>1, <2>2, TakeAnswerInv, Zenon
<1>4. CASE /\ s /= Quit /\ final[n] = "absent" /\ Report(w, FALSE) /\ Blame(s, TRUE)
           /\ temp' = [temp EXCEPT ![n] = "absent"] /\ UNCHANGED own
  BY <1>4, TakeAnswerInv, Zenon
<1>5. CASE /\ s /= Quit /\ final[n] = "absent" /\ own' = [own EXCEPT ![w] = s]
           /\ temp' = [temp EXCEPT ![n] = "ours"] /\ Goes(w, "writing")
           /\ UNCHANGED <<pipe, blamed>>
  BY <1>5, TakeWriteInv, Zenon
<1> QED BY <1>1, <1>2, <1>3, <1>4, <1>5, Zenon DEF Take

\* What a child that is writing, or has published, knows.
LEMMA AtWork ==
  ASSUME Inv, NEW w \in Children, phase[w] \in {"writing", "published"}
  PROVE  /\ state[w] = "active" /\ Given(w) /\ own[w] = job[w] /\ mailbox[w] = Empty /\ Alive(w)
         /\ job[w] \in Sources /\ name[job[w]] \in Names
         /\ phase[w] = "writing" => ~wrote[job[w]] /\ temp[name[job[w]]] = "ours"
         /\ phase[w] = "published" => final[name[job[w]]] /= "absent"
         /\ pc \in Working => pipe[w] = <<>>
<1>1. Tasked(w) /\ (pc \in Working => Talk(w))
  BY Zenon DEF Inv, Tasks, Talks
<1>2. state[w] = "active" /\ Given(w) /\ own[w] = job[w] /\ mailbox[w] = Empty
  BY <1>1, Zenon DEF Tasked
<1>3. pc \in Working => pipe[w] = <<>>
  BY <1>1, <1>2, Zenon DEF Talk
<1> QED BY <1>1, <1>2, <1>3, Zenon DEF Tasked, Given, Alive

\* The types of what the children change.
LEMMA ChildTypes ==
  ASSUME Inv
  PROVE  /\ final \in [Names -> {"absent", "old", "new"}]
         /\ temp \in [Names -> {"absent", "stale", "ours"}]
         /\ own \in [Children -> 0..N] /\ mailbox \in [Children -> -1..N]
         /\ pipe \in [Children -> Seq(Messages)]
         /\ blamed \in [Sources -> BOOLEAN] /\ wrote \in [Sources -> BOOLEAN]
         /\ 0 \in 0..N
<1>1. 0 \in 0..N
  BY ParallelAssumption
<1> QED BY <1>1, Zenon DEF Inv, Typed

\* A write ends, with a failure or after the cache was published.
LEMMA WriteEndInv ==
  ASSUME Inv, NEW w \in Children, WriteFails(w) \/ ReportPublished(w)
  PROVE  Inv'
<1>1. /\ UNCHANGED <<name, pc, at, state, job, nextIndex, outcomes, outcome, loaded, failure,
                     interrupted, unclean, final, mailbox, wrote>>
      /\ own' = [own EXCEPT ![w] = 0]
      /\ \/ /\ phase[w] = "writing" /\ Report(w, FALSE) /\ Blame(own[w], TRUE)
            /\ temp' \in {temp, [temp EXCEPT ![name[own[w]]] = "absent"]}
         \/ phase[w] = "published" /\ Report(w, TRUE) /\ UNCHANGED <<temp, blamed>>
  BY Zenon DEF WriteFails, ReportPublished, input, super, ending, notes, limits
<1>2. /\ state[w] = "active" /\ Given(w) /\ own[w] = job[w] /\ mailbox[w] = Empty /\ Alive(w)
      /\ job[w] \in Sources /\ name[job[w]] \in Names
      /\ phase[w] = "writing" => ~wrote[job[w]]
      /\ phase[w] = "published" => final[name[job[w]]] /= "absent"
      /\ pc \in Working => pipe[w] = <<>>
  BY <1>1, AtWork, Zenon
<1>3. PICK ok \in BOOLEAN : /\ Report(w, ok) /\ (ok => phase[w] = "published" /\ UNCHANGED blamed)
                            /\ ~ok => phase[w] = "writing" /\ Blame(own[w], TRUE)
  BY <1>1, Zenon
<1>4. temp' = temp \/ temp' = [temp EXCEPT ![name[job[w]]] = "absent"]
  BY <1>1, <1>2, Zenon
<1>5. /\ temp' \in [Names -> {"absent", "stale", "ours"}]
      /\ \A n \in Names : temp'[n] = temp[n] \/ n = name[job[w]]
  BY <1>2, <1>4, ChildTypes, Zenon
<1>6. own' \in [Children -> 0..N] /\ \A v \in Children \ {w} : own'[v] = own[v]
  BY <1>1, ChildTypes, Zenon
<1>7. /\ blamed' \in [Sources -> BOOLEAN] /\ (~ok => blamed'[job[w]])
      /\ \A t \in Sources : blamed[t] => blamed'[t]
  <2>1. CASE ok
    <3>1. blamed' = blamed
      BY <1>3, <2>1, Zenon
    <3> QED BY <2>1, <3>1, ChildTypes
  <2>2. CASE ~ok
    BY <1>2, <1>3, <2>2, BlameFacts, Zenon
  <2> QED BY <2>1, <2>2, Zenon
<1>8. /\ phase' \in [Children -> Live \cup {"absent", "leaving", "dead"}] /\ phase'[w] = "waiting"
      /\ \A v \in Children \ {w} : phase'[v] = phase[v]
  <2>1. "waiting" \in Live \cup {"leaving", "dead"}
    BY DEF Live
  <2> QED BY <1>3, <2>1, GoesFacts, Zenon DEF Report
<1>9. pipe' \in [Children -> Seq(Messages)] /\ \A v \in Children \ {w} : pipe'[v] = pipe[v]
  BY <1>3, SendFacts, Zenon DEF Report
<1>10. /\ final' \in [Names -> {"absent", "old", "new"}] /\ wrote' \in [Sources -> BOOLEAN]
       /\ mailbox' \in [Children -> -1..N]
  BY <1>1, ChildTypes, Zenon
<1>11. Moves(w)
  BY <1>1, <1>2, <1>5, <1>6, <1>7, <1>8, <1>9, <1>10, Zenon DEF Moves
<1>12. IF ok THEN final[name[job[w]]] /= "absent" ELSE blamed'[job[w]] /\ ~wrote[job[w]]
  BY <1>2, <1>3, <1>7, Zenon
<1>13. mailbox'[w] = Empty /\ wrote' = wrote /\ final' = final
  BY <1>1, <1>2, Zenon
<1> QED BY <1>2, <1>3, <1>11, <1>12, <1>13, ReportInv, Zenon

\* A cache is published.
LEMMA PublishInv == ASSUME Inv, NEW w \in Children, Publish(w) PROVE Inv'
<1>1. /\ UNCHANGED <<name, pc, at, state, job, nextIndex, outcomes, outcome, loaded, failure,
                     interrupted, unclean, own, mailbox, pipe, blamed>>
      /\ phase[w] = "writing" /\ Goes(w, "published")
      /\ final' = [final EXCEPT ![name[own[w]]] = "new"]
      /\ temp' = [temp EXCEPT ![name[own[w]]] = "absent"]
      /\ wrote' = [wrote EXCEPT ![own[w]] = TRUE]
  BY Zenon DEF Publish, input, super, ending, limits
<1>2. /\ state[w] = "active" /\ Given(w) /\ own[w] = job[w] /\ mailbox[w] = Empty /\ Alive(w)
      /\ job[w] \in Sources /\ name[job[w]] \in Names
      /\ pc \in Working => pipe[w] = <<>>
  BY <1>1, AtWork, Zenon
<1>3. /\ final' \in [Names -> {"absent", "old", "new"}] /\ final'[name[job[w]]] = "new"
      /\ temp' \in [Names -> {"absent", "stale", "ours"}]
      /\ \A n \in Names : n = name[job[w]] \/ (temp'[n] = temp[n] /\ final'[n] = final[n])
  BY <1>1, <1>2, ChildTypes, Zenon
<1>4. /\ wrote' \in [Sources -> BOOLEAN]
      /\ \A s \in Sources : s = job[w] \/ wrote'[s] = wrote[s]
  BY <1>1, <1>2, ChildTypes, Zenon
<1>5. /\ phase' \in [Children -> Live \cup {"absent", "leaving", "dead"}]
      /\ phase'[w] = "published" /\ \A v \in Children \ {w} : phase'[v] = phase[v]
  <2>1. "published" \in Live \cup {"leaving", "dead"}
    BY DEF Live
  <2> QED BY <1>1, <2>1, GoesFacts, Zenon
<1>6. /\ own' \in [Children -> 0..N] /\ mailbox' \in [Children -> -1..N]
      /\ pipe' \in [Children -> Seq(Messages)] /\ blamed' \in [Sources -> BOOLEAN]
  BY <1>1, ChildTypes, Zenon
<1>7. /\ \A n \in Names : /\ temp'[n] = temp[n] \/ n = name[job[w]]
                          /\ final[n] /= "absent" => final'[n] /= "absent"
      /\ \A s \in Sources : /\ wrote'[s] => wrote[s] \/ s = job[w]
                            /\ blamed[s] => blamed'[s]
  <2>1. \A s \in Sources : wrote'[s] => wrote[s] \/ s = job[w]
    BY <1>4
  <2>2. \A n \in Names : /\ temp'[n] = temp[n] \/ n = name[job[w]]
                         /\ final[n] /= "absent" => final'[n] /= "absent"
    BY <1>2, <1>3
  <2>3. \A s \in Sources : blamed[s] => blamed'[s]
    BY <1>1
  <2> QED BY <2>1, <2>2, <2>3, Zenon
<1>8. Moves(w)
  BY <1>1, <1>2, <1>3, <1>4, <1>5, <1>6, <1>7, Zenon DEF Moves
<1>9. job[w] /= Empty /\ Empty \notin Sources /\ mailbox'[w] = Empty
  <2>1. job[w] \in Sources /\ mailbox'[w] = Empty
    BY <1>1, <1>2, Zenon
  <2> QED BY <2>1 DEF Empty, Sources
<1>10. Tasked(w)'
  BY <1>1, <1>2, <1>3, <1>5, <1>9, Zenon DEF Tasked, Given, Empty
<1>11. pc \in Working => Talk(w)'
  BY <1>1, <1>2, <1>5, <1>9, Zenon DEF Talk, Answer, Empty
<1> QED BY <1>8, <1>10, <1>11, MovesInv, Zenon

\* A child that is leaving or gone has no task.
LEMMA LeavingTasked ==
  ASSUME Inv, NEW w \in Children, Alive(w), phase'[w] \in {"leaving", "dead"}, own'[w] = 0,
         UNCHANGED <<name, state, job, nextIndex, outcomes, mailbox, wrote>>
  PROVE  Tasked(w)'
<1>1. Tasked(w)
  BY Zenon DEF Inv, Tasks
<1>2. Given(w) => Given(w)'
  BY Zenon DEF Given
<1> QED BY <1>1, <1>2, Zenon DEF Tasked, Empty

\* An interrupt is raised in a child.
LEMMA ChildInterruptInv == ASSUME Inv, NEW w \in Children, ChildInterrupt(w) PROVE Inv'
<1>1. /\ UNCHANGED <<name, pc, at, state, job, nextIndex, outcomes, outcome, loaded, failure,
                     interrupted, unclean, final, mailbox, blamed, wrote>>
      /\ phase[w] \in Live /\ own' = [own EXCEPT ![w] = 0]
      /\ Goes(w, "leaving") /\ Send(w, "interrupted", FALSE)
      /\ \/ temp' = temp
         \/ phase[w] = "writing" /\ temp' = [temp EXCEPT ![name[own[w]]] = "absent"]
  BY Zenon DEF ChildInterrupt, input, super, ending, Live
<1>2. /\ temp' \in [Names -> {"absent", "stale", "ours"}]
      /\ \A n \in Names : temp'[n] = temp[n] \/ (state[w] = "active" /\ n = name[job[w]])
  <2>1. CASE temp' = temp
    BY <2>1, ChildTypes, Zenon
  <2>2. CASE phase[w] = "writing" /\ temp' = [temp EXCEPT ![name[own[w]]] = "absent"]
    <3>1. state[w] = "active" /\ own[w] = job[w] /\ name[job[w]] \in Names
      BY <2>2, AtWork, Zenon
    <3> QED BY <2>2, <3>1, ChildTypes, Zenon
  <2> QED BY <1>1, <2>1, <2>2, Zenon
<1>3. own' \in [Children -> 0..N] /\ own'[w] = 0 /\ \A v \in Children \ {w} : own'[v] = own[v]
  BY <1>1, ChildTypes, Zenon
<1>4. /\ phase' \in [Children -> Live \cup {"absent", "leaving", "dead"}] /\ phase'[w] = "leaving"
      /\ \A v \in Children \ {w} : phase'[v] = phase[v]
  <2>1. "leaving" \in Live \cup {"leaving", "dead"}
    OBVIOUS
  <2> QED BY <1>1, <2>1, GoesFacts, Zenon
<1> DEFINE m == Message("interrupted", FALSE)
<1>5. /\ pipe' \in [Children -> Seq(Messages)] /\ pipe[w] \in Seq(Messages) /\ m \in Messages
      /\ m.kind = "interrupted" /\ pipe'[w] = Append(pipe[w], m)
      /\ \A v \in Children \ {w} : pipe'[v] = pipe[v]
  BY <1>1, SendFacts, Zenon
<1> HIDE DEF m
<1>6. /\ final' \in [Names -> {"absent", "old", "new"}] /\ wrote' \in [Sources -> BOOLEAN]
      /\ mailbox' \in [Children -> -1..N] /\ blamed' \in [Sources -> BOOLEAN]
  BY <1>1, ChildTypes, Zenon
<1>7. Alive(w)
  BY <1>1 DEF Alive, Live
<1>8. Moves(w)
  BY <1>1, <1>2, <1>3, <1>4, <1>5, <1>6, <1>7, Zenon DEF Moves
<1>9. Tasked(w)'
  BY <1>1, <1>3, <1>4, <1>7, LeavingTasked, Zenon
<1>10. pc \in Working => Talk(w)'
  <2> SUFFICES ASSUME pc \in Working PROVE Talk(w)'
    OBVIOUS
  <2>1. Talk(w)
    BY Zenon DEF Inv, Talks
  <2>2. state[w] /= "absent"
    BY <1>7, Zenon DEF Inv, Roster, Alive
  <2>3. "leaving" \notin Live
    BY DEF Live
  <2>4. \A kinds : Answer(pipe[w], kinds, TRUE) => Answer(Append(pipe[w], m), kinds, FALSE)
    BY <1>5, AnswerInterrupted, Zenon
  <2>5. (phase[w] \in Live) = TRUE
    BY <1>1
  <2>6. /\ state[w] \in {"unregistered", "starting"} =>
             mailbox[w] = Empty /\ Answer(pipe[w], {"ready"}, TRUE)
        /\ state[w] = "idle" => mailbox[w] = Empty /\ Answer(pipe[w], {}, TRUE)
        /\ state[w] = "active" =>
             /\ mailbox[w] \in {Empty, job[w]}
             /\ mailbox[w] = job[w] => Answer(pipe[w], {}, TRUE)
             /\ Answer(pipe[w], {"finished", "failed"}, TRUE)
             /\ pipe[w] /= <<>> => Truthful(Head(pipe[w]), job[w])
    BY <2>1, <2>5, Zenon DEF Talk
  <2>7. state[w] = "active" => Truthful(Head(pipe[w]), job[w])'
    <3>1. CASE pipe[w] = <<>>
      <4>1. Head(pipe'[w]) = m
        <5>1. pipe[w] \in Seq(Messages) /\ m \in Messages /\ pipe'[w] = Append(pipe[w], m)
          BY <1>5, Zenon
        <5>2. Head(Append(pipe[w], m)) = m
          BY <3>1, <5>1, Sent, SMT
        <5> QED BY <5>1, <5>2, Zenon
      <4> QED BY <1>5, <4>1, Zenon DEF Truthful
    <3>2. CASE pipe[w] /= <<>>
      <4>1. Head(pipe'[w]) = Head(pipe[w])
        BY <1>5, <3>2, Sent, Zenon
      <4>2. UNCHANGED <<job, name, final, blamed, wrote>>
        BY <1>1, Zenon
      <4>3. state[w] = "active" => Truthful(Head(pipe[w]), job[w])
        BY <2>6, <3>2, Zenon
      <4> QED BY <4>1, <4>2, <4>3, Zenon DEF Truthful
    <3> QED BY <3>1, <3>2, Zenon
  <2>8. (phase[w] \in Live)' = FALSE
    BY <1>4, <2>3
  <2>9. /\ state'[w] = state[w] /\ mailbox'[w] = mailbox[w] /\ job'[w] = job[w]
        /\ phase'[w] = "leaving" /\ pipe'[w] = Append(pipe[w], m)
    BY <1>1, <1>4, <1>5, Zenon
  <2> QED BY <2>2, <2>4, <2>6, <2>7, <2>8, <2>9, Zenon DEF Talk, Empty
<1> QED BY <1>8, <1>9, <1>10, MovesInv, Zenon

\* A child is gone.
LEMMA ExitInv == ASSUME Inv, NEW w \in Children, Exit(w) PROVE Inv'
<1>1. /\ UNCHANGED <<name, pc, at, state, job, nextIndex, outcomes, outcome, loaded, failure,
                     interrupted, unclean, final, temp, mailbox, pipe, blamed, wrote>>
      /\ Alive(w) /\ Goes(w, "dead") /\ own' = [own EXCEPT ![w] = 0]
  BY Zenon DEF Exit, input, super, ending, notes
<1>2. own' \in [Children -> 0..N] /\ own'[w] = 0 /\ \A v \in Children \ {w} : own'[v] = own[v]
  BY <1>1, ChildTypes, Zenon
<1>3. /\ phase' \in [Children -> Live \cup {"absent", "leaving", "dead"}] /\ phase'[w] = "dead"
      /\ \A v \in Children \ {w} : phase'[v] = phase[v]
  <2>1. "dead" \in Live \cup {"leaving", "dead"}
    OBVIOUS
  <2> QED BY <1>1, <2>1, GoesFacts, Zenon
<1>4. /\ final' \in [Names -> {"absent", "old", "new"}] /\ wrote' \in [Sources -> BOOLEAN]
      /\ temp' \in [Names -> {"absent", "stale", "ours"}] /\ pipe' \in [Children -> Seq(Messages)]
      /\ mailbox' \in [Children -> -1..N] /\ blamed' \in [Sources -> BOOLEAN]
  BY <1>1, ChildTypes, Zenon
<1>5. Moves(w)
  BY <1>1, <1>2, <1>3, <1>4, Zenon DEF Moves
<1>6. Tasked(w)'
  BY <1>1, <1>2, <1>3, LeavingTasked, Zenon
<1>7. pc \in Working => Talk(w)'
  <2> SUFFICES ASSUME pc \in Working PROVE Talk(w)'
    OBVIOUS
  <2>1. Talk(w)
    BY Zenon DEF Inv, Talks
  <2>2. "dead" \notin Live /\ (phase[w] \in Live) \in BOOLEAN
    BY DEF Live
  <2>3. \A kinds : Answer(pipe[w], kinds, phase[w] \in Live) => Answer(pipe[w], kinds, FALSE)
    BY <2>2, AnswerLeft, Zenon
  <2>4. /\ state[w] = "absent" => mailbox[w] = Empty /\ pipe[w] = <<>>
        /\ state[w] \in {"unregistered", "starting"} =>
             mailbox[w] = Empty /\ Answer(pipe[w], {"ready"}, FALSE)
        /\ state[w] = "idle" => mailbox[w] = Empty /\ Answer(pipe[w], {}, FALSE)
        /\ state[w] = "active" =>
             /\ mailbox[w] \in {Empty, job[w]}
             /\ mailbox[w] = job[w] => Answer(pipe[w], {}, FALSE)
             /\ Answer(pipe[w], {"finished", "failed"}, FALSE)
             /\ pipe[w] /= <<>> => Truthful(Head(pipe[w]), job[w])
    BY <2>1, <2>3, Zenon DEF Talk
  <2>5. Truthful(Head(pipe[w]), job[w]) => Truthful(Head(pipe[w]), job[w])'
    BY <1>1, Zenon DEF Truthful
  <2>6. (phase[w] \in Live)' = FALSE
    BY <1>3, <2>2
  <2>7. /\ state'[w] = state[w] /\ mailbox'[w] = mailbox[w] /\ job'[w] = job[w]
        /\ phase'[w] = "dead" /\ pipe'[w] = pipe[w]
    BY <1>1, <1>3, Zenon
  <2> QED BY <2>4, <2>5, <2>6, <2>7, Zenon DEF Talk, Empty
<1> QED BY <1>5, <1>6, <1>7, MovesInv, Zenon

-----------------------------------------------------------------------------
(* Every behaviour *)

\* It holds when the call begins.
LEMMA InitInv == Init => Inv
<1> SUFFICES ASSUME Init PROVE Inv
  OBVIOUS
<1>1. PICK i \in Inputs : name = i.name /\ reuse = i.reuse /\ final = i.final /\ temp = i.temp
  BY Zenon DEF Init
<1>2. i \in [name : [Sources -> Names \cup {BadName}], reuse : BOOLEAN,
             final : [Names -> {"absent", "old"}], temp : [Names -> {"absent", "stale"}]]
  BY ParallelAssumption, Zenon
<1>3. /\ name \in [Sources -> Names \cup {BadName}] /\ final \in [Names -> {"absent", "old"}]
      /\ temp \in [Names -> {"absent", "stale"}]
  BY <1>1, <1>2
<1>4. Typed
  <2>1. final \in [Names -> {"absent", "old", "new"}]
    BY <1>3
  <2>2. temp \in [Names -> {"absent", "stale", "ours"}]
    BY <1>3
  <2>3. 0 \in 0..N /\ Empty \in -1..N /\ 1 \in 1..(N + 1) /\ <<>> \in Seq(Messages)
    BY ParallelAssumption DEF Empty
  <2> QED BY <1>3, <2>1, <2>2, <2>3, ChildFacts, Zenon DEF Init, Typed, States
<1>5. \A w \in Children : /\ state[w] = "absent" /\ phase[w] = "absent" /\ mailbox[w] = Empty
                          /\ pipe[w] = <<>> /\ ~Alive(w) /\ own[w] = 0
  BY Zenon DEF Init, Alive
<1>6. pc = "preflight" /\ pc \notin Ending /\ pc \notin Working
  BY DEF Init, Ending, Working
<1>7. Roster
  BY <1>5, <1>6, Zenon DEF Init, Roster
<1>8. Tasks
  <2>1. Empty \notin Sources
    BY DEF Empty, Sources
  <2> QED BY <1>5, <2>1, Zenon DEF Tasks, Tasked
<1>9. Apart
  BY <1>5, Zenon DEF Apart
<1>10. Talks
  BY <1>5, Zenon DEF Talks, Talk
<1>11. Ledger
  <2>1. outcome \notin Kept /\ outcome /= "dataset" /\ outcome /= "no dataset"
    BY DEF Init, Kept
  <2>2. \A s \in Sources : outcomes[s] = "none" /\ ~wrote[s]
    BY Zenon DEF Init
  <2>3. nextIndex = 1
    BY Zenon DEF Init
  <2> QED BY <1>6, <2>1, <2>2, <2>3, Zenon DEF Ledger
<1>12. Tidy
  <2>1. unclean = {}
    BY Zenon DEF Init
  <2> QED BY <1>3, <1>6, <2>1, Zenon DEF Tidy
<1> QED BY <1>4, <1>7, <1>8, <1>9, <1>10, <1>11, <1>12, Zenon DEF Inv

\* Every step keeps it.
LEMMA NextInv == Inv /\ [Next]_vars => Inv'
<1> SUFFICES ASSUME Inv, [Next]_vars PROVE Inv'
  OBVIOUS
<1>1. CASE Supervise
  BY <1>1, PreflightInv, StartInv, RegisterInv, PollMessageInv, PollInv, DispatchInv,
     DispatchedInv, StopInv, SignalInv, ReapInv, LoadInv, Zenon DEF Supervise
<1>2. CASE Interrupt
  BY <1>2, InterruptInv, Zenon
<1>3. CASE Ended \/ UNCHANGED vars
  <2>1. UNCHANGED vars
    BY <1>3, Zenon DEF Ended
  <2>2. UNCHANGED <<still, pipe>>
        /\ UNCHANGED <<pc, at, failure, interrupted, unclean, outcome, loaded>>
    BY <2>1, Zenon DEF vars, still, input, super, ending, procs, notes, limits
  <2> QED BY <2>2, Unmoved, Zenon
<1>4. ASSUME NEW w \in Children, ChildStep(w) \/ ChildInterrupt(w) \/ Exit(w) \/ Expire(w)
      PROVE  Inv'
  BY <1>4, BootInv, TakeInv, WriteEndInv, PublishInv, ChildInterruptInv, ExitInv, ExpireInv, Zenon
     DEF ChildStep
<1> QED BY <1>1, <1>2, <1>3, <1>4, Zenon DEF Next

\* So it always holds.
LEMMA AlwaysInv == Spec => []Inv
BY InitInv, NextInv, PTL DEF Spec

\* However the call ends, no child is left running and nothing of a child's is
\* left in the temporary directory, except for a child whose own shutdown or
\* cleanup failed or was cut short, and for at most one that an interrupt caught
\* before it was in the list: that one has no source and writes nothing.
THEOREM PoolLeavesNothing == Spec => []NothingLeft
<1>1. ASSUME Inv, pc = "done" PROVE NothingLeft
  <2>1. pc /= "register" /\ \A w \in Children : Gone(w)
    BY <1>1, Zenon DEF Inv, Tidy
  <2>2. ASSUME NEW w \in Children, Alive(w), w \notin unclean
        PROVE  Orphan(w) /\ interrupted /\ own[w] = 0 /\ mailbox[w] = Empty
    <3>1. state[w] = "unregistered"
      BY <2>1, <2>2, Zenon DEF Gone
    <3>2. interrupted
      BY <1>1, <2>1, <3>1, Zenon DEF Inv, Roster
    <3>3. own[w] = 0 /\ mailbox[w] = Empty
      BY <1>1, <3>1, Zenon DEF Inv, Tasks, Tasked
    <3> QED BY <2>1, <3>1, <3>2, <3>3, Zenon DEF Orphan
  <2>3. ASSUME NEW v \in Children, NEW w \in Children, Orphan(v), Orphan(w) PROVE v = w
    <3>1. v < w \/ w < v \/ v = w
      BY ChildFacts
    <3> QED BY <1>1, <2>3, <3>1, Zenon DEF Orphan, Inv, Roster, Registered
  <2>4. ASSUME NEW n \in Names, temp[n] = "ours"
        PROVE  \E w \in unclean : job[w] \in Sources /\ name[job[w]] = n
    <3>1. PICK w \in Children : Owner(w, n)
      BY <1>1, <2>4, Zenon DEF Inv, Tidy
    <3>2. w \in unclean
      BY <2>1, <3>1, Zenon DEF Owner, Gone
    <3> QED BY <3>1, <3>2, Zenon DEF Owner
  <2> QED BY <2>2, <2>3, <2>4, Zenon DEF NothingLeft
<1>2. Inv => NothingLeft
  BY <1>1, Zenon DEF NothingLeft
<1> QED BY <1>2, AlwaysInv, PTL

\* Supervisor and children agree on who works on what: a job is put only into an
\* empty mailbox, no outcome is awaited in vain or comes twice, no source has two
\* writers, and no directory is removed under its writer.
THEOREM PoolAgrees == Spec => []Agreement
<1>1. ASSUME Inv, NEW w \in Children, state[w] = "idle", ~Stopping, pc /= "done"
      PROVE  mailbox[w] = Empty /\ \A k \in DOMAIN pipe[w] : pipe[w][k].kind = "interrupted"
  <2>1. pc \in {"preflight"} \cup Working
    BY <1>1 DEF Inv, Typed, Stopping, Ending
  <2>2. mailbox[w] = Empty /\ Answer(pipe[w], {}, phase[w] \in Live)
    BY <1>1, <2>1, Zenon DEF Inv, Talks, Talk
  <2>3. pipe[w] \in Seq(Messages)
    BY <1>1, Zenon DEF Inv, Typed
  <2>4. CASE pipe[w] = <<>>
    <3>1. DOMAIN <<>> = {}
      OBVIOUS
    <3> QED BY <2>2, <2>4, <3>1, Zenon
  <2>5. CASE pipe[w] /= <<>>
    <3> DEFINE q == pipe[w]
    <3>1. Head(q).kind = "interrupted" /\ Quiet(Tail(q))
      BY <2>2, <2>5, Zenon DEF Answer
    <3>2. q \in Seq(Messages) /\ q /= <<>>
      BY <2>3, <2>5, Zenon
    <3> HIDE DEF q
    <3>3. /\ Head(q) = q[1] /\ DOMAIN q = 1..Len(q) /\ DOMAIN Tail(q) = 1..(Len(q) - 1)
          /\ Len(q) \in Nat /\ \A k \in 1..(Len(q) - 1) : Tail(q)[k] = q[k + 1]
      BY <3>2
    <3>4. \A k \in 1..(Len(q) - 1) : q[k + 1].kind = "interrupted"
      BY <3>1, <3>3, Zenon DEF Quiet
    <3>5. \A k \in DOMAIN q : k = 1 \/ (k - 1 \in 1..(Len(q) - 1) /\ (k - 1) + 1 = k)
      BY <3>3
    <3>6. \A k \in DOMAIN q : q[k].kind = "interrupted"
      BY <3>1, <3>3, <3>4, <3>5, Zenon
    <3> QED BY <2>2, <3>6, Zenon DEF q
  <2> QED BY <2>4, <2>5, Zenon
<1>2. Inv => Agreement
  <2> SUFFICES ASSUME Inv, NEW w \in Children
               PROVE  /\ phase[w] = "writing" => temp[name[own[w]]] = "ours"
                      /\ state[w] = "active" => \A v \in Children \ {w} :
                           Alive(v) /\ phase[v] \in {"writing", "published"} => own[v] /= job[w]
    BY <1>1, Zenon DEF Agreement
  <2>1. phase[w] = "writing" => temp[name[own[w]]] = "ours"
    BY Zenon DEF Inv, Tasks, Tasked
  <2>2. ASSUME NEW v \in Children \ {w}, state[w] = "active", phase[v] \in {"writing", "published"}
        PROVE  own[v] /= job[w]
    <3>1. state[v] = "active" /\ own[v] = job[v]
      BY <2>2, AtWork, Zenon
    <3> QED BY <2>2, <3>1, NamesApart, Zenon
  <2> QED BY <2>1, <2>2, Zenon
<1> QED BY <1>2, AlwaysInv, PTL

-----------------------------------------------------------------------------
(* The sources with an outcome, in order *)

\* A set of numbers has a least one.
LEMMA LeastNumber ==
  ASSUME NEW T \in SUBSET Nat, T /= {}
  PROVE  \E x \in T : \A y \in T : x <= y
<1>1. PICK x \in T : \A y \in T : ~(<<y, x>> \in OpToRel(<, Nat))
  BY WFMin, NatLessThanWellFounded, Zenon
<1>2. \A y \in T : ~(y < x)
  BY <1>1, Zenon DEF OpToRel
<1> QED BY <1>2

\* Induction on the numbers, over a set.
LEMMA Induction ==
  ASSUME NEW T, 0 \in T, \A n \in Nat : n \in T => n + 1 \in T
  PROVE  Nat \subseteq T
<1> SUFFICES ASSUME Nat \ T /= {} PROVE FALSE
  BY Zenon
<1>1. PICK x \in Nat \ T : \A y \in Nat \ T : x <= y
  BY LeastNumber
<1>2. x /= 0 /\ x - 1 \in Nat
  BY <1>1
<1>3. x - 1 \in T
  BY <1>1, <1>2
<1> QED BY <1>2, <1>3

\* The recursion of WithOutcome, up to source n.
Lists(f, n, kinds) ==
  f = [s \in 0..n |-> IF s = 0 THEN <<>>
                      ELSE IF outcomes[s] \in kinds THEN Append(f[s - 1], s) ELSE f[s - 1]]

\* There is such a function.
LEMMA ListsExist ==
  ASSUME NEW kinds
  PROVE  \E f : Lists(f, N, kinds)
<1> DEFINE T == {n \in Nat : \E f : Lists(f, n, kinds)}
<1>1. 0 \in T
  <2> DEFINE f == [s \in 0..0 |-> <<>>]
  <2>1. Lists(f, 0, kinds)
    BY DEF Lists
  <2> QED BY <2>1
<1>2. ASSUME NEW n \in Nat, n \in T PROVE n + 1 \in T
  <2>1. PICK f : Lists(f, n, kinds)
    BY <1>2
  <2> DEFINE last == IF outcomes[n + 1] \in kinds THEN Append(f[n], n + 1) ELSE f[n]
             g == [s \in 0..(n + 1) |-> IF s = n + 1 THEN last ELSE f[s]]
  <2>2. \A s \in 0..n : f[s] = IF s = 0 THEN <<>>
                              ELSE IF outcomes[s] \in kinds THEN Append(f[s - 1], s) ELSE f[s - 1]
    BY <2>1, Zenon DEF Lists
  <2>3. \A s \in 0..n : g[s] = f[s]
    OBVIOUS
  <2>4. \A s \in 0..(n + 1) : s = n + 1 \/ s \in 0..n
    OBVIOUS
  <2>5. ASSUME NEW s \in 0..(n + 1)
        PROVE  g[s] = IF s = 0 THEN <<>>
                      ELSE IF outcomes[s] \in kinds THEN Append(g[s - 1], s) ELSE g[s - 1]
    <3>1. CASE s = n + 1
      <4>1. g[s] = last /\ s /= 0 /\ s - 1 = n /\ g[n] = f[n]
        BY <3>1, <2>3
      <4> HIDE DEF g
      <4> QED BY <3>1, <4>1, Zenon
    <3>2. CASE s \in 0..n
      <4>1. g[s] = f[s] /\ (s /= 0 => g[s - 1] = f[s - 1])
        BY <3>2, <2>3
      <4> HIDE DEF g
      <4> QED BY <2>2, <3>2, <4>1, Zenon
    <3> QED BY <2>4, <3>1, <3>2
  <2>6. g = [s \in 0..(n + 1) |-> g[s]]
    OBVIOUS
  <2> HIDE DEF g
  <2>7. Lists(g, n + 1, kinds)
    BY <2>5, <2>6, Zenon DEF Lists
  <2> QED BY <2>7
<1> HIDE DEF T
<1>3. Nat \subseteq T
  BY <1>1, <1>2, Induction
<1>4. N \in T
  BY <1>3, ParallelAssumption
<1> QED BY <1>4 DEF T

\* WithOutcome is its last value.
LEMMA WithOutcomeLists ==
  ASSUME NEW kinds
  PROVE  \E f : Lists(f, N, kinds) /\ WithOutcome(kinds) = f[N]
<1> DEFINE f == CHOOSE f : Lists(f, N, kinds)
<1>1. Lists(f, N, kinds)
  BY ListsExist, Zenon
<1>2. WithOutcome(kinds) = f[N]
  BY DEF WithOutcome, Lists
<1> QED BY <1>1, <1>2, Zenon

\* What is listed up to source n: every source with such an outcome, in order.
Listing(f, n, kinds) ==
  /\ f[n] \in Seq(Nat) /\ Len(f[n]) <= n
  /\ \A s \in 1..n : outcomes[s] \in kinds => 1 <= Len(f[s]) /\ f[n][Len(f[s])] = s
  /\ \A s \in 0..n : Len(f[s]) \in Nat /\ Len(f[s]) <= Len(f[n])
  /\ \A k \in 1..Len(f[n]) : \E s \in 1..n : outcomes[s] \in kinds /\ Len(f[s]) = k

\* One more source.
LEMMA ListingGrows ==
  ASSUME NEW kinds, NEW f, NEW n \in Nat, Listing(f, n, kinds),
         f[n + 1] = IF outcomes[n + 1] \in kinds THEN Append(f[n], n + 1) ELSE f[n]
  PROVE  Listing(f, n + 1, kinds)
<1>1. /\ f[n] \in Seq(Nat) /\ Len(f[n]) <= n /\ Len(f[n]) \in Nat /\ n + 1 \in Nat
      /\ \A s \in 1..n : outcomes[s] \in kinds => 1 <= Len(f[s]) /\ f[n][Len(f[s])] = s
      /\ \A s \in 0..n : Len(f[s]) \in Nat /\ Len(f[s]) <= Len(f[n])
      /\ \A k \in 1..Len(f[n]) : \E s \in 1..n : outcomes[s] \in kinds /\ Len(f[s]) = k
  BY DEF Listing
<1>2. /\ \A s \in 1..(n + 1) : s = n + 1 \/ s \in 1..n
      /\ \A s \in 0..(n + 1) : s = n + 1 \/ s \in 0..n
      /\ \A s \in 1..n : s \in 0..n /\ s \in 1..(n + 1)
      /\ n + 1 \in 1..(n + 1)
  OBVIOUS
<1>3. CASE outcomes[n + 1] \notin kinds
  <2>1. f[n + 1] = f[n]
    BY <1>3, Zenon
  <2>2. f[n + 1] \in Seq(Nat) /\ Len(f[n + 1]) <= n + 1 /\ Len(f[n + 1]) \in Nat
        /\ Len(f[n + 1]) <= Len(f[n + 1])
    BY <1>1, <2>1
  <2>3. \A s \in 1..(n + 1) : outcomes[s] \in kinds => 1 <= Len(f[s]) /\ f[n + 1][Len(f[s])] = s
    BY <1>1, <1>2, <1>3, <2>1, Zenon
  <2>4. \A s \in 0..(n + 1) : Len(f[s]) \in Nat /\ Len(f[s]) <= Len(f[n + 1])
    BY <1>1, <1>2, <2>1, <2>2, Zenon
  <2>5. \A k \in 1..Len(f[n + 1]) : \E s \in 1..(n + 1) : outcomes[s] \in kinds /\ Len(f[s]) = k
    BY <1>1, <1>2, <2>1, Zenon
  <2> QED BY <2>2, <2>3, <2>4, <2>5, Zenon DEF Listing
<1>4. CASE outcomes[n + 1] \in kinds
  <2> DEFINE l == Len(f[n])
  <2>1. f[n + 1] = Append(f[n], n + 1)
    BY <1>4, Zenon
  <2>2. /\ Append(f[n], n + 1) \in Seq(Nat) /\ Len(Append(f[n], n + 1)) = l + 1
        /\ Append(f[n], n + 1)[l + 1] = n + 1
        /\ \A k \in 1..l : Append(f[n], n + 1)[k] = f[n][k]
    BY <1>1
  <2>3. /\ f[n + 1] \in Seq(Nat) /\ Len(f[n + 1]) = l + 1 /\ f[n + 1][l + 1] = n + 1
        /\ \A k \in 1..l : f[n + 1][k] = f[n][k]
    BY <2>1, <2>2, Zenon
  <2>4. l \in Nat /\ l <= n
    BY <1>1, Zenon
  <2>5. \A s \in 0..n : Len(f[s]) \in Nat /\ Len(f[s]) <= l
    BY <1>1, Zenon
  <2> HIDE DEF l
  <2>6. f[n + 1] \in Seq(Nat) /\ Len(f[n + 1]) <= n + 1
    BY <2>3, <2>4
  <2>7. ASSUME NEW s \in 1..(n + 1), outcomes[s] \in kinds
        PROVE  1 <= Len(f[s]) /\ f[n + 1][Len(f[s])] = s
    <3>1. CASE s = n + 1
      <4>1. 1 <= l + 1
        BY <2>4
      <4> QED BY <2>3, <3>1, <4>1, Zenon
    <3>2. CASE s \in 1..n
      <4>1. 1 <= Len(f[s]) /\ f[n][Len(f[s])] = s /\ Len(f[s]) \in Nat /\ Len(f[s]) <= l
        BY <1>1, <1>2, <2>5, <2>7, <3>2, Zenon
      <4>2. Len(f[s]) \in 1..l
        BY <2>4, <4>1
      <4> QED BY <2>3, <4>1, <4>2, Zenon
    <3> QED BY <1>2, <3>1, <3>2, Zenon
  <2>8. ASSUME NEW s \in 0..(n + 1)
        PROVE  Len(f[s]) \in Nat /\ Len(f[s]) <= Len(f[n + 1])
    <3>1. CASE s = n + 1
      <4>1. Len(f[s]) = l + 1 /\ Len(f[n + 1]) = l + 1
        BY <2>3, <3>1, Zenon
      <4> QED BY <2>4, <4>1
    <3>2. CASE s \in 0..n
      <4>1. Len(f[s]) \in Nat /\ Len(f[s]) <= l /\ Len(f[n + 1]) = l + 1
        BY <2>3, <2>5, <3>2, Zenon
      <4> QED BY <2>4, <4>1
    <3> QED BY <1>2, <3>1, <3>2, Zenon
  <2>9. ASSUME NEW k \in 1..Len(f[n + 1])
        PROVE  \E s \in 1..(n + 1) : outcomes[s] \in kinds /\ Len(f[s]) = k
    <3>1. k \in 1..(l + 1)
      BY <2>3, Zenon
    <3>2. k = l + 1 \/ k \in 1..l
      BY <2>4, <3>1
    <3>3. CASE k = l + 1
      BY <1>2, <1>4, <2>3, <3>3, Zenon
    <3>4. CASE k \in 1..l
      BY <1>1, <1>2, <3>4, Zenon DEF l
    <3> QED BY <3>2, <3>3, <3>4, Zenon
  <2> QED BY <2>6, <2>7, <2>8, <2>9, Zenon DEF Listing
<1> QED BY <1>3, <1>4, Zenon

\* So it is for every source.
LEMMA ListFacts ==
  ASSUME NEW kinds, NEW f, Lists(f, N, kinds)
  PROVE  /\ \A n \in 0..N : Listing(f, n, kinds)
         /\ \A s, t \in Sources : s < t /\ outcomes[t] \in kinds => Len(f[s]) < Len(f[t])
<1>1. /\ f[0] = <<>>
      /\ \A s \in 1..N : f[s] = IF outcomes[s] \in kinds THEN Append(f[s - 1], s) ELSE f[s - 1]
  <2>1. \A s \in 0..N : f[s] = IF s = 0 THEN <<>>
                              ELSE IF outcomes[s] \in kinds THEN Append(f[s - 1], s) ELSE f[s - 1]
    BY Zenon DEF Lists
  <2>2. 0 \in 0..N /\ \A s \in 1..N : s \in 0..N /\ s /= 0
    BY ParallelAssumption
  <2> QED BY <2>1, <2>2, Zenon
<1> DEFINE T == {n \in Nat : n <= N => Listing(f, n, kinds)}
<1>2. 0 \in T
  <2>1. <<>> \in Seq(Nat) /\ Len(<<>>) = 0
    OBVIOUS
  <2>2. Listing(f, 0, kinds)
    BY <1>1, <2>1 DEF Listing
  <2> QED BY <2>2
<1>3. ASSUME NEW n \in Nat, n \in T PROVE n + 1 \in T
  <2> SUFFICES ASSUME n + 1 <= N PROVE Listing(f, n + 1, kinds)
    OBVIOUS
  <2>1. n <= N /\ n + 1 \in 1..N /\ (n + 1) - 1 = n
    BY ParallelAssumption
  <2>2. Listing(f, n, kinds)
    BY <1>3, <2>1
  <2>3. f[n + 1] = IF outcomes[n + 1] \in kinds THEN Append(f[n], n + 1) ELSE f[n]
    BY <1>1, <2>1, Zenon
  <2> QED BY <2>2, <2>3, ListingGrows, Zenon
<1> HIDE DEF T
<1>4. Nat \subseteq T
  BY <1>2, <1>3, Induction, Zenon
<1>5. \A n \in 0..N : n \in Nat /\ n <= N
  BY ParallelAssumption
<1>6. \A n \in 0..N : Listing(f, n, kinds)
  BY <1>4, <1>5, Zenon DEF T
<1>7. ASSUME NEW s \in Sources, NEW t \in Sources, s < t, outcomes[t] \in kinds
      PROVE  Len(f[s]) < Len(f[t])
  <2>1. t \in 1..N /\ t - 1 \in 0..N /\ s \in 0..(t - 1)
    BY <1>7, ParallelAssumption DEF Sources
  <2>2. /\ f[t - 1] \in Seq(Nat) /\ Len(f[s]) \in Nat /\ Len(f[s]) <= Len(f[t - 1])
    BY <1>6, <2>1, Zenon DEF Listing
  <2>3. f[t] = Append(f[t - 1], t) /\ t \in Nat
    <3>1. t \in Nat
      BY <2>1
    <3> QED BY <1>1, <1>7, <2>1, <3>1, Zenon
  <2>4. Len(Append(f[t - 1], t)) = Len(f[t - 1]) + 1 /\ Len(f[t - 1]) \in Nat
    BY <2>2, <2>3
  <2>5. Len(f[t]) = Len(f[t - 1]) + 1
    BY <2>3, <2>4, Zenon
  <2> QED BY <2>2, <2>4, <2>5
<1> QED BY <1>6, <1>7, Zenon

\* The dataset has one cache for every success, in the order of the sources.
LEMMA PathsInOrder ==
  ASSUME Inv
  PROVE  /\ \E position \in [Sources -> 0..N] :
              /\ \A s \in Sources :
                   IF outcomes[s] = "success"
                     THEN /\ position[s] \in DOMAIN SuccessfulPaths
                          /\ SuccessfulPaths[position[s]] = name[s]
                     ELSE position[s] = 0
              /\ \A s, t \in Sources : s < t /\ position[s] /= 0 /\ position[t] /= 0
                                         => position[s] < position[t]
              /\ \A k \in DOMAIN SuccessfulPaths : (\E s \in Sources : position[s] = k)
                                                   /\ final[SuccessfulPaths[k]] /= "absent"
         /\ SuccessfulPaths = <<>> => \A s \in Sources : outcomes[s] /= "success"
<1> DEFINE kinds == {"success"}
<1>1. PICK f : Lists(f, N, kinds) /\ WithOutcome(kinds) = f[N]
  BY WithOutcomeLists, Zenon
<1>2. \A n \in 0..N : Listing(f, n, kinds)
  BY <1>1, ListFacts, Zenon
<1>3. \A s, t \in Sources : s < t /\ outcomes[t] \in kinds => Len(f[s]) < Len(f[t])
  BY <1>1, ListFacts, Zenon
<1>4. N \in 0..N /\ 1..N = Sources /\ \A s \in Sources : s \in 0..N /\ s \in Nat /\ s <= N
  BY ParallelAssumption DEF Sources
<1>5. /\ f[N] \in Seq(Nat)
      /\ \A s \in Sources : outcomes[s] \in kinds => 1 <= Len(f[s]) /\ f[N][Len(f[s])] = s
      /\ \A s \in Sources : Len(f[s]) \in Nat /\ Len(f[s]) <= Len(f[N])
      /\ \A k \in 1..Len(f[N]) : \E s \in Sources : outcomes[s] \in kinds /\ Len(f[s]) = k
  BY <1>2, <1>4, Zenon DEF Listing
<1>6. \A s \in Sources : Len(f[s]) \in 0..N
  <2> SUFFICES ASSUME NEW s \in Sources PROVE Len(f[s]) \in 0..N
    OBVIOUS
  <2>1. Len(f[s]) \in Nat /\ Len(f[s]) <= s
    BY <1>2, <1>4, <1>5, Zenon DEF Listing
  <2> QED BY <1>4, <2>1, ParallelAssumption
<1>7. DOMAIN f[N] = 1..Len(f[N]) /\ Len(f[N]) \in Nat
  BY <1>5
<1>8. SuccessfulPaths = [k \in 1..Len(f[N]) |-> name[f[N][k]]]
  BY <1>1, <1>7, Zenon DEF SuccessfulPaths
<1> DEFINE paths == SuccessfulPaths
           position == [s \in Sources |-> IF outcomes[s] = "success" THEN Len(f[s]) ELSE 0]
<1>9. DOMAIN paths = 1..Len(f[N]) /\ \A k \in 1..Len(f[N]) : paths[k] = name[f[N][k]]
  BY <1>8, Zenon
<1> HIDE DEF paths
<1>10. ASSUME NEW s \in Sources, outcomes[s] = "success"
       PROVE  Len(f[s]) \in DOMAIN paths /\ paths[Len(f[s])] = name[s] /\ Len(f[s]) /= 0
  <2>1. /\ 1 <= Len(f[s]) /\ f[N][Len(f[s])] = s /\ Len(f[s]) \in Nat /\ Len(f[s]) <= Len(f[N])
    BY <1>5, <1>10, Zenon
  <2>2. Len(f[s]) \in 1..Len(f[N]) /\ Len(f[s]) /= 0
    BY <1>7, <2>1
  <2> QED BY <1>9, <2>1, <2>2, Zenon
<1>11. /\ \A s \in Sources : /\ outcomes[s] = "success" => position[s] = Len(f[s])
                             /\ outcomes[s] /= "success" => position[s] = 0
       /\ position \in [Sources -> 0..N]
  <2>1. 0 \in 0..N
    BY ParallelAssumption
  <2>2. \A s \in Sources : (IF outcomes[s] = "success" THEN Len(f[s]) ELSE 0) \in 0..N
    BY <1>6, <2>1, Zenon
  <2> QED BY <2>2, Zenon
<1> HIDE DEF position
<1>12. \A s \in Sources : IF outcomes[s] = "success"
                            THEN position[s] \in DOMAIN paths /\ paths[position[s]] = name[s]
                            ELSE position[s] = 0
  BY <1>10, <1>11, Zenon
<1>13. \A s, t \in Sources : s < t /\ position[s] /= 0 /\ position[t] /= 0
                               => position[s] < position[t]
  <2> SUFFICES ASSUME NEW s \in Sources, NEW t \in Sources, s < t, position[s] /= 0,
                      position[t] /= 0
               PROVE  position[s] < position[t]
    BY Zenon
  <2>1. outcomes[s] = "success" /\ outcomes[t] = "success"
    BY <1>11, Zenon
  <2> QED BY <1>3, <1>11, <2>1, Zenon
<1>14. ASSUME NEW k \in DOMAIN paths
       PROVE  (\E s \in Sources : position[s] = k) /\ final[paths[k]] /= "absent"
  <2>1. PICK s \in Sources : outcomes[s] = "success" /\ Len(f[s]) = k
    BY <1>5, <1>9, <1>14, Zenon
  <2>2. position[s] = k /\ paths[k] = name[s]
    BY <1>10, <1>11, <2>1, Zenon
  <2>3. final[name[s]] /= "absent"
    BY <2>1, Zenon DEF Inv, Ledger
  <2> QED BY <2>2, <2>3, Zenon
<1>15. paths = <<>> => \A s \in Sources : outcomes[s] /= "success"
  <2>1. DOMAIN <<>> = {}
    OBVIOUS
  <2> QED BY <1>10, <2>1, Zenon
<1> QED BY <1>11, <1>12, <1>13, <1>14, <1>15, Zenon DEF paths

\* The results are honest: a success has a cache, a missing outcome is explained
\* by a pool failure, an error is the source's own and has published nothing, and
\* a dataset has the caches of the successes in the order of the sources.
THEOREM PoolReportsHonestly == Spec => []HonestOutcomes
<1>1. ASSUME Inv, outcome \in {"results", "dataset", "no dataset"}, NEW s \in Sources
      PROVE  /\ outcomes[s] = "success" => final[name[s]] /= "absent"
             /\ outcomes[s] = "none" => failure
             /\ outcomes[s] = "error" => blamed[s] /\ ~wrote[s]
  BY <1>1, Zenon DEF Inv, Ledger, Kept, Settled
<1>2. ASSUME Inv, outcome = "dataset"
      PROVE  \E position \in [Sources -> 0..N] :
               /\ \A s \in Sources :
                    IF outcomes[s] = "success"
                      THEN position[s] \in DOMAIN loaded /\ loaded[position[s]] = name[s]
                      ELSE position[s] = 0
               /\ \A s, t \in Sources : s < t /\ position[s] /= 0 /\ position[t] /= 0
                                          => position[s] < position[t]
               /\ \A k \in DOMAIN loaded : (\E s \in Sources : position[s] = k)
                                           /\ final[loaded[k]] /= "absent"
  <2>1. loaded = SuccessfulPaths
    BY <1>2, Zenon DEF Inv, Ledger
  <2> QED BY <1>2, <2>1, PathsInOrder, Zenon
<1>3. ASSUME Inv, outcome = "no dataset" PROVE \A s \in Sources : outcomes[s] /= "success"
  <2>1. SuccessfulPaths = <<>>
    BY <1>3, Zenon DEF Inv, Ledger
  <2> QED BY <1>3, <2>1, PathsInOrder, Zenon
<1>4. Inv => HonestOutcomes
  BY <1>1, <1>2, <1>3, Zenon DEF HonestOutcomes
<1> QED BY <1>4, AlwaysInv, PTL

=============================================================================
