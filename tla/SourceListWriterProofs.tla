----------------------- MODULE SourceListWriterProofs -----------------------
(***************************************************************************)
(* The safety properties of the source-list writer, for any number of      *)
(* sources, samples, workers, faults, interrupts and calls.                *)
(*                                                                         *)
(* The argument is about the backlog: the events that were numbered and    *)
(* not committed, wherever they are (offered by the calling thread, with a *)
(* worker, in the result channel or waiting for their turn).  Operators    *)
(* and lemmas on a backlog have it as a parameter O; steps append to it,   *)
(* commit its first event, give up its last one, or leave it alone.        *)
(***************************************************************************)
EXTENDS SourceListWriter, TLAPS

-----------------------------------------------------------------------------
(* The inductive invariant *)

EventKinds == {"result", "begin", "sample", "end", "abort"}
Settling   == {"result", "end", "abort"}   \* the last event of a source
Opening    == {"begin", "sample"}          \* another one of the source follows
Continuing == {"sample", "end", "abort"}   \* another one of the source precedes

Events   == [kind : EventKinds, src : Sources, ok : BOOLEAN, sample : Nat]
Numbered == [seq : Nat, event : Events]

Has(O, s, kinds) == \E m \in O : m.event.src = s /\ m.event.kind \in kinds

HasSample(O, s, k) ==
  \E m \in O : m.event.src = s /\ m.event.kind = "sample" /\ m.event.sample = k

\* The events of one source stand together: they open, then settle it.
InOrder(e, f) ==
  /\ e.src <= f.src
  /\ e.src = f.src => /\ e.kind \in Opening /\ f.kind \in Continuing
                      /\ e.kind = "sample" /\ f.kind = "sample" => e.sample < f.sample

\* One event for every number from lo to hi - 1, in the order of the sources.
Backlog(O, lo, hi) ==
  /\ O \subseteq Numbered /\ lo \in Nat /\ hi \in Nat /\ lo <= hi
  /\ \A m \in O : lo <= m.seq /\ m.seq < hi
  /\ \A m, n \in O : m.seq = n.seq => m = n
  /\ \A m, n \in O : m.seq < n.seq => InOrder(m.event, n.event)
  /\ \A k \in lo..(hi - 1) : \E m \in O : m.seq = k

Begun(O, act, s) == act = s \/ Has(O, s, {"begin"})

\* Backlog and committer agree with the ingestion.  at says where the ingestion
\* is ("over" once it was given up), i is its source, rec the result slots and
\* act the source the committer is writing.
Control(O, at, i, rec, act) ==
  /\ \A s \in Sources : s >= i => rec[s] = "none"
  /\ \A m \in O : /\ m.event.src <= i /\ rec[m.event.src] = "none"
                  /\ m.event.src = i => m.event.kind \in Opening
                  /\ m.event.kind \in Continuing => Begun(O, act, m.event.src)
                  /\ act <= m.event.src
                  /\ m.event.src = act => m.event.kind \in Continuing
  /\ act <= i /\ (act /= 0 => rec[act] = "none")
  /\ \A s \in Sources : Begun(O, act, s) =>
       Has(O, s, {"end", "abort"}) \/ \A m \in O : m.event.src <= s
  /\ at \in {"source", "finish"} => act < i /\ \A m \in O : m.event.src < i
  /\ at = "iterate" => i \in Sources /\ Begun(O, act, i)
  /\ at = "finish" => i > N
  /\ at /= "over" => \A s \in Sources : s < i => rec[s] /= "none" \/ Has(O, s, Settling)

\* No sample is lost between source and cache.  d samples of the source being
\* written were committed, unless it has failed; made[s] were yielded.
Whole(O, at, s) == at /= "over" \/ Has(O, s, {"end"})

Tally(O, at, i, act, d, failed, made) ==
  /\ \A s \in Sources : s > i \/ (s = i /\ at = "source") => made[s] = 0
  /\ act /= 0 => d <= made[act]
  /\ \A m \in O : m.event.kind = "sample" =>
       /\ 0 < m.event.sample /\ m.event.sample <= made[m.event.src]
       /\ m.event.src = act => d < m.event.sample
  /\ \A s \in Sources : Whole(O, at, s) =>
       /\ s = act /\ ~failed => \A k \in (d + 1)..made[s] : HasSample(O, s, k)
       /\ Has(O, s, {"begin"}) => \A k \in 1..made[s] : HasSample(O, s, k)

\* The ingestion, at source i, sends e and goes on at source j.
Follows(at, i, e, to, j) ==
  /\ e.src = i
  /\ \/ at = "source" /\ e.kind \in {"result", "begin"}
     \/ at = "iterate" /\ e.kind \in Continuing
  /\ j = (IF e.kind \in Opening THEN i ELSE i + 1)
  /\ to = (IF e.kind \in Opening THEN "iterate" ELSE "source")

\* The event to commit is a sample of the source being written.
FirstSample(O, lo, hi, at, i, rec, act, t) ==
  /\ Backlog(O, lo, hi) /\ act \in Sources /\ Control(O, at, i, rec, act)
  /\ t \in O /\ t.seq = lo /\ t.event.kind = "sample" /\ t.event.src = act

\* It is the one after the d samples already written.
NextSample(t, d) == t.event.sample = d + 1

\* A sample is the next one its source yields.
Grows(made, e, more) ==
  /\ made \in [Sources -> Nat] /\ more \in [Sources -> Nat]
  /\ \A s \in Sources : s /= e.src => more[s] = made[s]
  /\ e.kind /= "sample" => more[e.src] = made[e.src]
  /\ e.kind = "sample" => more[e.src] = made[e.src] + 1 /\ e.sample = made[e.src] + 1

-----------------------------------------------------------------------------
(* Lemmas on backlogs *)

\* PipelineIngress numbers the next event.
LEMMA AppendBacklog ==
  ASSUME NEW O, NEW lo, NEW hi, Backlog(O, lo, hi), NEW e \in Events,
         \A m \in O : InOrder(m.event, e)
  PROVE  Backlog(O \cup {[seq |-> hi, event |-> e]}, lo, hi + 1)
<1> DEFINE x == [seq |-> hi, event |-> e]
           P == O \cup {x}
<1>1. x \in Numbered /\ x.seq = hi /\ x.event = e /\ lo \in Nat /\ hi \in Nat /\ lo <= hi
      /\ hi + 1 \in Nat
  BY DEF Backlog, Numbered
<1>2. \A m \in O : m \in Numbered /\ m.seq \in Nat /\ lo <= m.seq /\ m.seq < hi
  BY Zenon DEF Backlog, Numbered
<1> HIDE DEF x
<1>3. P \subseteq Numbered /\ \A m \in P : lo <= m.seq /\ m.seq < hi + 1
  BY <1>1, <1>2
<1>4. ASSUME NEW m \in P, NEW n \in P, m.seq = n.seq PROVE m = n
  BY <1>1, <1>2, <1>4 DEF Backlog
<1>5. ASSUME NEW m \in P, NEW n \in P, m.seq < n.seq PROVE InOrder(m.event, n.event)
  <2>1. m \in O
    BY <1>1, <1>2, <1>5
  <2>2. CASE n \in O
    BY <1>5, <2>1, <2>2, Zenon DEF Backlog
  <2>3. CASE n = x
    BY <1>1, <2>1, <2>3, Zenon
  <2> QED BY <2>2, <2>3, Zenon
<1>6. ASSUME NEW k \in lo..hi PROVE \E m \in P : m.seq = k
  <2>1. CASE k = hi
    BY <1>1, <2>1, Zenon
  <2>2. CASE k \in lo..(hi - 1)
    BY <2>2, Zenon DEF Backlog
  <2> QED BY <1>1, <2>1, <2>2
<1>7. (hi + 1) - 1 = hi
  BY <1>1
<1> QED BY <1>1, <1>3, <1>4, <1>5, <1>6, <1>7 DEF Backlog, x

\* The committer takes the first event.
LEMMA CommitBacklog ==
  ASSUME NEW O, NEW lo, NEW hi, Backlog(O, lo, hi), NEW t \in O, t.seq = lo
  PROVE  /\ Backlog(O \ {t}, lo + 1, hi)
         /\ \A m \in O \ {t} : InOrder(t.event, m.event)
<1>1. \A m \in O : m.seq \in Nat /\ lo <= m.seq /\ m.seq < hi
  BY Zenon DEF Backlog, Numbered
<1>2. lo \in Nat /\ hi \in Nat /\ lo + 1 \in Nat /\ lo + 1 <= hi
  BY <1>1 DEF Backlog
<1>3. \A m \in O \ {t} : m.seq /= lo
  BY Zenon DEF Backlog
<1>4. \A m \in O \ {t} : lo < m.seq /\ lo + 1 <= m.seq /\ m.seq < hi
  BY <1>1, <1>2, <1>3
<1>5. \A k \in (lo + 1)..(hi - 1) : \E m \in O \ {t} : m.seq = k
  <2> TAKE k \in (lo + 1)..(hi - 1)
  <2>1. k \in lo..(hi - 1) /\ k /= lo
    BY <1>2
  <2> QED BY <2>1, Zenon DEF Backlog
<1> QED BY <1>2, <1>4, <1>5, Zenon DEF Backlog

\* An interrupt gives up the event that waits for a credit.
LEMMA CutBacklog ==
  ASSUME NEW O, NEW lo, NEW hi, Backlog(O, lo, hi + 1), NEW t \in O, t.seq = hi
  PROVE  /\ Backlog(O \ {t}, lo, hi)
         /\ \A m \in O \ {t} : InOrder(m.event, t.event)
<1>1. \A m \in O : m.seq \in Nat /\ lo <= m.seq /\ m.seq < hi + 1
  BY Zenon DEF Backlog, Numbered
<1>2. lo <= hi /\ hi \in Nat /\ \A m \in O \ {t} : m.seq /= hi
  BY <1>1, Zenon DEF Backlog
<1>3. \A m \in O \ {t} : lo <= m.seq /\ m.seq < hi
  BY <1>1, <1>2
<1>4. \A k \in lo..(hi - 1) : \E m \in O \ {t} : m.seq = k
  <2> TAKE k \in lo..(hi - 1)
  <2>1. k \in lo..((hi + 1) - 1) /\ k /= hi /\ lo \in Nat
    BY <1>2 DEF Backlog
  <2> QED BY <2>1, Zenon DEF Backlog
<1> QED BY <1>2, <1>3, <1>4, Zenon DEF Backlog

\* A new event extends the source the ingestion is at, or is its first one.
LEMMA AppendControl ==
  ASSUME NEW O, NEW lo, NEW hi, Backlog(O, lo, hi), NEW at, NEW i \in 1..(N + 1), NEW rec,
         NEW act \in 0..N, Control(O, at, i, rec, act),
         NEW x \in Numbered, NEW to, NEW j, Follows(at, i, x.event, to, j)
  PROVE  Control(O \cup {x}, to, j, rec, act)
<1>0. /\ x.event.src = i
      /\ \/ at = "source" /\ x.event.kind \in {"result", "begin"}
         \/ at = "iterate" /\ x.event.kind \in Continuing
      /\ j = (IF x.event.kind \in Opening THEN i ELSE i + 1)
      /\ to = (IF x.event.kind \in Opening THEN "iterate" ELSE "source")
  BY Zenon DEF Follows
<1> USE <1>0
<1> DEFINE P == O \cup {x}
           e == x.event
<1>1. /\ i \in Sources /\ i \in Nat /\ j \in Nat /\ i <= j /\ N \in Nat
      /\ e.kind \in Opening => j = i
      /\ e.kind \notin Opening => j = i + 1
  BY WriterAssumption DEF Numbered, Events, Sources
<1>2. \A m \in O : m.event.src \in Nat /\ m.event.src \in Sources /\ m.event.src <= i
  BY WriterAssumption DEF Backlog, Numbered, Events, Sources, Control
<1>3. \A s, kinds : Has(O, s, kinds) => Has(P, s, kinds)
  BY Zenon DEF Has
<1>4. \A s : Begun(O, act, s) => Begun(P, act, s)
  BY <1>3, Zenon DEF Begun
<1>5. \A s \in Sources : Begun(P, act, s) => Begun(O, act, s) \/ (s = i /\ e.kind = "begin")
  BY Zenon DEF Begun, Has
<1>6. at = "iterate" => Begun(O, act, i)
  BY Zenon DEF Control
<1>7. at = "source" => act < i /\ \A m \in O : m.event.src < i
  BY Zenon DEF Control
<1>8. e.kind \in Continuing => at = "iterate"
  BY Zenon DEF Continuing
<1> HIDE DEF e
<1>9. \A s \in Sources : s >= j => rec[s] = "none"
  BY <1>1 DEF Control, Sources
<1>10. ASSUME NEW m \in P
       PROVE  /\ m.event.src <= j /\ rec[m.event.src] = "none"
              /\ m.event.src = j => m.event.kind \in Opening
              /\ m.event.kind \in Continuing => Begun(P, act, m.event.src)
              /\ act <= m.event.src
              /\ m.event.src = act => m.event.kind \in Continuing
  <2>1. CASE m \in O
    <3>1. m.event.src <= j /\ rec[m.event.src] = "none" /\ act <= m.event.src
      BY <1>1, <1>2, <2>1 DEF Control
    <3>2. m.event.src = j => m.event.kind \in Opening
      <4>1. m.event.src = j => j = i
        BY <1>1, <1>2, <2>1
      <4> QED BY <2>1, <4>1, Zenon DEF Control
    <3>3. m.event.kind \in Continuing => Begun(P, act, m.event.src)
      BY <1>4, <2>1, Zenon DEF Control
    <3>4. m.event.src = act => m.event.kind \in Continuing
      BY <2>1, Zenon DEF Control
    <3> QED BY <3>1, <3>2, <3>3, <3>4, Zenon
  <2>2. CASE m = x
    <3>1. m.event.src = i /\ m.event = e /\ i <= j /\ rec[i] = "none" /\ act <= i
      BY <1>1, <2>2 DEF Control, e
    <3>2. i = j => e.kind \in Opening
      BY <1>1
    <3>3. e.kind \in Continuing => Begun(P, act, i)
      BY <1>4, <1>6, <1>8, Zenon
    <3>4. i = act => e.kind \in Continuing
      <4>1. i = act => at = "iterate"
        BY <1>1, <1>7 DEF e
      <4> QED BY <4>1, Zenon DEF e
    <3> QED BY <3>1, <3>2, <3>3, <3>4, Zenon
  <2> QED BY <2>1, <2>2, Zenon
<1>11. act <= j /\ (act /= 0 => rec[act] = "none")
  BY <1>1 DEF Control
<1>12. ASSUME NEW s \in Sources, Begun(P, act, s)
       PROVE  Has(P, s, {"end", "abort"}) \/ \A m \in P : m.event.src <= s
  <2>1. CASE s = i
    BY <1>1, <1>2, <2>1
  <2>2. CASE s /= i
    <3>1. Begun(O, act, s)
      BY <1>5, <1>12, <2>2, Zenon
    <3>2. CASE Has(O, s, {"end", "abort"})
      BY <1>3, <3>2, Zenon
    <3>3. CASE ~Has(O, s, {"end", "abort"})
      <4>1. s <= i
        <5>1. s = act \/ \E m \in O : m.event.src = s
          BY <3>1, Zenon DEF Begun, Has
        <5>2. act <= i
          BY Zenon DEF Control
        <5> QED BY <1>2, <5>1, <5>2, Zenon
      <4>2. rec[s] = "none"
        <5>1. CASE act = s
          BY <5>1 DEF Control, Sources
        <5>2. CASE act /= s
          <6>1. PICK m \in O : m.event.src = s
            BY <3>1, <5>2, Zenon DEF Begun, Has
          <6> QED BY <6>1, Zenon DEF Control
        <5> QED BY <5>1, <5>2, Zenon
      <4>3. at /= "over" /\ s < i
        BY <1>1, <2>2, <4>1 DEF Sources
      <4>4. Has(O, s, Settling)
        BY <4>2, <4>3, Zenon DEF Control
      <4>5. PICK c \in O : c.event.src = s /\ c.event.kind \in Settling
        BY <4>4, Zenon DEF Has
      <4>6. c.event.kind = "result"
        BY <3>3, <4>5, Zenon DEF Has, Settling
      <4>7. act /= s
        BY <4>5, <4>6, Zenon DEF Control, Continuing
      <4>8. PICK b \in O : b.event.src = s /\ b.event.kind = "begin"
        BY <3>1, <4>7, Zenon DEF Begun, Has
      <4>9. c.seq \in Nat /\ b.seq \in Nat /\ c.seq /= b.seq
        BY <4>6, <4>8, Zenon DEF Backlog, Numbered
      <4>10. InOrder(c.event, b.event) \/ InOrder(b.event, c.event)
        BY <4>9 DEF Backlog
      <4> QED BY <4>5, <4>6, <4>8, <4>10, Zenon DEF InOrder, Opening, Continuing
    <3> QED BY <3>2, <3>3, Zenon
  <2> QED BY <2>1, <2>2, Zenon
<1>13. to \in {"source", "finish"} => act < j /\ \A m \in P : m.event.src < j
  <2> SUFFICES ASSUME to = "source" PROVE act < j /\ \A m \in P : m.event.src < j
    BY Zenon DEF e
  <2>1. j = i + 1
    BY <1>1, Zenon DEF e
  <2>2. act < j
    BY <1>1, <2>1 DEF Control
  <2>3. \A m \in O : m.event.src < j
    BY <1>1, <1>2, <2>1
  <2> QED BY <1>1, <2>1, <2>2, <2>3
<1>14. to = "iterate" => j \in Sources /\ Begun(P, act, j)
  <2> SUFFICES ASSUME to = "iterate" PROVE Begun(P, act, i) /\ j = i
    BY <1>1, Zenon
  <2>1. e.kind \in Opening /\ j = i
    BY <1>1, Zenon DEF e
  <2>2. CASE e.kind = "begin"
    BY <2>1, <2>2, Zenon DEF Begun, Has, e
  <2>3. CASE e.kind = "sample"
    BY <1>4, <1>6, <1>8, <2>1, <2>3, Zenon DEF Continuing
  <2> QED BY <2>1, <2>2, <2>3, Zenon DEF Opening
<1>15. \A s \in Sources : s < j => rec[s] /= "none" \/ Has(P, s, Settling)
  <2> SUFFICES ASSUME NEW s \in Sources, s < j PROVE rec[s] /= "none" \/ Has(P, s, Settling)
    BY Zenon
  <2>1. CASE s < i
    <3>1. at /= "over"
      BY Zenon
    <3> QED BY <1>3, <2>1, <3>1, Zenon DEF Control
  <2>2. CASE ~(s < i)
    <3>1. s = i /\ e.kind \notin Opening
      BY <1>1, <2>2 DEF Sources
    <3>2. e.kind \in Settling
      BY <3>1, Zenon DEF Opening, Settling, Numbered, Events, EventKinds, e
    <3> QED BY <3>1, <3>2, Zenon DEF Has, e
  <2> QED BY <2>1, <2>2, Zenon
<1>16. to /= "finish"
  BY Zenon DEF e
<1> HIDE DEF P
<1>17. Control(P, to, j, rec, act)
  BY <1>9, <1>10, <1>11, <1>12, <1>13, <1>14, <1>15, <1>16, Zenon DEF Control
<1> QED BY <1>17, Zenon DEF P

\* The first event of the backlog meets the source it belongs to as the active
\* one, or no active source at all.
LEMMA FirstInProtocol ==
  ASSUME NEW O, NEW lo, NEW hi, Backlog(O, lo, hi), NEW at, NEW i \in 1..(N + 1), NEW rec,
         NEW act \in 0..N, Control(O, at, i, rec, act), NEW t \in O, t.seq = lo
  PROVE  /\ t.event.kind \in Continuing => act = t.event.src
         /\ t.event.kind \notin Continuing => act = 0
         /\ rec[t.event.src] = "none" /\ t.event.src \in Sources
         /\ t.event.kind \in Settling => t.event.src < i
<1>1. \A m \in O : m.event.src \in Nat /\ m.event.src \in Sources /\ m.event.kind \in EventKinds
  BY WriterAssumption DEF Backlog, Numbered, Events, Sources
<1>2. \A m \in O : m /= t => InOrder(t.event, m.event)
  BY CommitBacklog, Zenon
<1>3. ASSUME t.event.kind \in Continuing, act /= t.event.src PROVE FALSE
  <2>1. PICK b \in O : b.event.src = t.event.src /\ b.event.kind = "begin"
    BY <1>3, Zenon DEF Control, Begun, Has
  <2>2. b /= t
    BY <1>3, <2>1, Zenon DEF Continuing
  <2> QED BY <1>2, <2>1, <2>2, Zenon DEF InOrder, Continuing
<1>4. ASSUME t.event.kind \notin Continuing, act /= 0 PROVE FALSE
  <2>1. act \in Sources /\ act \in Nat
    BY <1>4, WriterAssumption DEF Sources
  <2>2. act < t.event.src
    BY <1>1, <1>4, <2>1 DEF Control
  <2>3. Has(O, act, {"end", "abort"})
    BY <1>1, <2>1, <2>2 DEF Control, Begun
  <2>4. PICK c \in O : c.event.src = act
    BY <2>3, Zenon DEF Has
  <2>5. c /= t /\ InOrder(t.event, c.event)
    BY <1>1, <1>2, <2>1, <2>2, <2>4
  <2> QED BY <1>1, <2>1, <2>2, <2>4, <2>5 DEF InOrder
<1>5. rec[t.event.src] = "none"
  BY Zenon DEF Control
<1>6. t.event.kind \in Settling => t.event.src < i
  <2>1. t.event.src <= i /\ (t.event.src = i => t.event.kind \in Opening)
    BY Zenon DEF Control
  <2>2. t.event.kind \in Settling => t.event.kind \notin Opening
    BY Zenon DEF Settling, Opening
  <2>3. t.event.kind \in Settling => t.event.src /= i
    BY <2>1, <2>2, Zenon
  <2> QED BY <1>1, <2>1, <2>3
<1> QED BY <1>1, <1>3, <1>4, <1>5, <1>6, Zenon

\* The committer settles a source: its slot is filled and nothing is active.
LEMMA SettleControl ==
  ASSUME NEW O, NEW lo, NEW hi, Backlog(O, lo, hi), NEW at, NEW i \in 1..(N + 1), NEW rec,
         NEW act \in 0..N, Control(O, at, i, rec, act), NEW t \in O, t.seq = lo,
         t.event.kind \in Settling, NEW now, now[t.event.src] /= "none",
         \A s \in Sources : s /= t.event.src => now[s] = rec[s]
  PROVE  Control(O \ {t}, at, i, now, 0)
<1> DEFINE P == O \ {t}
<1>1. \A m \in O : m.event.src \in Nat /\ m.event.src \in Sources
  BY WriterAssumption DEF Backlog, Numbered, Events, Sources
<1>2. /\ t.event.kind \in Continuing => act = t.event.src
      /\ t.event.kind \notin Continuing => act = 0
      /\ rec[t.event.src] = "none" /\ t.event.src \in Sources
      /\ t.event.kind \in Settling => t.event.src < i
  BY FirstInProtocol, Zenon
<1>3. \A m \in P : m.event.src /= t.event.src
  <2>1. \A m \in P : InOrder(t.event, m.event)
    BY CommitBacklog, Zenon
  <2>2. t.event.kind \notin Opening
    BY Zenon DEF Settling, Opening
  <2> QED BY <2>1, <2>2, Zenon DEF InOrder
<1>4. \A s, kinds : Has(P, s, kinds) => Has(O, s, kinds)
  BY Zenon DEF Has
<1>5. \A s, kinds : Has(O, s, kinds) /\ s /= t.event.src => Has(P, s, kinds)
  BY Zenon DEF Has
<1>6. \A s \in Sources : s /= t.event.src /\ Begun(O, act, s) => Has(P, s, {"begin"})
  <2> TAKE s \in Sources
  <2>1. s /= 0
    BY WriterAssumption DEF Sources
  <2> QED BY <1>2, <1>5, <2>1, Zenon DEF Begun
<1>7. \A s \in Sources : s >= i => now[s] = "none"
  <2> TAKE s \in Sources
  <2>1. s >= i => s /= t.event.src
    BY <1>1, <1>2 DEF Sources
  <2> QED BY <2>1, Zenon DEF Control
<1>8. ASSUME NEW m \in P
      PROVE  /\ m.event.src <= i /\ now[m.event.src] = "none"
             /\ m.event.src = i => m.event.kind \in Opening
             /\ m.event.kind \in Continuing => Begun(P, 0, m.event.src)
             /\ 0 <= m.event.src
             /\ m.event.src = 0 => m.event.kind \in Continuing
  <2>1. m.event.src /= t.event.src /\ m.event.src \in Sources /\ m \in O
    BY <1>1, <1>3, Zenon
  <2>2. /\ m.event.src <= i /\ now[m.event.src] = "none"
        /\ m.event.src = i => m.event.kind \in Opening
    BY <2>1, Zenon DEF Control
  <2>3. m.event.kind \in Continuing => Begun(P, 0, m.event.src)
    BY <1>6, <2>1, Zenon DEF Control, Begun
  <2>4. 0 <= m.event.src /\ m.event.src /= 0
    BY <2>1, WriterAssumption DEF Sources
  <2> QED BY <2>2, <2>3, <2>4, Zenon
<1>9. ASSUME NEW s \in Sources, Begun(P, 0, s)
      PROVE  Has(P, s, {"end", "abort"}) \/ \A m \in P : m.event.src <= s
  <2>1. s /= 0
    BY WriterAssumption DEF Sources
  <2>2. Has(P, s, {"begin"})
    BY <1>9, <2>1, Zenon DEF Begun
  <2>3. s /= t.event.src
    BY <1>3, <2>2, Zenon DEF Has
  <2>4. Has(O, s, {"end", "abort"}) \/ \A m \in O : m.event.src <= s
    BY <1>4, <2>2, Zenon DEF Control, Begun
  <2> QED BY <1>5, <2>3, <2>4, Zenon
<1>10. at = "iterate" => i \in Sources /\ Begun(P, 0, i)
  <2>1. i /= t.event.src
    BY <1>1, <1>2
  <2> QED BY <1>6, <2>1, Zenon DEF Control, Begun
<1>11. at \in {"source", "finish"} => 0 < i /\ \A m \in P : m.event.src < i
  <2>1. 0 < i
    OBVIOUS
  <2> QED BY <2>1, Zenon DEF Control
<1>12. at /= "over" => \A s \in Sources : s < i => now[s] /= "none" \/ Has(P, s, Settling)
  <2> SUFFICES ASSUME at /= "over", NEW s \in Sources, s < i, s /= t.event.src
               PROVE  now[s] /= "none" \/ Has(P, s, Settling)
    BY Zenon
  <2> QED BY <1>5, Zenon DEF Control
<1>13. 0 <= i /\ (at = "finish" => i > N)
  BY DEF Control
<1> HIDE DEF P
<1>14. Control(P, at, i, now, 0)
  BY <1>7, <1>8, <1>9, <1>10, <1>11, <1>12, <1>13, Zenon DEF Control
<1> QED BY <1>14, Zenon DEF P

\* A begin makes its source the active one.
LEMMA BeginControl ==
  ASSUME NEW O, NEW lo, NEW hi, Backlog(O, lo, hi), NEW at, NEW i \in 1..(N + 1), NEW rec,
         NEW act \in 0..N, Control(O, at, i, rec, act), NEW t \in O, t.seq = lo,
         t.event.kind = "begin"
  PROVE  Control(O \ {t}, at, i, rec, t.event.src)
<1> DEFINE P == O \ {t}
           s == t.event.src
<1>1. \A m \in O : m.event.src \in Nat /\ m.event.src \in Sources
  BY WriterAssumption DEF Backlog, Numbered, Events, Sources
<1>2. act = 0
  <2>1. t.event.kind \notin Continuing
    BY Zenon DEF Continuing
  <2>2. /\ t.event.kind \in Continuing => act = t.event.src
        /\ t.event.kind \notin Continuing => act = 0
        /\ rec[t.event.src] = "none" /\ t.event.src \in Sources
        /\ t.event.kind \in Settling => t.event.src < i
    BY FirstInProtocol, Zenon
  <2> QED BY <2>1, <2>2, Zenon
<1>3. \A m \in P : s <= m.event.src /\ (m.event.src = s => m.event.kind \in Continuing)
  BY CommitBacklog, Zenon DEF InOrder
<1>4. \A u, kinds : Has(P, u, kinds) => Has(O, u, kinds)
  BY Zenon DEF Has
<1>5. \A u, kinds : Has(O, u, kinds) /\ "begin" \notin kinds => Has(P, u, kinds)
  BY Zenon DEF Has
<1>6. \A u \in Sources : Begun(O, act, u) <=> Begun(P, s, u)
  <2> TAKE u \in Sources
  <2>1. u /= act
    BY <1>2, WriterAssumption DEF Sources
  <2>2. Begun(O, act, u) => Begun(P, s, u)
    BY <2>1, Zenon DEF Begun, Has
  <2>3. Begun(P, s, u) => Begun(O, act, u)
    BY <1>4, Zenon DEF Begun, Has
  <2> QED BY <2>2, <2>3, Zenon
<1>7. ASSUME NEW m \in P
      PROVE  /\ m.event.src <= i /\ rec[m.event.src] = "none"
             /\ m.event.src = i => m.event.kind \in Opening
             /\ m.event.kind \in Continuing => Begun(P, s, m.event.src)
             /\ s <= m.event.src
             /\ m.event.src = s => m.event.kind \in Continuing
  BY <1>1, <1>3, <1>6, Zenon DEF Control
<1>8. s <= i /\ rec[s] = "none"
  BY Zenon DEF Control
<1>9. ASSUME NEW u \in Sources, Begun(P, s, u)
      PROVE  Has(P, u, {"end", "abort"}) \/ \A m \in P : m.event.src <= u
  <2>1. Has(O, u, {"end", "abort"}) \/ \A m \in O : m.event.src <= u
    BY <1>6, <1>9, Zenon DEF Control
  <2>2. "begin" \notin {"end", "abort"}
    BY Zenon
  <2> QED BY <1>5, <2>1, <2>2, Zenon
<1>10. at = "iterate" => i \in Sources /\ Begun(P, s, i)
  BY <1>6, Zenon DEF Control
<1>11. at \in {"source", "finish"} => s < i /\ \A m \in P : m.event.src < i
  BY Zenon DEF Control
<1>12. at /= "over" => \A u \in Sources : u < i => rec[u] /= "none" \/ Has(P, u, Settling)
  <2>1. "begin" \notin Settling
    BY Zenon DEF Settling
  <2> QED BY <1>5, <2>1, Zenon DEF Control
<1>13. (\A u \in Sources : u >= i => rec[u] = "none") /\ (at = "finish" => i > N)
  BY Zenon DEF Control
<1> HIDE DEF P, s
<1>14. Control(P, at, i, rec, s)
  BY <1>7, <1>8, <1>9, <1>10, <1>11, <1>12, <1>13, Zenon DEF Control
<1> QED BY <1>14, Zenon DEF P, s

\* A sample leaves its source active.
LEMMA SampleControl ==
  ASSUME NEW O, NEW lo, NEW hi, Backlog(O, lo, hi), NEW at, NEW i \in 1..(N + 1), NEW rec,
         NEW act \in 0..N, Control(O, at, i, rec, act), NEW t \in O, t.seq = lo,
         t.event.kind = "sample"
  PROVE  Control(O \ {t}, at, i, rec, act)
<1> DEFINE P == O \ {t}
<1>1. \A u, kinds : Has(P, u, kinds) => Has(O, u, kinds)
  BY Zenon DEF Has
<1>2. \A u, kinds : Has(O, u, kinds) /\ "sample" \notin kinds => Has(P, u, kinds)
  BY Zenon DEF Has
<1>3. \A u : Begun(O, act, u) <=> Begun(P, act, u)
  <2>1. "sample" \notin {"begin"}
    BY Zenon
  <2> QED BY <1>1, <1>2, <2>1, Zenon DEF Begun
<1>4. ASSUME NEW m \in P
      PROVE  /\ m.event.src <= i /\ rec[m.event.src] = "none"
             /\ m.event.src = i => m.event.kind \in Opening
             /\ m.event.kind \in Continuing => Begun(P, act, m.event.src)
             /\ act <= m.event.src
             /\ m.event.src = act => m.event.kind \in Continuing
  BY <1>3, Zenon DEF Control
<1>5. ASSUME NEW u \in Sources, Begun(P, act, u)
      PROVE  Has(P, u, {"end", "abort"}) \/ \A m \in P : m.event.src <= u
  <2>1. Has(O, u, {"end", "abort"}) \/ \A m \in O : m.event.src <= u
    BY <1>3, <1>5, Zenon DEF Control
  <2>2. "sample" \notin {"end", "abort"}
    BY Zenon
  <2> QED BY <1>2, <2>1, <2>2, Zenon
<1>6. at = "iterate" => i \in Sources /\ Begun(P, act, i)
  BY <1>3, Zenon DEF Control
<1>7. at \in {"source", "finish"} => act < i /\ \A m \in P : m.event.src < i
  BY Zenon DEF Control
<1>8. at /= "over" => \A u \in Sources : u < i => rec[u] /= "none" \/ Has(P, u, Settling)
  <2>1. "sample" \notin Settling
    BY Zenon DEF Settling
  <2> QED BY <1>2, <2>1, Zenon DEF Control
<1>9. /\ \A u \in Sources : u >= i => rec[u] = "none"
      /\ at = "finish" => i > N
      /\ act <= i /\ (act /= 0 => rec[act] = "none")
  BY Zenon DEF Control
<1> HIDE DEF P
<1>10. Control(P, at, i, rec, act)
  BY <1>4, <1>5, <1>6, <1>7, <1>8, <1>9, Zenon DEF Control
<1> QED BY <1>10, Zenon DEF P

\* The last event, which no one has submitted yet, is given up.
LEMMA CutControl ==
  ASSUME NEW O, NEW lo, NEW hi, Backlog(O, lo, hi + 1), NEW at, NEW i \in 1..(N + 1), NEW rec,
         NEW act \in 0..N, Control(O, at, i, rec, act), NEW x \in O, x.seq = hi
  PROVE  Control(O \ {x}, "over", i, rec, act)
<1> DEFINE P == O \ {x}
<1>1. \A m \in P : InOrder(m.event, x.event)
  BY CutBacklog, Zenon
<1>2. \A u, kinds : Has(P, u, kinds) => Has(O, u, kinds)
  BY Zenon DEF Has
<1>3. \A m \in P : x.event.kind = "begin" => m.event.src /= x.event.src
  <2>1. "begin" \notin Continuing
    BY Zenon DEF Continuing
  <2> QED BY <1>1, <2>1, Zenon DEF InOrder
<1>4. \A m \in O : Begun(O, act, m.event.src) /\ m \in P => Begun(P, act, m.event.src)
  BY <1>3, Zenon DEF Begun, Has
<1>5. ASSUME NEW m \in P
      PROVE  /\ m.event.src <= i /\ rec[m.event.src] = "none"
             /\ m.event.src = i => m.event.kind \in Opening
             /\ m.event.kind \in Continuing => Begun(P, act, m.event.src)
             /\ act <= m.event.src
             /\ m.event.src = act => m.event.kind \in Continuing
  BY <1>4, Zenon DEF Control
<1>6. ASSUME NEW u \in Sources, Begun(P, act, u)
      PROVE  Has(P, u, {"end", "abort"}) \/ \A m \in P : m.event.src <= u
  <2>1. Has(O, u, {"end", "abort"}) \/ \A m \in O : m.event.src <= u
    BY <1>2, <1>6, Zenon DEF Control, Begun
  <2>2. CASE \A m \in O : m.event.src <= u
    BY <2>2, Zenon
  <2>3. CASE Has(O, u, {"end", "abort"}) /\ ~Has(P, u, {"end", "abort"})
    <3>1. x.event.src = u
      BY <2>3, Zenon DEF Has
    <3> QED BY <1>1, <3>1, Zenon DEF InOrder
  <2> QED BY <2>1, <2>2, <2>3, Zenon
<1>7. /\ \A u \in Sources : u >= i => rec[u] = "none"
      /\ act <= i /\ (act /= 0 => rec[act] = "none")
  BY Zenon DEF Control
<1> HIDE DEF P
<1>8. "over" \notin {"source", "finish"} /\ "over" /= "iterate" /\ "over" /= "finish"
  BY Zenon
<1>9. Control(P, "over", i, rec, act)
  BY <1>5, <1>6, <1>7, <1>8, Zenon DEF Control
<1> QED BY <1>9, Zenon DEF P

\* The ingestion is given up, or it has come to its end.
LEMMA PassControl ==
  ASSUME NEW O, NEW at, NEW i, NEW rec, NEW act, Control(O, at, i, rec, act), NEW to,
         to = "over" \/ (at = "source" /\ to = "finish" /\ i > N)
  PROVE  Control(O, to, i, rec, act)
<1>1. CASE to = "over"
  BY <1>1, Zenon DEF Control
<1>2. CASE at = "source" /\ to = "finish" /\ i > N
  BY <1>2, Zenon DEF Control
<1> QED BY <1>1, <1>2, Zenon

\* What the ingestion sends next follows everything in the backlog.
LEMMA SentInOrder ==
  ASSUME NEW O, NEW at, NEW i, NEW rec, NEW act, Control(O, at, i, rec, act),
         NEW d, NEW failed, NEW made, Tally(O, at, i, act, d, failed, made),
         O \subseteq Numbered, NEW e \in Events, NEW to, NEW j, Follows(at, i, e, to, j),
         NEW more, Grows(made, e, more)
  PROVE  \A m \in O : InOrder(m.event, e)
<1>0. /\ e.src = i /\ made \in [Sources -> Nat]
      /\ \/ at = "source" /\ e.kind \in {"result", "begin"}
         \/ at = "iterate" /\ e.kind \in Continuing
      /\ e.kind = "sample" => e.sample = made[i] + 1
  BY Zenon DEF Follows, Grows
<1> USE <1>0
<1> TAKE m \in O
<1>1. m.event.src \in Nat /\ i \in Nat /\ m.event.sample \in Nat /\ made[i] \in Nat
  BY WriterAssumption DEF Numbered, Events, Sources
<1>2. m.event.src <= i /\ (at = "source" => m.event.src < i)
  BY Zenon DEF Control
<1>3. CASE m.event.src /= i
  BY <1>2, <1>3, Zenon DEF InOrder
<1>4. CASE m.event.src = i
  <2>1. m.event.kind \in Opening
    BY <1>4, Zenon DEF Control
  <2>2. at /= "source"
    BY <1>1, <1>2, <1>4
  <2>3. m.event.kind = "sample" => m.event.sample <= made[i]
    BY <1>4, Zenon DEF Tally
  <2> QED BY <1>1, <1>2, <1>4, <2>1, <2>2, <2>3 DEF InOrder
<1> QED BY <1>3, <1>4, Zenon

\* An event the ingestion sends keeps the tally: a sample is counted as made when
\* it joins the backlog.
LEMMA AppendTally ==
  ASSUME NEW O, O \subseteq Numbered, NEW at, NEW i \in Sources, NEW act \in 0..N,
         NEW d \in Nat, NEW failed, NEW made, Tally(O, at, i, act, d, failed, made),
         NEW x \in Numbered, NEW to, NEW j, Follows(at, i, x.event, to, j),
         NEW more, Grows(made, x.event, more)
  PROVE  Tally(O \cup {x}, to, j, act, d, failed, more)
<1>0. /\ x.event.src = i
      /\ \/ at = "source" /\ x.event.kind \in {"result", "begin"}
         \/ at = "iterate" /\ x.event.kind \in Continuing
      /\ j = (IF x.event.kind \in Opening THEN i ELSE i + 1)
      /\ to = (IF x.event.kind \in Opening THEN "iterate" ELSE "source")
  BY Zenon DEF Follows
<1>00. /\ made \in [Sources -> Nat] /\ more \in [Sources -> Nat]
       /\ \A s \in Sources : s /= i => more[s] = made[s]
       /\ x.event.kind /= "sample" => more[i] = made[i]
       /\ x.event.kind = "sample" => more[i] = made[i] + 1 /\ x.event.sample = made[i] + 1
  BY <1>0, Zenon DEF Grows
<1> USE <1>0, <1>00
<1> DEFINE P == O \cup {x}
<1>1. /\ i \in Nat /\ at /= "over" /\ Sources \subseteq Nat
      /\ made[i] \in Nat /\ more[i] \in Nat /\ made[i] <= more[i]
  BY WriterAssumption DEF Sources
<1>2. \A s \in Sources : made[s] \in Nat /\ more[s] \in Nat /\ made[s] <= more[s]
  BY <1>1
<1>3. \A s, k : HasSample(O, s, k) => HasSample(P, s, k)
  BY Zenon DEF HasSample
<1>4. ASSUME NEW s \in Sources, s > j \/ (s = j /\ to = "source") PROVE more[s] = 0
  <2>1. s > i /\ s /= i
    BY <1>1, <1>4
  <2> QED BY <2>1, Zenon DEF Tally
<1>5. act /= 0 => d <= more[act] /\ d <= made[act]
  <2>1. act /= 0 => d <= made[act] /\ act \in Sources
    BY DEF Tally, Sources
  <2> QED BY <1>2, <2>1
<1>6. ASSUME NEW m \in P, m.event.kind = "sample"
      PROVE  /\ 0 < m.event.sample /\ m.event.sample <= more[m.event.src]
             /\ m.event.src = act => d < m.event.sample
  <2>1. CASE m \in O
    <3>1. /\ 0 < m.event.sample /\ m.event.sample <= made[m.event.src]
          /\ m.event.src = act => d < m.event.sample
      BY <1>6, <2>1, Zenon DEF Tally
    <3>2. m.event.src \in Sources /\ m.event.sample \in Nat
      BY <2>1, Zenon DEF Numbered, Events
    <3> QED BY <1>2, <3>1, <3>2
  <2>2. CASE m = x
    <3>1. act = i => d <= made[i]
      BY <1>5 DEF Sources
    <3>2. x.event.sample = made[i] + 1 /\ more[i] = made[i] + 1
      BY <1>6, <2>2, Zenon
    <3> QED BY <1>1, <2>2, <3>1, <3>2
  <2> QED BY <2>1, <2>2, Zenon
<1>7. \A s \in Sources : /\ s = act /\ ~failed => \A k \in (d + 1)..made[s] : HasSample(O, s, k)
                         /\ Has(O, s, {"begin"}) => \A k \in 1..made[s] : HasSample(O, s, k)
  BY <1>1, Zenon DEF Tally, Whole
<1>8. ASSUME NEW s \in Sources, NEW k \in Nat, k <= more[s], ~(k <= made[s])
      PROVE  HasSample(P, s, k)
  <2>1. s = i /\ x.event.kind = "sample"
    BY <1>2, <1>8, Zenon
  <2>2. k = x.event.sample
    BY <1>1, <1>8, <2>1
  <2> QED BY <2>1, <2>2, Zenon DEF HasSample
<1>9. ASSUME NEW s \in Sources, s = act, ~failed, NEW k \in (d + 1)..more[s]
      PROVE  HasSample(P, s, k)
  <2>1. CASE k <= made[s]
    <3>1. k \in (d + 1)..made[s]
      BY <1>2, <2>1
    <3> QED BY <1>3, <1>7, <1>9, <3>1, Zenon
  <2>2. CASE ~(k <= made[s])
    <3>1. k \in Nat /\ k <= more[s]
      BY <1>2
    <3> QED BY <1>8, <2>2, <3>1, Zenon
  <2> QED BY <2>1, <2>2, Zenon
<1>10. ASSUME NEW s \in Sources, Has(P, s, {"begin"}), NEW k \in 1..more[s]
       PROVE  HasSample(P, s, k)
  <2>1. CASE Has(O, s, {"begin"})
    <3>1. CASE k <= made[s]
      <4>1. k \in 1..made[s]
        BY <1>2, <3>1
      <4> QED BY <1>3, <1>7, <2>1, <4>1, Zenon
    <3>2. CASE ~(k <= made[s])
      <4>1. k \in Nat /\ k <= more[s]
        BY <1>2
      <4> QED BY <1>8, <3>2, <4>1, Zenon
    <3> QED BY <3>1, <3>2, Zenon
  <2>2. CASE ~Has(O, s, {"begin"})
    <3>1. x.event.src = s /\ x.event.kind = "begin"
      BY <1>10, <2>2, Zenon DEF Has
    <3>2. at = "source"
      BY <3>1, Zenon DEF Continuing
    <3>3. made[s] = 0
      BY <3>1, <3>2, Zenon DEF Tally
    <3>4. more[s] = 0
      BY <3>1, <3>3, Zenon
    <3> QED BY <3>4
  <2> QED BY <2>1, <2>2, Zenon
<1> HIDE DEF P
<1>11. Tally(P, to, j, act, d, failed, more)
  BY <1>4, <1>5, <1>6, <1>9, <1>10, Zenon DEF Tally
<1> QED BY <1>11, Zenon DEF P

\* A backlog that loses an event is no more whole than it was.
LEMMA WholeBefore ==
  ASSUME NEW O, NEW t, NEW at, NEW s, Whole(O \ {t}, at, s) PROVE Whole(O, at, s)
BY Zenon DEF Whole, Has

\* A settled source leaves nothing to tally: the committer has no source then.
LEMMA SettleTally ==
  ASSUME NEW O, O \subseteq Numbered, NEW at, NEW i, NEW act, NEW d, NEW failed, NEW made,
         Tally(O, at, i, act, d, failed, made), NEW t \in O, t.event.kind \in Settling
  PROVE  Tally(O \ {t}, at, i, 0, 0, FALSE, made)
<1> DEFINE P == O \ {t}
<1>1. 0 \notin Sources /\ \A m \in P : m.event.src /= 0 /\ m \in O
  BY WriterAssumption DEF Numbered, Events, Sources
<1>2. t.event.kind /= "sample"
  BY Zenon DEF Settling
<1>3. \A s, k : HasSample(O, s, k) => HasSample(P, s, k)
  BY <1>2, Zenon DEF HasSample
<1>4. \A s \in Sources : Whole(P, at, s) /\ Has(P, s, {"begin"}) =>
                           \A k \in 1..made[s] : HasSample(P, s, k)
  <2>1. \A s : Has(P, s, {"begin"}) => Has(O, s, {"begin"})
    BY Zenon DEF Has
  <2>2. \A s : Whole(P, at, s) => Whole(O, at, s)
    BY WholeBefore, Zenon
  <2> QED BY <1>3, <2>1, <2>2, Zenon DEF Tally
<1>5. \A m \in P : m.event.kind = "sample" =>
        0 < m.event.sample /\ m.event.sample <= made[m.event.src]
  BY Zenon DEF Tally
<1>6. \A s \in Sources : s > i \/ (s = i /\ at = "source") => made[s] = 0
  BY Zenon DEF Tally
<1> HIDE DEF P
<1>7. Tally(P, at, i, 0, 0, FALSE, made)
  BY <1>1, <1>4, <1>5, <1>6, Zenon DEF Tally
<1> QED BY <1>7, Zenon DEF P

\* begin_source opens a cache with no samples, whether or not it fails.
LEMMA BeginTally ==
  ASSUME NEW O, O \subseteq Numbered, NEW at, NEW i, NEW act, NEW d, NEW failed,
         NEW made \in [Sources -> Nat], Tally(O, at, i, act, d, failed, made),
         NEW t \in O, t.event.kind = "begin", NEW broken
  PROVE  Tally(O \ {t}, at, i, t.event.src, 0, broken, made)
<1> DEFINE P == O \ {t}
           b == t.event.src
<1>1. b \in Sources /\ made[b] \in Nat /\ 0 <= made[b] /\ 0 + 1 = 1
  BY DEF Numbered, Events
<1>2. \A s, k : HasSample(O, s, k) => HasSample(P, s, k)
  BY Zenon DEF HasSample
<1>3. \A s : Whole(P, at, s) => Whole(O, at, s)
  BY WholeBefore, Zenon
<1>4. \A s \in Sources : Whole(P, at, s) /\ Has(O, s, {"begin"}) =>
                           \A k \in 1..made[s] : HasSample(P, s, k)
  BY <1>2, <1>3, Zenon DEF Tally
<1>5. \A s : Has(P, s, {"begin"}) \/ s = b => Has(O, s, {"begin"})
  BY Zenon DEF Has
<1>6. \A m \in P : m.event.kind = "sample" =>
        0 < m.event.sample /\ m.event.sample <= made[m.event.src]
  BY Zenon DEF Tally
<1>7. \A s \in Sources : s > i \/ (s = i /\ at = "source") => made[s] = 0
  BY Zenon DEF Tally
<1> HIDE DEF P, b
<1>8. \A s \in Sources : Whole(P, at, s) =>
        /\ s = b /\ ~broken => \A k \in (0 + 1)..made[s] : HasSample(P, s, k)
        /\ Has(P, s, {"begin"}) => \A k \in 1..made[s] : HasSample(P, s, k)
  BY <1>1, <1>4, <1>5, Zenon
<1>9. Tally(P, at, i, b, 0, broken, made)
  BY <1>1, <1>6, <1>7, <1>8, Zenon DEF Tally
<1> QED BY <1>9, Zenon DEF P, b

\* A sample of a source whose samples are all there is the next one.
LEMMA SampleNext ==
  ASSUME NEW O, NEW lo, NEW hi, NEW at, NEW i, NEW rec, NEW act, NEW t,
         FirstSample(O, lo, hi, at, i, rec, act, t), NEW d \in Nat,
         NEW made \in [Sources -> Nat], Tally(O, at, i, act, d, FALSE, made), Whole(O, at, act)
  PROVE  NextSample(t, d)
<1>1. /\ Backlog(O, lo, hi) /\ act \in Sources /\ act /= 0
      /\ t \in O /\ t.seq = lo /\ t.event.kind = "sample" /\ t.event.src = act
  BY WriterAssumption DEF FirstSample, Sources
<1>2. made[act] \in Nat /\ \A m \in O : m.event.sample \in Nat
  BY <1>1, Zenon DEF Backlog, Numbered, Events
<1>3. d <= made[act] /\ d < t.event.sample /\ t.event.sample <= made[act]
  BY <1>1, Zenon DEF Tally
<1>4. d + 1 \in (d + 1)..made[act]
  BY <1>1, <1>2, <1>3
<1>5. HasSample(O, act, d + 1)
  BY <1>1, <1>4, Zenon DEF Tally
<1>6. PICK m \in O : m.event.src = act /\ m.event.kind = "sample" /\ m.event.sample = d + 1
  BY <1>5, Zenon DEF HasSample
<1>7. m /= t => InOrder(t.event, m.event)
  BY <1>1, <1>6, CommitBacklog, Zenon
<1>8. m /= t => t.event.sample < m.event.sample
  BY <1>1, <1>6, <1>7, Zenon DEF InOrder
<1> QED BY <1>1, <1>2, <1>3, <1>6, <1>8 DEF NextSample

\* A sample whose turn has come is the one after those already written, and
\* pushing it or dropping it keeps the tally.
LEMMA SampleTally ==
  ASSUME NEW O, NEW lo, NEW hi, NEW at, NEW i, NEW rec, NEW act, NEW t,
         FirstSample(O, lo, hi, at, i, rec, act, t), NEW d \in Nat, NEW failed,
         NEW made \in [Sources -> Nat], Tally(O, at, i, act, d, failed, made)
  PROVE  /\ Tally(O \ {t}, at, i, act, d, TRUE, made)
         /\ failed = FALSE => Tally(O \ {t}, at, i, act, d + 1, FALSE, made)
<1>0. /\ Backlog(O, lo, hi) /\ act \in Sources /\ Control(O, at, i, rec, act)
      /\ t \in O /\ t.seq = lo /\ t.event.kind = "sample" /\ t.event.src = act
  BY Zenon DEF FirstSample
<1> USE <1>0
<1> DEFINE P == O \ {t}
<1>1. /\ \A m \in O : m.event.sample \in Nat
      /\ made[act] \in Nat
  BY Zenon DEF Backlog, Numbered, Events
<1>2. d <= made[act] /\ d < t.event.sample /\ t.event.sample <= made[act]
  <2>1. act /= 0
    BY WriterAssumption DEF Sources
  <2> QED BY <2>1, Zenon DEF Tally
<1>3. \A m \in P : m.event.kind = "sample" /\ m.event.src = act =>
                     t.event.sample < m.event.sample
  <2>1. \A m \in P : InOrder(t.event, m.event)
    BY CommitBacklog, Zenon
  <2> QED BY <2>1, Zenon DEF InOrder
<1>4. \A s, k : HasSample(O, s, k) /\ (s /= act \/ k /= t.event.sample) => HasSample(P, s, k)
  BY Zenon DEF HasSample
<1>5. \A s : Whole(P, at, s) => Whole(O, at, s)
  BY WholeBefore, Zenon
<1>6. ~Has(P, act, {"begin"})
  <2>1. \A m \in P : m.event.src = act => m.event.kind \in Continuing
    BY Zenon DEF Control
  <2> QED BY <2>1, Zenon DEF Has, Continuing
<1>7. \A s \in Sources : Whole(P, at, s) /\ Has(P, s, {"begin"}) =>
                           \A k \in 1..made[s] : HasSample(P, s, k)
  <2>1. \A s : Has(P, s, {"begin"}) => Has(O, s, {"begin"})
    BY Zenon DEF Has
  <2> QED BY <1>4, <1>5, <1>6, <2>1, Zenon DEF Tally
<1>8. \A m \in P : m.event.kind = "sample" =>
        /\ 0 < m.event.sample /\ m.event.sample <= made[m.event.src]
        /\ m.event.src = act => d < m.event.sample /\ d + 1 < m.event.sample
  <2> TAKE m \in P
  <2>1. m.event.kind = "sample" =>
          /\ 0 < m.event.sample /\ m.event.sample <= made[m.event.src]
          /\ m.event.src = act => d < m.event.sample
    BY Zenon DEF Tally
  <2> QED BY <1>1, <1>2, <1>3, <2>1
<1>9. \A s \in Sources : s > i \/ (s = i /\ at = "source") => made[s] = 0
  BY Zenon DEF Tally
<1>10. failed = FALSE /\ Whole(O, at, act) => NextSample(t, d)
  BY SampleNext, Zenon
<1>11. ASSUME failed = FALSE, Whole(P, at, act), NEW k \in ((d + 1) + 1)..made[act]
       PROVE  HasSample(P, act, k)
  <2>1. k \in (d + 1)..made[act] /\ k /= d + 1
    BY <1>1
  <2>2. t.event.sample = d + 1
    BY <1>5, <1>10, <1>11, Zenon DEF NextSample
  <2>3. HasSample(O, act, k)
    BY <1>5, <1>11, <2>1, Zenon DEF Tally
  <2> QED BY <1>4, <2>1, <2>2, <2>3, Zenon
<1>12. d + 1 <= made[act]
  BY <1>1, <1>2
<1> HIDE DEF P
<1>13. Tally(P, at, i, act, d, TRUE, made)
  BY <1>2, <1>7, <1>8, <1>9, Zenon DEF Tally
<1>14. failed = FALSE => Tally(P, at, i, act, d + 1, FALSE, made)
  BY <1>7, <1>8, <1>9, <1>11, <1>12, Zenon DEF Tally
<1> QED BY <1>13, <1>14, Zenon DEF P

\* At the end of a source that has not failed all of its samples were written.
LEMMA EndTally ==
  ASSUME NEW O, NEW lo, NEW hi, Backlog(O, lo, hi), NEW at, NEW i, NEW act \in Sources,
         NEW d \in Nat, NEW made \in [Sources -> Nat], Tally(O, at, i, act, d, FALSE, made),
         NEW t \in O, t.seq = lo, t.event.kind = "end", t.event.src = act
  PROVE  d = made[act] /\ Whole(O, at, act)
<1>1. made[act] \in Nat /\ d <= made[act]
  <2>1. act /= 0
    BY WriterAssumption DEF Sources
  <2> QED BY <2>1, Zenon DEF Tally
<1>2. Whole(O, at, act)
  BY Zenon DEF Whole, Has
<1>3. ASSUME d /= made[act] PROVE FALSE
  <2>1. d + 1 \in (d + 1)..made[act]
    BY <1>1, <1>3
  <2>2. HasSample(O, act, d + 1)
    BY <1>2, <2>1, Zenon DEF Tally
  <2>3. PICK m \in O : m.event.src = act /\ m.event.kind = "sample"
    BY <2>2, Zenon DEF HasSample
  <2>4. m \in O \ {t}
    BY <2>3, Zenon
  <2>5. InOrder(t.event, m.event)
    BY <2>4, CommitBacklog, Zenon
  <2> QED BY <2>3, <2>5, Zenon DEF InOrder, Opening
<1> QED BY <1>2, <1>3, Zenon

\* An interrupted submit drops the offered event; no source that still counts as
\* whole loses a sample by it.
LEMMA CutTally ==
  ASSUME NEW O, NEW lo, NEW hi, Backlog(O, lo, hi + 1), NEW at, NEW i, NEW act,
         NEW d, NEW failed, NEW made, Tally(O, at, i, act, d, failed, made),
         NEW x \in O, x.seq = hi
  PROVE  /\ Tally(O \ {x}, "over", i, act, d, failed, made)
         /\ \A s : Whole(O \ {x}, "over", s) => Whole(O, at, s)
<1> DEFINE P == O \ {x}
<1>1. \A m \in P : InOrder(m.event, x.event)
  BY CutBacklog, Zenon
<1>2. \A s : Whole(P, "over", s) => Whole(O, at, s)
  BY Zenon DEF Whole, Has
<1>3. \A s, k : Whole(P, "over", s) /\ HasSample(O, s, k) => HasSample(P, s, k)
  <2> SUFFICES ASSUME NEW s, Whole(P, "over", s), x.event.src = s PROVE FALSE
    BY Zenon DEF HasSample
  <2>1. PICK m \in P : m.event.src = s /\ m.event.kind = "end"
    BY Zenon DEF Whole, Has
  <2> QED BY <1>1, <2>1, Zenon DEF InOrder, Opening
<1>4. \A s : Has(P, s, {"begin"}) => Has(O, s, {"begin"})
  BY Zenon DEF Has
<1>5. \A s \in Sources : Whole(P, "over", s) =>
        /\ s = act /\ ~failed => \A k \in (d + 1)..made[s] : HasSample(P, s, k)
        /\ Has(P, s, {"begin"}) => \A k \in 1..made[s] : HasSample(P, s, k)
  BY <1>2, <1>3, <1>4, Zenon DEF Tally
<1>6. /\ \A s \in Sources : s > i => made[s] = 0
      /\ act /= 0 => d <= made[act]
      /\ \A m \in P : m.event.kind = "sample" =>
           /\ 0 < m.event.sample /\ m.event.sample <= made[m.event.src]
           /\ m.event.src = act => d < m.event.sample
  BY Zenon DEF Tally
<1>7. "over" /= "source"
  BY Zenon
<1> HIDE DEF P
<1>8. Tally(P, "over", i, act, d, failed, made)
  BY <1>5, <1>6, <1>7, Zenon DEF Tally
<1> QED BY <1>2, <1>8, Zenon DEF P

\* Ending or giving up the ingestion keeps the tally.
LEMMA PassTally ==
  ASSUME NEW O, NEW at, NEW i, NEW act, NEW d, NEW failed, NEW made,
         Tally(O, at, i, act, d, failed, made), NEW to,
         to = "over" \/ (at = "source" /\ to = "finish")
  PROVE  /\ Tally(O, to, i, act, d, failed, made)
         /\ \A s : Whole(O, to, s) => Whole(O, at, s)
<1>1. to /= "source" /\ (to /= "over" => at /= "over")
  BY Zenon
<1>2. \A s : Whole(O, to, s) => Whole(O, at, s)
  BY <1>1, Zenon DEF Whole
<1> QED BY <1>1, <1>2, Zenon DEF Tally

-----------------------------------------------------------------------------
(* The invariant of the state *)

Site == IF pc = "commit" THEN caller ELSE pc
Submitting == Site = "submit"

\* Where the ingestion goes on, or "over".
Place == IF Submitting THEN after
         ELSE IF Site = "scan" THEN "source"
         ELSE IF Site \in {"source", "iterate", "finish"} THEN Site ELSE "over"

Arrived == {results[k] : k \in 1..Len(results)}
Handed  == jobs \cup Arrived \cup pending
Offered == IF Submitting THEN {[seq |-> nextEvent, event |-> msg]} ELSE {}
Outstanding == Handed \cup Offered
Bound == IF Submitting THEN nextEvent + 1 ELSE nextEvent

Named(s) == path[s] \in Paths /\ path[s] /= NoName

Made == [s \in Sources |-> Len(produced[s])]
Count(n) == [k \in 1..n |-> k]

Typed ==
  /\ path \in [Sources -> Paths \cup {NoName}]
  /\ final \in [Paths -> {"absent", "old", "new", "junk"}]
  /\ content \in [Paths -> Seq(Nat)]
  /\ temp \in [Paths -> {"absent", "stale", "ours"}]
  /\ pc \in {"scan", "source", "iterate", "submit", "commit", "finish", "incomplete",
             "cleanup", "done", "crashed"}
  /\ after \in {"source", "iterate"} /\ caller \in {"submit", "finish", "incomplete"}
  /\ index \in 1..(N + 1) /\ nextEvent \in Nat
  /\ jobs \subseteq Numbered /\ results \in Seq(Numbered) /\ pending \subseteq Numbered
  /\ active \in [src : 0..N, data : Seq(Nat), failure : BOOLEAN]
  /\ active.src = 0 => active = NoActive
  /\ record \in [Sources -> {"none", "success", "error"}]
  /\ produced \in [Sources -> Seq(Nat)]
  /\ ended \in [Sources -> BOOLEAN] /\ blamed \in [Sources -> BOOLEAN]
  /\ fresh \in [Sources -> BOOLEAN]

\* A numbered event is in one place, and an event whose turn it is does not wait.
Placed ==
  /\ \A m \in Handed : m.seq < nextEvent
  /\ \A m \in pending : m \notin jobs /\ m \notin Arrived
  /\ \A m \in Arrived : m \notin jobs
  /\ \A j, k \in 1..Len(results) : results[j] = results[k] => j = k
  /\ pc /= "commit" => \A m \in pending : m.seq /= next

\* Samples are numbered in the order in which the source yields them.
Identified ==
  /\ \A s \in Sources : produced[s] = Count(Len(produced[s]))
  /\ ~active.failure /\ Whole(Outstanding, Place, active.src) =>
       active.data = Count(Len(active.data))

\* Whatever will be or was reported as an error is blamed on its source; a source
\* that is not to blame has its paths for itself.
Blamed(m) ==
  LET s == m.event.src IN
  /\ m.event.kind = "result" =>
       IF m.event.ok THEN Named(s) /\ final[path[s]] /= "absent" ELSE blamed[s]
  /\ m.event.kind = "begin" =>
       Named(s) /\ (~blamed[s] => temp[path[s]] = "absent" /\ final[path[s]] = "absent")
  /\ m.event.kind = "sample" => m.event.ok \/ blamed[s]
  /\ m.event.kind = "abort" => blamed[s]
  /\ m.event.kind = "end" => ended[s] /\ (Len(produced[s]) = 0 => blamed[s])

Owned(s) ==
  /\ Named(s)
  /\ active.failure => blamed[s]
  /\ ~blamed[s] => final[path[s]] = "absent" /\ temp[path[s]] = "ours"

Explained ==
  /\ \A m \in Outstanding : Blamed(m)
  /\ active.src /= 0 => Owned(active.src)

\* Two sources with one path are both to blame, though the scan may miss them.
Apart ==
  pc /= "scan" => \A s, t \in Sources :
    s /= t /\ path[s] = path[t] /\ path[s] /= NoName => blamed[s]

\* What the call has published.
Published ==
  /\ PublishedComplete
  /\ \A s \in Sources : fresh[s] => record[s] = "success"

\* What the call has reported.
Reported ==
  \A s \in Sources :
    /\ record[s] = "error" => blamed[s]
    /\ record[s] = "success" => Named(s) /\ final[path[s]] /= "absent"

\* A temporary directory of this call belongs to the source being written.
Kept == ~cleanFailed => \A p \in Paths : temp[p] = "ours" =>
                          active.src /= 0 /\ path[active.src] = p

\* The stages of a call.
Staged ==
  /\ pc = "scan" => index = 1
  /\ pc \in {"scan", "done"} => active = NoActive
  /\ outcome /= "running" => pc = "done"
  /\ outcome \in {"ok", "profile"} => \A s \in Sources : record[s] /= "none"
  /\ interrupted => \/ Site \in {"incomplete", "cleanup", "crashed"}
                    \/ pc = "done" /\ outcome = "interrupt"

Running ==
  /\ Backlog(Outstanding, next, Bound)
  /\ Placed
  /\ Control(Outstanding, Place, index, record, active.src)
  /\ Tally(Outstanding, Place, index, active.src, Len(active.data), active.failure, Made)
  /\ Identified /\ Explained /\ Apart

Over == pc \in {"done", "crashed"}

\* in_flight counts the events with a worker or in the result channel: n places
\* hold all jobs.
Fits(S, n) == \E f \in [1..n -> Numbered] : \A m \in S : \E k \in 1..n : f[k] = m

Counted ==
  /\ inFlight \in Nat /\ Len(results) <= inFlight
  /\ Fits(jobs, inFlight - Len(results))

Inv == Typed /\ Counted /\ Published /\ Reported /\ Kept /\ Staged /\ (~Over => Running)


-----------------------------------------------------------------------------
(* Steps that leave the backlog alone *)

kept == <<path, final, content, temp, index, active, record, produced, ended, blamed, fresh,
          cleanFailed>>

\* What an event or the active source is blamed for depends on these variables.
LEMMA SameExplained ==
  ASSUME Explained, Outstanding' \subseteq Outstanding, UNCHANGED kept
  PROVE  Explained'
<1>1. \A m : Blamed(m) => Blamed(m)'
  BY Zenon DEF Blamed, Named, kept
<1>2. \A s : Owned(s) => Owned(s)'
  BY Zenon DEF Owned, Named, kept
<1>3. UNCHANGED active
  BY Zenon DEF kept
<1> QED BY <1>1, <1>2, <1>3, Zenon DEF Explained

\* A step that touches neither files nor records nor the committer keeps what the
\* invariant says of them.
LEMMA Carry ==
  ASSUME Typed, Running, Published, Reported, Kept,
         Outstanding' = Outstanding, Bound' = Bound, next' = next, UNCHANGED kept,
         \/ Place' = Place \/ Place' = "over"
         \/ Place = "source" /\ Place' = "finish" /\ index > N
  PROVE  /\ Backlog(Outstanding, next, Bound)'
         /\ Control(Outstanding, Place, index, record, active.src)'
         /\ Tally(Outstanding, Place, index, active.src, Len(active.data), active.failure, Made)'
         /\ Identified' /\ Explained' /\ Published' /\ Reported' /\ Kept'
<1>1. UNCHANGED <<index, active, record, produced, Made>>
  BY Zenon DEF kept, Made
<1>2. Backlog(Outstanding, next, Bound)'
  BY Zenon DEF Running
<1>3. Control(Outstanding, Place, index, record, active.src)'
  <2>1. Control(Outstanding, Place', index, record, active.src)
    BY PassControl, Zenon DEF Running
  <2> QED BY <1>1, <2>1, Zenon
<1>4. /\ Tally(Outstanding, Place', index, active.src, Len(active.data), active.failure, Made)
      /\ \A s : Whole(Outstanding, Place', s) => Whole(Outstanding, Place, s)
  BY PassTally, Zenon DEF Running
<1>5. Tally(Outstanding, Place, index, active.src, Len(active.data), active.failure, Made)'
  BY <1>1, <1>4, Zenon
<1>6. Identified'
  BY <1>1, <1>4, Zenon DEF Identified, Running, Count
<1>7. Explained'
  <2>1. Outstanding' \subseteq Outstanding
    BY Zenon
  <2> QED BY <2>1, SameExplained, Zenon DEF Running
<1>8. Published'
  BY Zenon DEF Published, PublishedComplete, kept
<1>9. Reported'
  BY Zenon DEF Reported, Named, kept
<1>10. Kept'
  BY Zenon DEF Kept, kept
<1> QED BY <1>2, <1>3, <1>5, <1>6, <1>7, <1>8, <1>9, <1>10, Zenon

-----------------------------------------------------------------------------
(* The job window *)

\* One more job fits once in_flight has been incremented.
LEMMA FitsOneMore ==
  ASSUME NEW S, NEW n \in Nat, Fits(S, n), NEW x \in Numbered
  PROVE  Fits(S \cup {x}, n + 1)
<1>1. PICK f \in [1..n -> Numbered] : \A m \in S : \E k \in 1..n : f[k] = m
  BY Zenon DEF Fits
<1> DEFINE g == [k \in 1..(n + 1) |-> IF k = n + 1 THEN x ELSE f[k]]
<1>2. g \in [1..(n + 1) -> Numbered]
  OBVIOUS
<1>3. ASSUME NEW m \in S \cup {x} PROVE \E k \in 1..(n + 1) : g[k] = m
  <2>1. CASE m = x
    BY <2>1
  <2>2. CASE m \in S
    <3>1. PICK k \in 1..n : f[k] = m
      BY <1>1, <2>2, Zenon
    <3>2. k \in 1..(n + 1) /\ g[k] = m
      BY <3>1
    <3> QED BY <3>2, Zenon
  <2> QED BY <2>1, <2>2, Zenon
<1> HIDE DEF g
<1> QED BY <1>2, <1>3, Zenon DEF Fits

\* A completed job frees its place.
LEMMA FitsOneLess ==
  ASSUME NEW S, NEW n \in Nat, Fits(S, n), NEW x \in S
  PROVE  n - 1 \in Nat /\ Fits(S \ {x}, n - 1)
<1>1. PICK f \in [1..n -> Numbered] : \A m \in S : \E k \in 1..n : f[k] = m
  BY Zenon DEF Fits
<1>2. PICK hole \in 1..n : f[hole] = x
  BY <1>1, Zenon
<1>3. n - 1 \in Nat /\ n \in 1..n
  OBVIOUS
<1> DEFINE g == [k \in 1..(n - 1) |-> IF k = hole THEN f[n] ELSE f[k]]
<1>4. g \in [1..(n - 1) -> Numbered]
  BY <1>3
<1>5. ASSUME NEW m \in S \ {x} PROVE \E k \in 1..(n - 1) : g[k] = m
  <2>1. PICK k \in 1..n : f[k] = m
    BY <1>1, Zenon
  <2>2. k /= hole
    BY <1>2, <2>1, Zenon
  <2>3. CASE k = n
    <3>1. hole \in 1..(n - 1) /\ g[hole] = m
      BY <1>3, <2>1, <2>2, <2>3
    <3> QED BY <3>1, Zenon
  <2>4. CASE k /= n
    <3>1. k \in 1..(n - 1) /\ g[k] = m
      BY <1>3, <2>1, <2>2, <2>4
    <3> QED BY <3>1, Zenon
  <2> QED BY <2>3, <2>4, Zenon
<1> HIDE DEF g
<1> QED BY <1>3, <1>4, <1>5, Zenon DEF Fits

\* submit hands the offered event to the pool.
LEMMA SubmitStep == Inv /\ Submit => Inv'
<1> SUFFICES ASSUME Inv, Submit PROVE Inv'
  BY Zenon
<1> DEFINE x == [seq |-> nextEvent, event |-> msg]
<1>1. /\ pc = "submit" /\ jobs' = jobs \cup {x} /\ inFlight' = inFlight + 1
      /\ nextEvent' = nextEvent + 1 /\ pc' = after /\ after' = after /\ caller' = caller
      /\ results' = results /\ pending' = pending /\ next' = next /\ outcome' = outcome
      /\ interrupted' = interrupted /\ UNCHANGED kept
  BY Zenon DEF Submit, kept, input, files, history, budgets
<1>2. Typed /\ Counted /\ Running /\ Published /\ Reported /\ Kept /\ Staged
  BY <1>1, Zenon DEF Inv, Over
<1>3. after \in {"source", "iterate"} /\ nextEvent \in Nat
  BY <1>2, Zenon DEF Typed
<1>4. Site = "submit" /\ Submitting /\ Site' = after /\ ~Submitting' /\ Place' = Place
  BY <1>1, <1>3, Zenon DEF Site, Submitting, Place
<1>5. Outstanding' = Outstanding /\ Bound' = Bound
  BY <1>1, <1>4, Zenon DEF Outstanding, Offered, Handed, Arrived, Bound
<1>6. x \in Outstanding /\ x \in Numbered /\ x.seq = nextEvent
  BY <1>2, <1>4, Zenon DEF Outstanding, Offered, Running, Backlog
<1> HIDE DEF x
<1>7. Typed'
  BY <1>1, <1>2, <1>3, <1>6 DEF Typed, kept
<1>8. Placed'
  <2>1. Placed
    BY <1>2, Zenon DEF Running
  <2>2. Arrived' = Arrived
    BY <1>1, Zenon DEF Arrived
  <2>3. \A m \in Handed : m.seq < nextEvent' /\ m /= x
    <3>1. \A m \in Handed : m \in Numbered /\ m.seq < nextEvent
      BY <1>2, <2>1, Zenon DEF Running, Backlog, Outstanding, Placed
    <3> QED BY <1>1, <1>3, <1>6, <3>1 DEF Numbered
  <2>4. Handed' = Handed \cup {x} /\ x.seq < nextEvent'
    BY <1>1, <1>3, <1>6, <2>2 DEF Handed
  <2>5. pc' /= "commit"
    BY <1>1, <1>3, Zenon
  <2>6. \A m \in pending \cup Arrived : m /= x
    BY <2>3, Zenon DEF Handed
  <2> QED BY <1>1, <2>1, <2>2, <2>3, <2>4, <2>5, <2>6, <1>2, Zenon DEF Placed, Running
<1>9. Staged'
  BY <1>1, <1>2, <1>3, <1>4, Zenon DEF Staged, kept
<1>10. Counted'
  <2>1. inFlight \in Nat /\ Len(results) \in Nat /\ Len(results) <= inFlight
    BY <1>2 DEF Counted, Typed
  <2>2. Fits(jobs \cup {x}, (inFlight - Len(results)) + 1)
    BY <1>2, <1>6, <2>1, FitsOneMore DEF Counted
  <2>3. inFlight' - Len(results') = (inFlight - Len(results)) + 1
    BY <1>1, <2>1
  <2>4. inFlight' \in Nat /\ Len(results') <= inFlight'
    BY <1>1, <2>1
  <2> QED BY <1>1, <2>2, <2>3, <2>4, Zenon DEF Counted
<1>11. Apart'
  BY <1>1, <1>2, Zenon DEF Apart, Running, kept
<1>12. /\ Backlog(Outstanding, next, Bound)'
       /\ Control(Outstanding, Place, index, record, active.src)'
       /\ Tally(Outstanding, Place, index, active.src, Len(active.data), active.failure, Made)'
       /\ Identified' /\ Explained' /\ Published' /\ Reported' /\ Kept'
  BY <1>1, <1>2, <1>4, <1>5, Carry, Zenon
<1> QED BY <1>7, <1>8, <1>9, <1>10, <1>11, <1>12, Zenon DEF Inv, Running

\* A worker completes a job, in whatever order, after the call as well.
LEMMA RunJobStep == Inv /\ RunJob => Inv'
<1> SUFFICES ASSUME Inv, RunJob PROVE Inv'
  OBVIOUS
<1>1. PICK job \in jobs : jobs' = jobs \ {job} /\ results' = Append(results, job)
  BY Zenon DEF RunJob
<1>2. /\ pc' = pc /\ after' = after /\ caller' = caller /\ msg' = msg /\ nextEvent' = nextEvent
      /\ pending' = pending /\ next' = next /\ inFlight' = inFlight /\ outcome' = outcome
      /\ interrupted' = interrupted /\ UNCHANGED kept
  BY Zenon DEF RunJob, kept, input, files, history, budgets
<1>3. Typed /\ Counted /\ Published /\ Reported /\ Kept /\ Staged
  BY Zenon DEF Inv
<1>4. /\ jobs \subseteq Numbered /\ results \in Seq(Numbered) /\ job \in Numbered
      /\ Len(results) \in Nat /\ Len(results') = Len(results) + 1
      /\ \A k \in 1..Len(results) : results'[k] = results[k]
      /\ results'[Len(results) + 1] = job
  <2>1. jobs \subseteq Numbered /\ results \in Seq(Numbered)
    BY <1>3, Zenon DEF Typed
  <2> QED BY <1>1, <2>1
<1>5. Arrived' = Arrived \cup {job}
  BY <1>4 DEF Arrived
<1>6. Site' = Site /\ Submitting' = Submitting /\ Place' = Place
  BY <1>2, Zenon DEF Site, Submitting, Place
<1>7. Outstanding' = Outstanding /\ Bound' = Bound
  <2>1. Handed' = Handed
    BY <1>1, <1>2, <1>5, Zenon DEF Handed
  <2> QED BY <1>2, <1>6, <2>1, Zenon DEF Outstanding, Offered, Bound
<1>8. Typed'
  <2>1. jobs' \subseteq Numbered /\ results' \in Seq(Numbered)
    BY <1>1, <1>4
  <2> QED BY <1>2, <1>3, <2>1, Zenon DEF Typed, kept
<1>9. Staged'
  BY <1>2, <1>3, <1>6, Zenon DEF Staged, kept
<1>10. Counted'
  <2>1. inFlight \in Nat /\ Len(results) <= inFlight /\ inFlight - Len(results) \in Nat
    BY <1>3, <1>4 DEF Counted
  <2>2. /\ (inFlight - Len(results)) - 1 \in Nat
        /\ Fits(jobs \ {job}, (inFlight - Len(results)) - 1)
    BY <1>3, <2>1, FitsOneLess, Zenon DEF Counted
  <2>3. inFlight' - Len(results') = (inFlight - Len(results)) - 1
    BY <1>2, <1>4, <2>1
  <2>4. inFlight' \in Nat /\ Len(results') <= inFlight'
    BY <1>2, <1>4, <2>1, <2>2
  <2> QED BY <1>1, <2>2, <2>3, <2>4, Zenon DEF Counted
<1>11. /\ Published' /\ Reported' /\ Kept'
  BY <1>2, <1>3, Zenon DEF Published, PublishedComplete, Reported, Named, Kept, kept
<1>12. ASSUME Running PROVE Running'
  <2>1. Placed'
    <3>1. Placed
      BY <1>12, Zenon DEF Running
    <3>2. Handed' = Handed
      BY <1>1, <1>2, <1>5, Zenon DEF Handed
    <3>3. job \notin pending /\ job \notin Arrived
      BY <3>1, Zenon DEF Placed
    <3>4. ASSUME NEW j \in 1..(Len(results) + 1), NEW k \in 1..(Len(results) + 1),
                 results'[j] = results'[k]
          PROVE  j = k
      <4>1. \A i \in 1..Len(results) : results[i] \in Arrived /\ results'[i] /= job
        BY <1>4, <3>3, Zenon DEF Arrived
      <4>2. CASE j \in 1..Len(results) /\ k \in 1..Len(results)
        BY <1>4, <3>1, <3>4, <4>2, Zenon DEF Placed
      <4>3. CASE j = Len(results) + 1 \/ k = Len(results) + 1
        BY <1>4, <3>4, <4>1, <4>3
      <4> QED BY <1>4, <4>2, <4>3
    <3>5. \A j, k \in 1..Len(results') : results'[j] = results'[k] => j = k
      BY <1>4, <3>4, Zenon
    <3> QED BY <1>1, <1>2, <1>5, <3>1, <3>2, <3>3, <3>5, Zenon DEF Placed
  <2>2. Apart'
    BY <1>2, <1>12, Zenon DEF Apart, Running, kept
  <2>3. /\ Backlog(Outstanding, next, Bound)'
        /\ Control(Outstanding, Place, index, record, active.src)'
        /\ Tally(Outstanding, Place, index, active.src, Len(active.data), active.failure, Made)'
        /\ Identified' /\ Explained' /\ Published' /\ Reported' /\ Kept'
    BY <1>2, <1>3, <1>6, <1>7, <1>12, Carry, Zenon
  <2> QED BY <2>1, <2>2, <2>3, Zenon DEF Running
<1>13. ~Over' => Running'
  BY <1>2, <1>12, Zenon DEF Inv, Over
<1> QED BY <1>8, <1>9, <1>10, <1>11, <1>13, Zenon DEF Inv

\* complete_one receives a result and queues its event.
LEMMA ReceiveStep == Inv /\ Receive => Inv'
<1> SUFFICES ASSUME Inv, Receive PROVE Inv'
  OBVIOUS
<1>1. /\ pc \in {"submit", "finish", "incomplete"} /\ results /= <<>>
      /\ results' = Tail(results) /\ inFlight' = inFlight - 1
      /\ pending' = pending \cup {Head(results)} /\ caller' = pc /\ pc' = "commit"
      /\ after' = after /\ msg' = msg /\ nextEvent' = nextEvent /\ jobs' = jobs
      /\ next' = next /\ outcome' = outcome /\ interrupted' = interrupted /\ UNCHANGED kept
  BY Zenon DEF Receive, Completing, kept, input, files, history, budgets
<1>2. Typed /\ Counted /\ Running /\ Published /\ Reported /\ Kept /\ Staged
  BY <1>1, Zenon DEF Inv, Over
<1>3. Placed
  BY <1>2, Zenon DEF Running
<1> DEFINE x == Head(results)
<1>4. /\ results \in Seq(Numbered) /\ Len(results) \in Nat /\ Len(results) >= 1
      /\ x = results[1] /\ Len(results') = Len(results) - 1
      /\ \A k \in 1..(Len(results) - 1) : results'[k] = results[k + 1]
      /\ results' \in Seq(Numbered) /\ x \in Numbered
  <2>1. results \in Seq(Numbered)
    BY <1>2, Zenon DEF Typed
  <2> QED BY <1>1, <2>1
<1> HIDE DEF x
<1>5. Arrived = Arrived' \cup {x}
  <2>1. x \in Arrived
    BY <1>4 DEF Arrived
  <2>2. \A m \in Arrived' : m \in Arrived
    BY <1>4 DEF Arrived
  <2>3. ASSUME NEW m \in Arrived, m /= x PROVE m \in Arrived'
    <3>1. PICK k \in 1..Len(results) : m = results[k]
      BY <2>3, Zenon DEF Arrived
    <3>2. k - 1 \in 1..Len(results') /\ results'[k - 1] = m
      BY <1>4, <2>3, <3>1
    <3> QED BY <3>2, Zenon DEF Arrived
  <2> QED BY <2>1, <2>2, <2>3, Zenon
<1>6. x \notin Arrived'
  <2> SUFFICES ASSUME NEW k \in 1..Len(results'), results'[k] = x PROVE FALSE
    BY Zenon DEF Arrived
  <2>1. k + 1 \in 1..Len(results) /\ 1 \in 1..Len(results) /\ results[k + 1] = results[1]
        /\ k + 1 /= 1
    BY <1>4
  <2> QED BY <1>3, <2>1, Zenon DEF Placed
<1>7. pending' = pending \cup {x}
  BY <1>1, Zenon DEF x
<1>8. Site' = Site /\ Submitting' = Submitting /\ Place' = Place
  <2>1. Site = pc /\ Site' = pc
    BY <1>1, Zenon DEF Site
  <2> QED BY <1>1, <2>1, Zenon DEF Submitting, Place
<1>9. Handed' = Handed
  BY <1>1, <1>5, <1>7, Zenon DEF Handed
<1>10. Outstanding' = Outstanding /\ Bound' = Bound
  BY <1>1, <1>8, <1>9, Zenon DEF Outstanding, Offered, Bound
<1>11. Typed'
  BY <1>1, <1>2, <1>4, <1>7, Zenon DEF Typed, kept
<1>12. Placed'
  <2>1. \A j, k \in 1..Len(results') : results'[j] = results'[k] => j = k
    <3> TAKE j, k \in 1..Len(results')
    <3>1. /\ j + 1 \in 1..Len(results) /\ k + 1 \in 1..Len(results)
          /\ results'[j] = results[j + 1] /\ results'[k] = results[k + 1]
      BY <1>4
    <3>2. results[j + 1] = results[k + 1] => j + 1 = k + 1
      BY <1>3, <3>1, Zenon DEF Placed
    <3> QED BY <1>4, <3>1, <3>2
  <2>2. \A m \in Arrived' : m \notin jobs' /\ m \in Arrived
    BY <1>1, <1>3, <1>5, Zenon DEF Placed
  <2>3. \A m \in pending' : m \notin jobs' /\ m \notin Arrived'
    BY <1>1, <1>3, <1>5, <1>6, <1>7, Zenon DEF Placed
  <2> QED BY <1>1, <1>3, <1>9, <2>1, <2>2, <2>3, Zenon DEF Placed
<1>13. Staged'
  BY <1>1, <1>2, <1>8, Zenon DEF Staged, kept
<1>14. Counted'
  <2>1. inFlight \in Nat /\ Len(results) <= inFlight /\ Fits(jobs, inFlight - Len(results))
    BY <1>2, Zenon DEF Counted
  <2>2. /\ inFlight' \in Nat /\ Len(results') <= inFlight'
        /\ inFlight' - Len(results') = inFlight - Len(results)
    BY <1>1, <1>4, <2>1
  <2> QED BY <1>1, <2>1, <2>2, Zenon DEF Counted
<1>15. Apart'
  BY <1>1, <1>2, Zenon DEF Apart, Running, kept
<1>16. /\ Backlog(Outstanding, next, Bound)'
       /\ Control(Outstanding, Place, index, record, active.src)'
       /\ Tally(Outstanding, Place, index, active.src, Len(active.data), active.failure, Made)'
       /\ Identified' /\ Explained' /\ Published' /\ Reported' /\ Kept'
  BY <1>1, <1>2, <1>8, <1>10, Carry, Zenon
<1> QED BY <1>11, <1>12, <1>13, <1>14, <1>15, <1>16, Zenon DEF Inv, Running

-----------------------------------------------------------------------------
(* The calling thread moves on *)

thread == <<jobs, results, pending, next, inFlight, msg, after, caller, nextEvent, outcome>>

\* A step that only moves the calling thread keeps the invariant when the backlog,
\* the stage and the interrupt flag agree with the new place.
LEMMA Move ==
  ASSUME Inv, ~Over, pc /= "scan",
         pc' \in {"finish", "incomplete", "cleanup", "submit"},
         UNCHANGED kept, UNCHANGED thread,
         Submitting' = Submitting, \A m \in pending : m.seq /= next,
         \/ Place' = Place \/ Place' = "over"
         \/ Place = "source" /\ Place' = "finish" /\ index > N,
         interrupted' => pc' \in {"incomplete", "cleanup"}
  PROVE  Inv'
<1>1. Typed /\ Counted /\ Running /\ Published /\ Reported /\ Kept /\ Staged
  BY Zenon DEF Inv
<1>2. /\ UNCHANGED <<jobs, results, pending, next, inFlight, msg, after, caller, nextEvent>>
      /\ outcome' = outcome
  BY Zenon DEF thread
<1>3. Outstanding' = Outstanding /\ Bound' = Bound /\ Handed' = Handed /\ Arrived' = Arrived
  BY <1>2, Zenon DEF Outstanding, Handed, Arrived, Offered, Bound
<1>4. Typed'
  BY <1>1, <1>2, Zenon DEF Typed, kept
<1>5. Placed'
  BY <1>1, <1>2, <1>3, Zenon DEF Placed, Running
<1>6. pc' \notin {"scan", "done", "commit", "crashed"} /\ Site' = pc'
  BY Zenon DEF Site
<1>7. Staged'
  <2>1. outcome' = "running"
    BY <1>1, <1>2, Zenon DEF Staged, Over
  <2> QED BY <1>6, <2>1, Zenon DEF Staged
<1>8. Counted'
  BY <1>1, <1>2, Zenon DEF Counted
<1>9. Apart'
  BY <1>1, Zenon DEF Apart, Running, kept
<1>10. /\ Backlog(Outstanding, next, Bound)'
       /\ Control(Outstanding, Place, index, record, active.src)'
       /\ Tally(Outstanding, Place, index, active.src, Len(active.data), active.failure, Made)'
       /\ Identified' /\ Explained' /\ Published' /\ Reported' /\ Kept'
  BY <1>1, <1>2, <1>3, Carry, Zenon
<1> QED BY <1>4, <1>5, <1>7, <1>8, <1>9, <1>10, Zenon DEF Inv, Running

\* Outside commit_ready_events no queued event is due.
LEMMA NothingDue ==
  ASSUME Inv, ~Over, pc /= "commit" PROVE \A m \in pending : m.seq /= next
BY Zenon DEF Inv, Running, Placed

\* commit_ready_events is done, and complete_one returns to its caller.
LEMMA CommitDoneStep == Inv /\ CommitDone => Inv'
<1> SUFFICES ASSUME Inv, CommitDone PROVE Inv'
  OBVIOUS
<1>1. /\ pc = "commit" /\ pc' = caller /\ caller' = caller /\ UNCHANGED kept /\ UNCHANGED thread
      /\ interrupted' = interrupted /\ after' = after
      /\ \A m \in pending : m.seq /= next
  BY Zenon DEF CommitDone, kept, thread, input, files, pipe, history, budgets
<1>2. caller \in {"submit", "finish", "incomplete"}
  BY Zenon DEF Inv, Typed
<1>3. Site = caller /\ Site' = caller
  BY <1>1, <1>2, Zenon DEF Site
<1>4. Submitting' = Submitting /\ Place' = Place
  BY <1>1, <1>3, Zenon DEF Submitting, Place
<1>5. interrupted' => pc' \in {"incomplete", "cleanup"}
  BY <1>1, <1>2, <1>3, Zenon DEF Inv, Staged
<1>6. ~Over /\ pc /= "scan" /\ pc' \in {"finish", "incomplete", "cleanup", "submit"}
  BY <1>1, <1>2, Zenon DEF Over
<1> QED BY <1>1, <1>4, <1>5, <1>6, Move, Zenon

\* Every source was ingested.
LEMMA IngestDoneStep == Inv /\ IngestDone => Inv'
<1> SUFFICES ASSUME Inv, IngestDone PROVE Inv'
  OBVIOUS
<1>1. /\ pc = "source" /\ index > N /\ pc' = "finish" /\ UNCHANGED kept /\ UNCHANGED thread
      /\ interrupted' = interrupted
  BY Zenon DEF IngestDone, kept, thread, input, files, pipe, history, budgets
<1>2. /\ Submitting' = Submitting /\ Place = "source" /\ Place' = "finish"
      /\ Site = "source" /\ ~Over /\ pc' \in {"finish", "incomplete", "cleanup", "submit"}
  BY <1>1, Zenon DEF Site, Submitting, Place, Over
<1>3. ~interrupted'
  BY <1>1, <1>2, Zenon DEF Inv, Staged
<1>4. pc /= "scan" /\ pc /= "commit"
  BY <1>1, Zenon
<1>5. \A m \in pending : m.seq /= next
  BY <1>2, <1>4, NothingDue, Zenon
<1> QED BY <1>1, <1>2, <1>3, <1>4, <1>5, Move, Zenon

\* The call is given up between sources, in a source, or when it has drained
\* its window or was interrupted draining it.
LEMMA GiveUpStep ==
  Inv /\ (SourceInterrupted \/ IterationInterrupted \/ DrainDone
            \/ (ReceiveInterrupted /\ pc /= "submit")) => Inv'
<1> SUFFICES ASSUME Inv, SourceInterrupted \/ IterationInterrupted \/ DrainDone
                           \/ (ReceiveInterrupted /\ pc /= "submit")
             PROVE  Inv'
  BY Zenon
<1>1. /\ pc \in {"source", "iterate", "finish", "incomplete"}
      /\ pc' \in {"incomplete", "cleanup"} /\ UNCHANGED kept /\ UNCHANGED thread
  <2>1. CASE SourceInterrupted
    BY <2>1, Zenon DEF SourceInterrupted, kept, thread, input, files, pipe
  <2>2. CASE IterationInterrupted
    BY <2>2, Zenon DEF IterationInterrupted, kept, thread, input, files, pipe
  <2>3. CASE DrainDone
    BY <2>3, Zenon DEF DrainDone, kept, thread, input, files, pipe, history, budgets
  <2>4. CASE ReceiveInterrupted /\ pc /= "submit"
    BY <2>4, Zenon DEF ReceiveInterrupted, Completing, kept, thread, input, files, pipe
  <2> QED BY <2>1, <2>2, <2>3, <2>4, Zenon
<1>2. /\ Submitting' = Submitting /\ Place' = "over" /\ ~Over
      /\ pc' \in {"finish", "incomplete", "cleanup", "submit"}
      /\ pc /= "scan" /\ pc /= "commit"
  BY <1>1, Zenon DEF Site, Submitting, Place, Over
<1>3. \A m \in pending : m.seq /= next
  BY <1>2, NothingDue, Zenon
<1> QED BY <1>1, <1>2, <1>3, Move, Zenon

\* A submission that waits for a credit is interrupted: its event is dropped.
LEMMA DropStep == Inv /\ ReceiveInterrupted /\ pc = "submit" => Inv'
<1> SUFFICES ASSUME Inv, ReceiveInterrupted, pc = "submit" PROVE Inv'
  BY Zenon
<1> DEFINE x == [seq |-> nextEvent, event |-> msg]
<1>1. pc' = "incomplete" /\ UNCHANGED kept /\ UNCHANGED thread
  BY Zenon DEF ReceiveInterrupted, kept, thread, input, files, pipe
<1>2. Typed /\ Counted /\ Running /\ Published /\ Reported /\ Kept /\ Staged
  BY Zenon DEF Inv, Over
<1>3. /\ UNCHANGED <<jobs, results, pending, next, inFlight, msg, after, caller, nextEvent>>
      /\ outcome' = outcome
  BY <1>1, Zenon DEF thread
<1>4. /\ Site = "submit" /\ Submitting /\ Site' = "incomplete" /\ ~Submitting'
      /\ Place' = "over"
  BY <1>1, Zenon DEF Site, Submitting, Place
<1>5. Handed' = Handed /\ Arrived' = Arrived
  BY <1>3, Zenon DEF Handed, Arrived
<1>6. x \in Outstanding /\ x.seq = nextEvent /\ Outstanding = Handed \cup {x}
      /\ Outstanding' = Handed /\ Bound = nextEvent + 1 /\ Bound' = nextEvent
  BY <1>3, <1>4, <1>5, Zenon DEF Outstanding, Offered, Bound
<1> HIDE DEF x
<1>7. nextEvent \in Nat /\ \A m \in Handed : m.seq < nextEvent
  BY <1>2, Zenon DEF Running, Placed, Typed
<1>8. Outstanding' = Outstanding \ {x}
  BY <1>6, <1>7
<1>9. UNCHANGED <<index, active, record, produced, Made>>
  BY <1>1, Zenon DEF kept, Made
<1>10. Backlog(Outstanding, next, nextEvent + 1)
  BY <1>2, <1>6, Zenon DEF Running
<1>11. Backlog(Outstanding, next, Bound)'
  <2>1. Backlog(Outstanding \ {x}, next, nextEvent)
    BY <1>6, <1>10, CutBacklog, Zenon
  <2> QED BY <1>3, <1>6, <1>8, <2>1, Zenon
<1>12. Control(Outstanding, Place, index, record, active.src)'
  <2>1. index \in 1..(N + 1) /\ active.src \in 0..N
    BY <1>2, Zenon DEF Typed
  <2>2. Control(Outstanding, Place, index, record, active.src)
    BY <1>2, Zenon DEF Running
  <2>3. Control(Outstanding \ {x}, "over", index, record, active.src)
    BY <1>6, <1>10, <2>1, <2>2, CutControl, Zenon
  <2> QED BY <1>4, <1>8, <1>9, <2>3, Zenon
<1>13. /\ Tally(Outstanding \ {x}, "over", index, active.src, Len(active.data), active.failure,
                Made)
       /\ \A s : Whole(Outstanding \ {x}, "over", s) => Whole(Outstanding, Place, s)
  <2>1. Tally(Outstanding, Place, index, active.src, Len(active.data), active.failure, Made)
    BY <1>2, Zenon DEF Running
  <2> QED BY <1>6, <1>10, <2>1, CutTally, Zenon
<1>14. Tally(Outstanding, Place, index, active.src, Len(active.data), active.failure, Made)'
  BY <1>4, <1>8, <1>9, <1>13, Zenon
<1>15. Identified'
  <2>1. Whole(Outstanding, Place, active.src)' => Whole(Outstanding, Place, active.src)
    BY <1>4, <1>8, <1>9, <1>13, Zenon
  <2> QED BY <1>2, <1>9, <2>1, Zenon DEF Identified, Running, Count
<1>16. Explained'
  <2>1. Outstanding' \subseteq Outstanding
    BY <1>8, Zenon
  <2> QED BY <1>1, <1>2, <2>1, SameExplained, Zenon DEF Running
<1>17. Published' /\ Reported' /\ Kept'
  BY <1>1, <1>2, Zenon DEF Published, PublishedComplete, Reported, Named, Kept, kept
<1>18. Typed'
  BY <1>1, <1>2, <1>3, Zenon DEF Typed, kept
<1>19. Placed'
  BY <1>2, <1>3, <1>5, Zenon DEF Placed, Running
<1>20. Staged' /\ Apart' /\ Counted'
  <2>1. Staged'
    BY <1>1, <1>2, <1>3, <1>4, Zenon DEF Staged
  <2>2. Apart' /\ Counted'
    BY <1>1, <1>2, <1>3, Zenon DEF Apart, Running, Counted, kept
  <2> QED BY <2>1, <2>2, Zenon
<1> QED BY <1>11, <1>12, <1>14, <1>15, <1>16, <1>17, <1>18, <1>19, <1>20, Zenon
        DEF Inv, Running

-----------------------------------------------------------------------------
(* The call begins and ends *)

\* The state in which a call begins, over whatever is on disk.
Start ==
  /\ path \in [Sources -> Paths \cup {NoName}]
  /\ final \in [Paths -> {"absent", "old", "new", "junk"}]
  /\ content \in [Paths -> Seq(Nat)] /\ temp \in [Paths -> {"absent", "stale"}]
  /\ pc = "scan" /\ outcome = "running" /\ index = 1 /\ after = "source" /\ caller = "submit"
  /\ nextEvent = 0 /\ jobs = {} /\ results = <<>> /\ pending = {} /\ next = 0 /\ inFlight = 0
  /\ active = NoActive /\ record = [s \in Sources |-> "none"]
  /\ produced = [s \in Sources |-> <<>>] /\ ended = [s \in Sources |-> FALSE]
  /\ blamed = [s \in Sources |-> FALSE] /\ fresh = [s \in Sources |-> FALSE]
  /\ interrupted = FALSE

\* A call that starts, whatever is on disk, satisfies the invariant.
LEMMA StartInv == Start => Inv
<1> SUFFICES ASSUME Start PROVE Inv
  BY Zenon
<1>1. /\ N \in Nat /\ Sources \subseteq Nat /\ \A s \in Sources : s > 0
      /\ active.src = 0 /\ active.data = <<>> /\ ~active.failure /\ Len(active.data) = 0
  BY WriterAssumption DEF Start, Sources, NoActive
<1>2. Typed
  <2>1. active \in [src : 0..N, data : Seq(Nat), failure : BOOLEAN]
    BY <1>1 DEF Start, NoActive
  <2>2. <<>> \in Seq(Nat) /\ <<>> \in Seq(Numbered)
    OBVIOUS
  <2>3. temp \in [Paths -> {"absent", "stale", "ours"}]
    BY Zenon DEF Start
  <2>4. record \in [Sources -> {"none", "success", "error"}] /\ index \in 1..(N + 1)
        /\ nextEvent \in Nat
    BY <1>1 DEF Start
  <2> QED BY <2>1, <2>2, <2>3, <2>4, Zenon DEF Start, Typed
<1>3. Handed = {} /\ Outstanding = {} /\ Site = "scan" /\ Place = "source" /\ Bound = 0
      /\ ~Submitting /\ Arrived = {}
  BY DEF Start, Handed, Outstanding, Arrived, Offered, Submitting, Site, Place, Bound
<1>4. \A s \in Sources : record[s] = "none" /\ ~fresh[s] /\ produced[s] = <<>> /\ Made[s] = 0
  BY Zenon DEF Start, Made
<1>5. Counted
  <2>1. inFlight = 0 /\ Len(results) = 0 /\ jobs = {}
    BY Zenon DEF Start
  <2>2. Fits({}, 0)
    <3>1. [k \in 1..0 |-> NoEvent] \in [1..0 -> Numbered]
      OBVIOUS
    <3> QED BY <3>1, Zenon DEF Fits
  <2> QED BY <2>1, <2>2 DEF Counted
<1>6. Published /\ Reported
  BY <1>4, Zenon DEF Published, PublishedComplete, Reported
<1>7. Kept /\ Staged
  <2>1. \A p \in Paths : temp[p] /= "ours"
    BY Zenon DEF Start
  <2> QED BY <1>3, <2>1, Zenon DEF Kept, Staged, Start
<1>8. Backlog({}, 0, 0)
  BY DEF Backlog
<1>9. Control({}, "source", 1, record, 0)
  BY <1>1, <1>4 DEF Control, Begun, Has
<1>10. Tally({}, "source", 1, 0, 0, FALSE, Made)
  BY <1>1, <1>4 DEF Tally, Has
<1>11. Identified
  <2>1. Count(0) = <<>>
    BY DEF Count
  <2>2. Len(<<>>) = 0
    BY Zenon
  <2> QED BY <1>1, <1>4, <2>1, <2>2, Zenon DEF Identified
<1>12. Placed /\ Explained /\ Apart
  <2>1. pending = {} /\ Len(results) = 0 /\ pc = "scan" /\ jobs = {}
    BY Zenon DEF Start
  <2>2. \A k : k \notin 1..Len(results)
    BY <2>1
  <2> QED BY <1>1, <1>3, <2>1, <2>2, Zenon DEF Placed, Explained, Apart
<1>13. Running
  <2>1. next = 0 /\ index = 1 /\ active.failure = FALSE
    BY Zenon DEF Start, NoActive
  <2> QED BY <1>1, <1>3, <1>8, <1>9, <1>10, <1>11, <1>12, <2>1, Zenon DEF Running
<1> QED BY <1>2, <1>5, <1>6, <1>7, <1>13, Zenon DEF Inv

\* The first call starts.
LEMMA InitInv == Init => Inv
<1> SUFFICES ASSUME Init PROVE Start
  BY StartInv, Zenon
<1>1. /\ final \in [Paths -> {"absent", "old", "new", "junk"}]
      /\ content \in [Paths -> Seq(Nat)] /\ temp \in [Paths -> {"absent", "stale"}]
  BY DEF Init
<1> QED BY <1>1, Zenon DEF Init, Start

\* The caller calls again.
LEMMA CallAgainStep == Inv /\ CallAgain => Inv'
<1> SUFFICES ASSUME Inv, CallAgain PROVE Inv'
  OBVIOUS
<1>1. Start'
  <2>1. /\ path' \in [Sources -> Paths \cup {NoName}]
        /\ final' \in [Paths -> {"absent", "old", "new", "junk"}]
        /\ content' \in [Paths -> Seq(Nat)]
    BY Zenon DEF CallAgain, Inv, Typed
  <2>2. temp' \in [Paths -> {"absent", "stale"}]
    BY Zenon DEF CallAgain
  <2> QED BY <2>1, <2>2, Zenon DEF CallAgain, Start
<1>2. Start' => Inv'
  BY StartInv, PTL
<1> QED BY <1>1, <1>2, Zenon

\* At the start of a call nothing is outstanding.
LEMMA NothingYet ==
  ASSUME Inv, pc = "scan"
  PROVE  Outstanding = {} /\ active = NoActive /\ \A s \in Sources : record[s] = "none"
<1>1. Running /\ index = 1 /\ active = NoActive /\ Place = "source"
  BY Zenon DEF Inv, Over, Staged, Place, Submitting, Site
<1>2. Control(Outstanding, "source", 1, record, active.src) /\ Outstanding \subseteq Numbered
  BY <1>1, Zenon DEF Running, Backlog
<1>3. \A m \in Outstanding : m.event.src \in Sources /\ m.event.src < 1
  BY <1>2, Zenon DEF Control, Numbered, Events
<1>4. Outstanding = {}
  BY <1>3, WriterAssumption DEF Sources
<1>5. \A s \in Sources : s >= 1
  BY WriterAssumption DEF Sources
<1> QED BY <1>1, <1>2, <1>4, <1>5, Zenon DEF Control

\* The scan for duplicate names blames every source of a duplicate it saw, so that
\* Apart holds from then on.
LEMMA ScanStep == Inv /\ Scan => Inv'
<1> SUFFICES ASSUME Inv, Scan PROVE Inv'
  OBVIOUS
<1>1. /\ pc = "scan" /\ UNCHANGED <<path, final, content, temp, index, active, record, produced,
                                    ended, fresh, cleanFailed>>
      /\ UNCHANGED <<jobs, results, pending, next, inFlight, msg, after, caller, nextEvent>>
      /\ interrupted' = interrupted
      /\ \/ /\ pc' = "source" /\ outcome' = outcome
            /\ blamed' = [s \in Sources |-> s \in Duplicates(Sources)]
         \/ pc' = "done" /\ outcome' = "invalid" /\ blamed' = blamed
  <2>1. \/ /\ pc' = "source" /\ outcome' = outcome
           /\ blamed' = [s \in Sources |-> s \in Duplicates(Sources)]
        \/ pc' = "done" /\ outcome' = "invalid" /\ blamed' = blamed
    BY Zenon DEF Scan
  <2> QED BY <2>1, Zenon DEF Scan, input, files, pipe
<1>2. Typed /\ Counted /\ Running /\ Published /\ Reported /\ Kept /\ Staged
  BY <1>1, Zenon DEF Inv, Over
<1>3. Outstanding = {} /\ active = NoActive /\ \A s \in Sources : record[s] = "none"
  BY <1>1, NothingYet, Zenon
<1>4. Typed'
  <2>1. blamed' \in [Sources -> BOOLEAN]
    <3>1. [s \in Sources |-> s \in Duplicates(Sources)] \in [Sources -> BOOLEAN]
      OBVIOUS
    <3> QED BY <1>1, <1>2, <3>1, Zenon DEF Typed
  <2>2. pc' \in {"source", "done"}
    BY <1>1, Zenon
  <2> QED BY <1>1, <1>2, <2>1, <2>2, Zenon DEF Typed
<1>5. Counted' /\ Published' /\ Kept'
  BY <1>1, <1>2, Zenon DEF Counted, Published, PublishedComplete, Kept
<1>6. Reported'
  BY <1>1, <1>3, Zenon DEF Reported
<1>7. Staged'
  BY <1>1, <1>2, <1>3, Zenon DEF Staged, Site
<1>8. ASSUME pc' = "source" PROVE Running'
  <2>1. Submitting' = Submitting /\ Place' = Place
    BY <1>1, <1>8, Zenon DEF Submitting, Place, Site
  <2>2. Outstanding' = Outstanding /\ Bound' = Bound /\ Handed' = Handed /\ Arrived' = Arrived
        /\ Made' = Made
    BY <1>1, <2>1, Zenon DEF Outstanding, Handed, Arrived, Offered, Bound, Made
  <2>3. /\ Backlog(Outstanding, next, Bound)'
        /\ Control(Outstanding, Place, index, record, active.src)'
        /\ Tally(Outstanding, Place, index, active.src, Len(active.data), active.failure, Made)'
    BY <1>1, <1>2, <2>1, <2>2, Zenon DEF Running
  <2>4. Identified'
    BY <1>1, <1>2, <2>1, <2>2, Zenon DEF Identified, Running
  <2>5. Placed'
    <3>1. pc /= "commit" /\ pc' /= "commit"
      BY <1>1, <1>8, Zenon
    <3> QED BY <1>1, <1>2, <2>2, <3>1, Zenon DEF Placed, Running
  <2>6. Explained'
    BY <1>1, <1>3, <2>2, Zenon DEF Explained, NoActive
  <2>7. Apart'
    <3> SUFFICES ASSUME NEW s \in Sources, NEW t \in Sources, s /= t, path[s] = path[t],
                        path[s] /= NoName
                 PROVE  blamed'[s]
      BY <1>1, Zenon DEF Apart
    <3>1. s \in Duplicates(Sources)
      BY Zenon DEF Duplicates
    <3> QED BY <1>1, <1>8, <3>1, Zenon
  <2> QED BY <2>3, <2>4, <2>5, <2>6, <2>7, Zenon DEF Running
<1>9. ~Over' => Running'
  BY <1>1, <1>8, Zenon DEF Over
<1> QED BY <1>4, <1>5, <1>6, <1>7, <1>9, Zenon DEF Inv

\* A kill leaves the files as they are; the rest of the call is gone.
LEMMA CrashStep == Inv /\ Crash => Inv'
<1> SUFFICES ASSUME Inv, Crash PROVE Inv'
  OBVIOUS
<1>1. /\ ~Over /\ pc' = "crashed" /\ UNCHANGED kept /\ UNCHANGED thread
      /\ interrupted' = interrupted
  BY Zenon DEF Crash, Over, kept, thread, input, files, pipe, history, budgets
<1>2. Typed /\ Counted /\ Published /\ Reported /\ Kept /\ Staged
  BY Zenon DEF Inv
<1>3. Typed' /\ Over' /\ Site' = "crashed"
  BY <1>1, <1>2, Zenon DEF Typed, Over, Site, kept, thread
<1>4. Counted' /\ Published' /\ Reported' /\ Kept'
  BY <1>1, <1>2, Zenon DEF Counted, Published, PublishedComplete, Reported, Named, Kept, kept,
     thread
<1>5. Staged'
  <2>1. outcome' = "running"
    BY <1>1, <1>2, Zenon DEF Staged, Over, thread
  <2> QED BY <1>1, <1>3, <2>1, Zenon DEF Staged
<1> QED BY <1>3, <1>4, <1>5, Zenon DEF Inv

\* When the window is empty and no event is due, all were committed.
LEMMA AllCommitted ==
  ASSUME Inv, pc = "finish", inFlight = 0
  PROVE  Outstanding = {}
<1>1. /\ Running /\ Typed /\ Counted /\ ~Submitting
      /\ \A m \in pending : m.seq /= next
  BY Zenon DEF Inv, Over, Running, Placed, Submitting, Site
<1>2. results \in Seq(Numbered) /\ Len(results) = 0 /\ Fits(jobs, 0)
  <2>1. results \in Seq(Numbered) /\ Len(results) \in Nat /\ Len(results) <= 0
        /\ Fits(jobs, 0 - Len(results))
    BY <1>1 DEF Typed, Counted
  <2>2. Len(results) = 0 /\ 0 - Len(results) = 0
    BY <2>1
  <2> QED BY <2>1, <2>2, Zenon
<1>3. jobs = {} /\ Arrived = {}
  BY <1>2 DEF Fits, Arrived
<1>4. Outstanding = pending
  BY <1>1, <1>3, Zenon DEF Outstanding, Handed, Offered
<1>5. Backlog(pending, next, Bound)
  BY <1>1, <1>4, Zenon DEF Running
<1>6. ASSUME NEW m \in pending PROVE FALSE
  <2>1. next \in next..(Bound - 1)
    BY <1>5, <1>6 DEF Backlog, Numbered
  <2> QED BY <1>1, <1>5, <2>1, Zenon DEF Backlog
<1> QED BY <1>4, <1>6, Zenon

\* finish: every slot is filled and no source is left half written.
LEMMA FinishOkStep == Inv /\ FinishOk => Inv'
<1> SUFFICES ASSUME Inv, FinishOk PROVE Inv'
  OBVIOUS
<1>1. /\ pc = "finish" /\ inFlight = 0 /\ pc' = "done" /\ UNCHANGED kept
      /\ UNCHANGED <<jobs, results, pending, next, inFlight, msg, after, caller, nextEvent>>
      /\ interrupted' = interrupted /\ outcome' \in {"ok", "profile"}
  BY Zenon DEF FinishOk, kept, input, files, pipe, history
<1>2. Typed /\ Counted /\ Running /\ Published /\ Reported /\ Kept /\ Staged
  BY <1>1, Zenon DEF Inv, Over
<1>3. Control({}, "finish", index, record, active.src)
  <2>1. Place = "finish" /\ Outstanding = {}
    BY <1>1, AllCommitted, Zenon DEF Place, Submitting, Site
  <2> QED BY <1>2, <2>1, Zenon DEF Running
<1>4. index > N /\ index \in Nat /\ \A s \in Sources : s \in Nat /\ s <= N /\ N \in Nat
  BY <1>2, <1>3, WriterAssumption DEF Control, Typed, Sources
<1>5. \A s \in Sources : record[s] /= "none"
  <2>1. \A s \in Sources : s < index
    BY <1>4
  <2> QED BY <1>3, <2>1, Zenon DEF Control, Has
<1>6. active = NoActive
  <2>1. active.src \in 0..N /\ (active.src = 0 => active = NoActive)
    BY <1>2, Zenon DEF Typed
  <2>2. active.src /= 0 => active.src \in Sources
    BY <2>1, WriterAssumption DEF Sources
  <2>3. active.src /= 0 => record[active.src] = "none"
    BY <1>3, Zenon DEF Control
  <2> QED BY <1>5, <2>1, <2>2, <2>3, Zenon
<1>7. ~interrupted
  <2>1. Site = "finish"
    BY <1>1, Zenon DEF Site
  <2> QED BY <1>1, <1>2, <2>1, Zenon DEF Staged
<1>8. Typed' /\ Over'
  BY <1>1, <1>2, Zenon DEF Typed, Over, kept
<1>9. Counted' /\ Published' /\ Reported' /\ Kept'
  BY <1>1, <1>2, Zenon DEF Counted, Published, PublishedComplete, Reported, Named, Kept, kept
<1>10. Staged'
  BY <1>1, <1>5, <1>6, <1>7, Zenon DEF Staged, kept
<1> QED BY <1>8, <1>9, <1>10, Zenon DEF Inv

\* cleanup_unfinished_source.
LEMMA CleanupUnfinishedStep == Inv /\ CleanupUnfinished => Inv'
<1> SUFFICES ASSUME Inv, CleanupUnfinished PROVE Inv'
  OBVIOUS
<1>1. /\ pc = "cleanup" /\ pc' = "done" /\ outcome' = "interrupt" /\ active' = NoActive
      /\ UNCHANGED <<path, final, content, index, record, produced, ended, blamed, fresh>>
      /\ UNCHANGED <<jobs, results, pending, next, inFlight, msg, after, caller, nextEvent>>
  BY Zenon DEF CleanupUnfinished, input, pipe, history
<1>2. Typed /\ Counted /\ Published /\ Reported /\ Kept
  BY Zenon DEF Inv
<1>3. /\ temp' \in [Paths -> {"absent", "stale", "ours"}]
      /\ cleanFailed' \/ \A p \in Paths : temp'[p] /= "ours"
  <2>1. temp \in [Paths -> {"absent", "stale", "ours"}]
    BY <1>2, Zenon DEF Typed
  <2>2. CASE active.src = 0 /\ UNCHANGED <<temp, cleanFailed>>
    BY <1>2, <2>1, <2>2, Zenon DEF Kept
  <2>3. CASE temp' = [temp EXCEPT ![path[active.src]] = "absent"] /\ UNCHANGED cleanFailed
    <3>1. temp' \in [Paths -> {"absent", "stale", "ours"}]
      BY <2>1, <2>3, Zenon
    <3>2. \A p \in Paths : IF p = path[active.src] THEN temp'[p] = "absent"
                                                   ELSE temp'[p] = temp[p]
      BY <2>1, <2>3, Zenon
    <3> QED BY <1>2, <2>3, <3>1, <3>2, Zenon DEF Kept
  <2>4. CASE cleanFailed' = TRUE /\ UNCHANGED temp
    BY <2>1, <2>4, Zenon
  <2> QED BY <2>2, <2>3, <2>4, Zenon DEF CleanupUnfinished, Cleanup
<1>4. Typed' /\ Over'
  <2>1. NoActive \in [src : 0..N, data : Seq(Nat), failure : BOOLEAN]
    BY WriterAssumption DEF NoActive
  <2> QED BY <1>1, <1>2, <1>3, <2>1, Zenon DEF Typed, Over
<1>5. Counted' /\ Published' /\ Reported'
  BY <1>1, <1>2, Zenon DEF Counted, Published, PublishedComplete, Reported, Named
<1>6. Kept' /\ Staged'
  BY <1>1, <1>3, Zenon DEF Kept, Staged
<1> QED BY <1>4, <1>5, <1>6, Zenon DEF Inv

\* Nothing happens.
LEMMA StutterStep == Inv /\ UNCHANGED vars => Inv'
<1> SUFFICES ASSUME Inv, UNCHANGED vars PROVE Inv'
  BY Zenon
<1>1. /\ pc' = pc /\ UNCHANGED kept /\ UNCHANGED thread /\ interrupted' = interrupted
      /\ UNCHANGED <<jobs, results, pending, next, inFlight, msg, after, caller, nextEvent>>
      /\ outcome' = outcome
  BY Zenon DEF vars, kept, thread, input, files, pipe, history, budgets
<1>2. Site' = Site /\ Submitting' = Submitting /\ Place' = Place
  BY <1>1, Zenon DEF Site, Submitting, Place
<1>3. Outstanding' = Outstanding /\ Bound' = Bound /\ Handed' = Handed /\ Arrived' = Arrived
  BY <1>1, <1>2, Zenon DEF Outstanding, Handed, Arrived, Offered, Bound
<1>4. Typed'
  BY <1>1, Zenon DEF Inv, Typed, kept
<1>5. Counted' /\ Published' /\ Reported' /\ Kept'
  BY <1>1, Zenon DEF Inv, Counted, Published, PublishedComplete, Reported, Named, Kept, kept
<1>6. Staged'
  BY <1>1, <1>2, Zenon DEF Inv, Staged, kept
<1>7. ASSUME Running PROVE Running'
  <2>1. Placed' /\ Apart'
    BY <1>1, <1>3, <1>7, Zenon DEF Running, Placed, Apart, kept
  <2>2. /\ Backlog(Outstanding, next, Bound)'
        /\ Control(Outstanding, Place, index, record, active.src)'
        /\ Tally(Outstanding, Place, index, active.src, Len(active.data), active.failure, Made)'
        /\ Identified' /\ Explained' /\ Published' /\ Reported' /\ Kept'
    BY <1>1, <1>2, <1>3, <1>7, Carry, Zenon DEF Inv
  <2> QED BY <2>1, <2>2, Zenon DEF Running
<1>8. ~Over' => Running'
  BY <1>1, <1>7, Zenon DEF Inv, Over
<1> QED BY <1>4, <1>5, <1>6, <1>8, Zenon DEF Inv

-----------------------------------------------------------------------------
(* The calling thread sends an event *)

\* The sample numbered n + 1 appended to the first n gives the first n + 1.
LEMMA CountAppend ==
  ASSUME NEW n \in Nat
  PROVE  /\ Append(Count(n), n + 1) = Count(n + 1)
         /\ Count(n) \in Seq(Nat) /\ Len(Count(n)) = n
<1>1. Count(n) \in Seq(Nat) /\ Len(Count(n)) = n
  BY DEF Count
<1>2. /\ DOMAIN Append(Count(n), n + 1) = 1..(n + 1)
      /\ \A k \in 1..(n + 1) : Append(Count(n), n + 1)[k] = k
  BY DEF Count
<1>3. Append(Count(n), n + 1) \in Seq(Nat)
  BY <1>1
<1>4. Append(Count(n), n + 1) = [k \in 1..(n + 1) |-> Append(Count(n), n + 1)[k]]
  BY <1>2, <1>3
<1> QED BY <1>1, <1>2, <1>4, Zenon DEF Count

\* What the five ingesting steps that send an event have in common.
Sending ==
  /\ pc \in {"source", "iterate"} /\ index \in Sources /\ pc' = "submit"
  /\ msg' \in Events /\ Follows(pc, index, msg', after', index')
  /\ UNCHANGED <<path, final, content, jobs, results, pending, next, inFlight, caller,
                 nextEvent, active, record, outcome, fresh, interrupted, cleanFailed>>

\* How they change the history of the sources and the temporary directories.
Sent ==
  /\ msg'.kind /= "sample" => produced' = produced
  /\ msg'.kind = "sample" =>
       /\ msg'.sample = Len(produced[index]) + 1
       /\ produced' = [produced EXCEPT ![index] = Append(@, Len(produced[index]) + 1)]
  /\ temp' \in [Paths -> {"absent", "stale", "ours"}]
  /\ \A p \in Paths : \/ temp'[p] = temp[p]
                      \/ temp'[p] = "absent" /\ pc = "source" /\ p = path[index]
  /\ blamed' \in [Sources -> BOOLEAN] /\ \A s \in Sources : blamed[s] => blamed'[s]
  /\ ended' \in [Sources -> BOOLEAN] /\ \A s \in Sources : ended[s] => ended'[s]

\* The ingestion sends an event (Send) of the source it is at.
LEMMA SendStep ==
  ASSUME Inv, Sending, Sent, Blamed([seq |-> nextEvent, event |-> msg])'
  PROVE  Inv'
<1> DEFINE x == [seq |-> nextEvent, event |-> msg]
<1>0. /\ pc \in {"source", "iterate"} /\ pc' = "submit"
      /\ UNCHANGED <<path, final, content, jobs, results, pending, next, inFlight, caller,
                     nextEvent, active, record, outcome, fresh, interrupted, cleanFailed>>
  BY Zenon DEF Sending
<1>1. Typed /\ Counted /\ Running /\ Published /\ Reported /\ Kept /\ Staged
  BY <1>0, Zenon DEF Inv, Over
<1>2. /\ Site = pc /\ ~Submitting /\ Place = pc
      /\ Site' = "submit" /\ Submitting' /\ Place' = after'
  BY <1>0, Zenon DEF Site, Submitting, Place
<1>3. Arrived' = Arrived /\ Handed' = Handed
  BY <1>0, Zenon DEF Arrived, Handed
<1>4. /\ Outstanding = Handed /\ Bound = nextEvent
      /\ Outstanding' = Outstanding \cup {x'} /\ Bound' = nextEvent + 1
  BY <1>0, <1>2, <1>3, Zenon DEF Outstanding, Offered, Bound
<1>5. x' \in Numbered /\ x'.event = msg' /\ x'.seq = nextEvent
  BY <1>0, <1>1, Zenon DEF Typed, Numbered, Sending
<1>6. Blamed(x)'
  BY Zenon
<1> HIDE DEF x
<1>7. /\ index \in 1..(N + 1) /\ active.src \in 0..N /\ Len(active.data) \in Nat
      /\ produced \in [Sources -> Seq(Nat)] /\ index \in Nat /\ N \in Nat
      /\ Made \in [Sources -> Nat] /\ \A s \in Sources : Made[s] = Len(produced[s])
  BY <1>1, WriterAssumption DEF Typed, Made, Sources, Sending
<1>8. /\ Backlog(Outstanding, next, nextEvent) /\ Outstanding \subseteq Numbered
      /\ Control(Outstanding, pc, index, record, active.src)
      /\ Tally(Outstanding, pc, index, active.src, Len(active.data), active.failure, Made)
  BY <1>1, <1>2, <1>4, Zenon DEF Running, Backlog
<1>9. index \in Sources /\ msg' \in Events /\ msg'.src = index
      /\ Follows(pc, index, msg', after', index')
  BY Zenon DEF Sending, Follows
<1>10. /\ produced' \in [Sources -> Seq(Nat)]
       /\ \A s \in Sources : s /= index \/ msg'.kind /= "sample" => produced'[s] = produced[s]
       /\ msg'.kind = "sample" =>
            produced'[index] = Append(produced[index], Len(produced[index]) + 1)
  <2>1. CASE msg'.kind /= "sample"
    BY <1>7, <2>1, Zenon DEF Sent
  <2>2. CASE msg'.kind = "sample"
    <3>1. produced' = [produced EXCEPT ![index] = Append(produced[index], Len(produced[index]) + 1)]
      BY <2>2, Zenon DEF Sent
    <3>2. Append(produced[index], Len(produced[index]) + 1) \in Seq(Nat)
      BY <1>7, <1>9
    <3> QED BY <1>7, <1>9, <2>2, <3>1, <3>2, Zenon
  <2> QED BY <2>1, <2>2, Zenon
<1>11. Grows(Made, msg', Made')
  <2>0. \A s \in Sources : Len(produced'[s]) \in Nat
    BY <1>10
  <2>1. \A s \in Sources : Made'[s] = Len(produced'[s])
    BY Zenon DEF Made
  <2>2. Made' \in [Sources -> Nat]
    BY <2>0, Zenon DEF Made
  <2>3. msg'.kind = "sample" => msg'.sample = Len(produced[index]) + 1
    BY Zenon DEF Sent
  <2>4. msg'.kind = "sample" => Len(produced'[index]) = Len(produced[index]) + 1
    BY <1>7, <1>9, <1>10
  <2>5. \A s \in Sources : s /= index \/ msg'.kind /= "sample" => Made'[s] = Made[s]
    BY <1>7, <1>10, <2>1, Zenon
  <2>6. msg'.kind = "sample" =>
          Made'[index] = Made[index] + 1 /\ msg'.sample = Made[index] + 1
    BY <1>7, <1>9, <2>1, <2>3, <2>4, Zenon
  <2> QED BY <1>7, <1>9, <2>2, <2>5, <2>6, Zenon DEF Grows
<1>12. Backlog(Outstanding, next, Bound)'
  <2>1. \A m \in Outstanding : InOrder(m.event, msg')
    BY <1>8, <1>9, <1>11, SentInOrder, Zenon
  <2>2. Backlog(Outstanding \cup {[seq |-> nextEvent, event |-> msg']}, next, nextEvent + 1)
    BY <1>8, <1>9, <2>1, AppendBacklog, Zenon
  <2>3. x' = [seq |-> nextEvent, event |-> msg'] /\ next' = next
    BY <1>0, Zenon DEF x
  <2> QED BY <1>4, <2>2, <2>3, Zenon
<1>13. /\ Follows(pc, index, x'.event, after', index')
       /\ Grows(Made, x'.event, Made')
  BY <1>5, <1>9, <1>11, Zenon
<1>14. /\ Control(Outstanding, Place, index, record, active.src)'
       /\ Tally(Outstanding, Place, index, active.src, Len(active.data), active.failure, Made)'
  <2>1. Control(Outstanding \cup {x'}, after', index', record, active.src)
    BY <1>5, <1>7, <1>8, <1>13, AppendControl, Zenon
  <2>2. Tally(Outstanding \cup {x'}, after', index', active.src, Len(active.data),
              active.failure, Made')
    BY <1>5, <1>7, <1>8, <1>9, <1>13, AppendTally, Zenon
  <2> QED BY <1>0, <1>2, <1>4, <2>1, <2>2, Zenon
<1>15. Identified'
  <2>1. \A s \in Sources : produced[s] = Count(Len(produced[s]))
    BY <1>1, Zenon DEF Running, Identified
  <2>2. ASSUME NEW s \in Sources PROVE produced'[s] = Count(Len(produced'[s]))
    <3>1. CASE s /= index \/ msg'.kind /= "sample"
      BY <1>10, <2>1, <3>1, Zenon
    <3>2. CASE s = index /\ msg'.kind = "sample"
      <4> DEFINE n == Len(produced[index])
      <4>1. n \in Nat /\ produced'[index] = Append(Count(n), n + 1)
        BY <1>7, <1>9, <1>10, <2>1, <3>2
      <4> HIDE DEF n
      <4>2. n + 1 \in Nat
        BY <4>1
      <4>3. produced'[index] = Count(n + 1) /\ Len(Count(n + 1)) = n + 1
        BY <4>1, <4>2, CountAppend, Zenon
      <4> QED BY <3>2, <4>3, Zenon
    <3> QED BY <3>1, <3>2, Zenon
  <2>3. Whole(Outstanding, Place, active.src)
    BY <1>0, <1>2, Zenon DEF Whole
  <2>4. ~active.failure => active.data = Count(Len(active.data))
    BY <1>1, <2>3, Zenon DEF Running, Identified
  <2> QED BY <1>0, <2>2, <2>4, Zenon DEF Identified, Count
<1>16. /\ \A s \in Sources : blamed[s] => blamed'[s]
       /\ \A s \in Sources : ended[s] => ended'[s]
       /\ \A p \in Paths : \/ temp'[p] = temp[p]
                           \/ temp'[p] = "absent" /\ pc = "source" /\ p = path[index]
  BY Zenon DEF Sent
<1>17. Explained'
  <2>1. Explained /\ Apart
    BY <1>1, Zenon DEF Running
  <2>2. ASSUME NEW m \in Outstanding PROVE Blamed(m)'
    <3>1. Blamed(m) /\ m.event.src \in Sources
      BY <1>8, <2>1, Zenon DEF Explained, Numbered, Events
    <3>2. /\ Named(m.event.src) => Named(m.event.src)'
          /\ Named(m.event.src) /\ temp[path[m.event.src]] = "absent" =>
               temp'[path'[m.event.src]] = "absent"
      BY <1>0, <1>16, Zenon DEF Named
    <3>3. Len(produced'[m.event.src]) = 0 => Len(produced[m.event.src]) = 0
      <4>1. msg'.kind = "sample" => Len(produced'[index]) = Len(produced[index]) + 1
        BY <1>7, <1>9, <1>10
      <4>2. Len(produced[index]) + 1 /= 0
        BY <1>7, <1>9
      <4> QED BY <1>10, <3>1, <4>1, <4>2, Zenon
    <3> QED BY <1>0, <1>16, <3>1, <3>2, <3>3, Zenon DEF Blamed
  <2>3. ASSUME active.src /= 0 PROVE Owned(active.src)'
    <3> DEFINE a == active.src
    <3>1. a \in Sources /\ Owned(a) /\ Named(a)
      <4>1. active.src \in Sources
        BY <1>7, <2>3 DEF Sources
      <4> QED BY <2>1, <2>3, <4>1, Zenon DEF Explained, Owned
    <3>2. ASSUME ~blamed[a] PROVE temp'[path[a]] = "ours" /\ final[path[a]] = "absent"
      <4>1. temp[path[a]] = "ours" /\ final[path[a]] = "absent"
        BY <3>1, <3>2, Zenon DEF Owned
      <4>2. pc = "source" => a /= index
        <5>1. pc = "source" => a < index
          BY <1>8, Zenon DEF Control
        <5> QED BY <1>7, <5>1
      <4>3. pc = "source" => path[a] /= path[index]
        <5>1. pc /= "scan"
          BY <1>0, Zenon
        <5> QED BY <1>9, <2>1, <3>1, <3>2, <4>2, <5>1, Zenon DEF Apart, Named
      <4> QED BY <1>16, <3>1, <4>1, <4>3, Zenon DEF Named
    <3>3. active' = active /\ path' = path /\ final' = final
      BY <1>0, Zenon
    <3>4. blamed[a] => blamed'[a]
      BY <1>16, <3>1, Zenon
    <3>5. a' = a
      BY <3>3, Zenon
    <3> HIDE DEF a
    <3>6. Owned(a)'
      BY <3>1, <3>2, <3>3, <3>4, <3>5, Zenon DEF Owned, Named
    <3> QED BY <3>6, Zenon DEF a
  <2>4. active' = active
    BY <1>0, Zenon
  <2> QED BY <1>4, <1>6, <2>2, <2>3, <2>4, Zenon DEF Explained
<1>18. Apart'
  <2>1. pc /= "scan"
    BY <1>0
  <2> QED BY <1>0, <1>1, <1>16, <2>1, Zenon DEF Running, Apart
<1>19. Placed'
  <2>1. pc /= "commit" /\ pc' /= "commit"
    BY <1>0, Zenon
  <2> QED BY <1>0, <1>1, <1>3, <2>1, Zenon DEF Running, Placed
<1>20. Running'
  BY <1>12, <1>14, <1>15, <1>17, <1>18, <1>19, Zenon DEF Running
<1>21. Published'
  <2>1. \A s \in Sources : fresh[s] => produced'[s] = produced[s]
    <3> SUFFICES ASSUME NEW s \in Sources, fresh[s] PROVE s /= index
      BY <1>10, Zenon
    <3>1. record[s] = "success"
      BY <1>1, Zenon DEF Published
    <3>2. s = index => record[s] = "none"
      <4>1. index >= index
        BY <1>7
      <4> QED BY <1>8, <4>1, Zenon DEF Control
    <3> QED BY <3>1, <3>2, Zenon
  <2> QED BY <1>0, <1>1, <1>16, <2>1, Zenon DEF Published, PublishedComplete
<1>22. Reported'
  BY <1>0, <1>1, <1>16, Zenon DEF Reported, Named
<1>23. Kept'
  <2>1. \A p \in Paths : temp'[p] = "ours" => temp[p] = "ours"
    BY <1>16, Zenon
  <2> QED BY <1>0, <1>1, <2>1, Zenon DEF Kept
<1>24. Typed'
  <2>1. index' \in 1..(N + 1) /\ after' \in {"source", "iterate"}
    BY <1>7, <1>9 DEF Sources, Follows
  <2>2. /\ temp' \in [Paths -> {"absent", "stale", "ours"}]
        /\ blamed' \in [Sources -> BOOLEAN] /\ ended' \in [Sources -> BOOLEAN]
    BY Zenon DEF Sent
  <2> QED BY <1>0, <1>1, <1>10, <2>1, <2>2, Zenon DEF Typed
<1>25. Staged' /\ Counted'
  <2>1. ~interrupted /\ outcome = "running"
    BY <1>0, <1>1, <1>2, Zenon DEF Staged
  <2>2. Counted'
    BY <1>0, <1>1, Zenon DEF Counted
  <2>3. Staged'
    BY <1>0, <2>1, Zenon DEF Staged
  <2> QED BY <2>2, <2>3, Zenon
<1> QED BY <1>20, <1>21, <1>22, <1>23, <1>24, <1>25, Zenon DEF Inv

\* The source whose turn it is to be ingested.
LEMMA AtSource ==
  ASSUME Inv, pc \in {"source", "iterate"}, index <= N \/ pc = "iterate"
  PROVE  /\ Typed /\ Running /\ index \in Sources /\ N \in Nat
         /\ path[index] \in Paths \cup {NoName}
         /\ pc = "iterate" => Named(index)
<1>1. Typed /\ Running /\ Place = pc
  BY Zenon DEF Inv, Over, Place, Submitting, Site
<1>2. index \in Sources
  <2>1. pc = "iterate" => index \in Sources
    BY <1>1, Zenon DEF Running, Control
  <2> QED BY <1>1, <2>1, WriterAssumption DEF Typed, Sources
<1>3. path[index] \in Paths \cup {NoName}
  BY <1>1, <1>2, Zenon DEF Typed
<1>4. pc = "iterate" => Named(index)
  <2> SUFFICES ASSUME pc = "iterate" PROVE Named(index)
    BY Zenon
  <2>1. Begun(Outstanding, active.src, index) /\ Explained
    BY <1>1, Zenon DEF Running, Control
  <2>2. CASE active.src = index
    <3>1. index /= 0
      BY <1>2, WriterAssumption DEF Sources
    <3> QED BY <2>1, <2>2, <3>1, Zenon DEF Explained, Owned
  <2>3. CASE Has(Outstanding, index, {"begin"})
    <3>1. PICK m \in Outstanding : m.event.src = index /\ m.event.kind = "begin"
      BY <2>3, Zenon DEF Has
    <3> QED BY <2>1, <3>1, Zenon DEF Explained, Blamed
  <2> QED BY <2>1, <2>2, <2>3, Zenon DEF Begun
<1> QED BY <1>1, <1>2, <1>3, <1>4, WriterAssumption, Zenon

\* Marking a source as failed keeps the others as they are.
LEMMA Blaming ==
  ASSUME Typed, NEW s \in Sources, Blame(s) \/ UNCHANGED blamed
  PROVE  /\ blamed' \in [Sources -> BOOLEAN]
         /\ \A u \in Sources : blamed[u] => blamed'[u]
         /\ Blame(s) => blamed'[s]
<1>1. blamed \in [Sources -> BOOLEAN]
  BY Zenon DEF Typed
<1>2. CASE Blame(s)
  <2>1. blamed' = [blamed EXCEPT ![s] = TRUE]
    BY <1>2, Zenon DEF Blame
  <2>2. blamed' \in [Sources -> BOOLEAN] /\ blamed'[s] = TRUE
    BY <1>1, <2>1, Zenon
  <2>3. \A u \in Sources : u /= s => blamed'[u] = blamed[u]
    BY <1>1, <2>1, Zenon
  <2> QED BY <2>2, <2>3, Zenon
<1>3. CASE UNCHANGED blamed /\ ~Blame(s)
  BY <1>1, <1>3, Zenon
<1> QED BY <1>2, <1>3, Zenon

\* A source that is settled at once.
LEMMA SettleSourceStep == Inv /\ SettleSource => Inv'
<1> SUFFICES ASSUME Inv, SettleSource PROVE Inv'
  OBVIOUS
<1> DEFINE p == path[index]
           exists == p /= NoName /\ final[p] /= "absent"
           reused == exists /\ reuse /\ (validate => final[p] \in {"old", "new"})
<1>1. /\ pc = "source" /\ index <= N /\ pc' = "submit" /\ after' = "source"
      /\ msg' = Event("result", index, reused, 0) /\ index' = index + 1
      /\ reused => UNCHANGED blamed
      /\ ~reused => Blame(index)
      /\ UNCHANGED <<path, final, content, temp, jobs, results, pending, next, inFlight, caller,
                     nextEvent, active, record, outcome, fresh, interrupted, cleanFailed,
                     produced, ended>>
  BY Zenon DEF SettleSource, Send, input, files, pipe, budgets
<1>2. Typed /\ index \in Sources /\ path[index] \in Paths \cup {NoName}
  BY <1>1, AtSource, Zenon
<1>3. reused \in BOOLEAN /\ (reused => Named(index) /\ final[path[index]] /= "absent")
  BY <1>2, Zenon DEF Named
<1> HIDE DEF reused
<1>4. /\ msg' \in Events /\ msg'.kind = "result" /\ msg'.src = index /\ msg'.ok = reused
  BY <1>1, <1>2, <1>3, Zenon DEF Event, Events, EventKinds
<1>5. Sending
  <2>1. Follows(pc, index, msg', after', index')
    BY <1>1, <1>4, Zenon DEF Follows, Opening
  <2> QED BY <1>1, <1>2, <1>4, <2>1, Zenon DEF Sending
<1>6. /\ blamed' \in [Sources -> BOOLEAN]
      /\ \A u \in Sources : blamed[u] => blamed'[u]
      /\ Blame(index) => blamed'[index]
  BY <1>1, <1>2, <1>3, Blaming, Zenon
<1>7. Sent
  <2>1. temp \in [Paths -> {"absent", "stale", "ours"}] /\ ended \in [Sources -> BOOLEAN]
    BY <1>2, Zenon DEF Typed
  <2>2. msg'.kind /= "sample"
    BY <1>4, Zenon
  <2> QED BY <1>1, <1>6, <2>1, <2>2, Zenon DEF Sent
<1>8. Blamed([seq |-> nextEvent, event |-> msg])'
  <2>1. msg'.ok \/ blamed'[index]
    BY <1>1, <1>3, <1>4, <1>6, Zenon
  <2>2. msg'.ok => /\ path'[index] \in Paths /\ path'[index] /= NoName
                   /\ final'[path'[index]] /= "absent"
    BY <1>1, <1>3, <1>4, Zenon DEF Named
  <2> QED BY <1>4, <2>1, <2>2, Zenon DEF Blamed, Named
<1> QED BY <1>5, <1>7, <1>8, SendStep, Zenon

\* A source to write, or one whose stale directory cannot be removed.
LEMMA BeginSourceStep == Inv /\ BeginSource => Inv'
<1> SUFFICES ASSUME Inv, BeginSource PROVE Inv'
  OBVIOUS
<1>1. /\ pc = "source" /\ index <= N /\ pc' = "submit"
      /\ path[index] /= NoName /\ final[path[index]] = "absent"
      /\ \/ /\ temp' = [temp EXCEPT ![path[index]] = "absent"]
            /\ msg' = Event("begin", index, TRUE, 0) /\ after' = "iterate"
            /\ index' = index /\ blamed' = blamed
         \/ /\ msg' = Event("result", index, FALSE, 0) /\ after' = "source"
            /\ index' = index + 1 /\ Blame(index) /\ temp' = temp
      /\ UNCHANGED <<path, final, content, jobs, results, pending, next, inFlight, caller,
                     nextEvent, active, record, outcome, fresh, interrupted, cleanFailed,
                     produced, ended>>
  BY Zenon DEF BeginSource, Send, input, pipe
<1>2. Typed /\ index \in Sources /\ path[index] \in Paths
  BY <1>1, AtSource, Zenon
<1>3. /\ msg' \in Events /\ msg'.kind \in {"result", "begin"} /\ msg'.src = index
      /\ msg'.kind = "begin" => temp' = [temp EXCEPT ![path[index]] = "absent"]
      /\ msg'.kind = "result" => ~msg'.ok /\ Blame(index) /\ temp' = temp
      /\ Blame(index) \/ UNCHANGED blamed
  <2>1. ASSUME NEW kind \in {"result", "begin"}, NEW ok \in BOOLEAN
        PROVE  /\ Event(kind, index, ok, 0) \in Events /\ Event(kind, index, ok, 0).kind = kind
               /\ Event(kind, index, ok, 0).src = index /\ Event(kind, index, ok, 0).ok = ok
    BY <1>2, Zenon DEF Event, Events, EventKinds
  <2>2. CASE msg' = Event("begin", index, TRUE, 0)
    <3>1. msg' \in Events /\ msg'.kind = "begin" /\ msg'.src = index
      BY <2>1, <2>2, Zenon
    <3>2. Event("begin", index, TRUE, 0) /= Event("result", index, FALSE, 0)
      BY Zenon DEF Event
    <3> QED BY <1>1, <2>2, <3>1, <3>2, Zenon
  <2>3. CASE msg' = Event("result", index, FALSE, 0)
    <3>1. msg' \in Events /\ msg'.kind = "result" /\ msg'.src = index /\ msg'.ok = FALSE
      BY <2>1, <2>3, Zenon
    <3>2. Event("begin", index, TRUE, 0) /= Event("result", index, FALSE, 0)
      BY DEF Event
    <3> QED BY <1>1, <2>3, <3>1, <3>2, Zenon
  <2> QED BY <1>1, <2>2, <2>3, Zenon
<1>4. Sending
  <2>1. Follows(pc, index, msg', after', index')
    <3>1. msg' = Event("begin", index, TRUE, 0) => msg'.kind = "begin"
      BY DEF Event
    <3>2. msg' = Event("result", index, FALSE, 0) => msg'.kind = "result"
      BY DEF Event
    <3>3. "begin" \in Opening /\ "result" \notin Opening
      BY DEF Opening
    <3> QED BY <1>1, <1>3, <3>1, <3>2, <3>3, Zenon DEF Follows
  <2> QED BY <1>1, <1>2, <1>3, <2>1, Zenon DEF Sending
<1>5. /\ blamed' \in [Sources -> BOOLEAN]
      /\ \A u \in Sources : blamed[u] => blamed'[u]
      /\ Blame(index) => blamed'[index]
  BY <1>2, <1>3, Blaming, Zenon
<1>6. temp \in [Paths -> {"absent", "stale", "ours"}] /\ ended \in [Sources -> BOOLEAN]
  BY <1>2, Zenon DEF Typed
<1>7. /\ temp' \in [Paths -> {"absent", "stale", "ours"}]
      /\ \A p \in Paths : temp'[p] = temp[p] \/ (temp'[p] = "absent" /\ p = path[index])
      /\ msg'.kind = "begin" => temp'[path[index]] = "absent"
  BY <1>2, <1>3, <1>6, Zenon
<1>8. Sent
  <2>1. msg'.kind /= "sample"
    BY <1>3, Zenon
  <2> QED BY <1>1, <1>5, <1>6, <1>7, <2>1, Zenon DEF Sent
<1>9. Blamed([seq |-> nextEvent, event |-> msg])'
  BY <1>1, <1>2, <1>3, <1>5, <1>7, Zenon DEF Blamed, Named
<1> QED BY <1>4, <1>8, <1>9, SendStep, Zenon

\* The source yields a sample.
LEMMA YieldSampleStep == Inv /\ YieldSample => Inv'
<1> SUFFICES ASSUME Inv, YieldSample PROVE Inv'
  OBVIOUS
<1> DEFINE n == Len(produced[index]) + 1
<1>1. PICK fits \in BOOLEAN :
        /\ pc' = "submit" /\ msg' = Event("sample", index, fits, n) /\ after' = "iterate"
        /\ fits => UNCHANGED blamed
        /\ ~fits => Blame(index)
  BY Zenon DEF YieldSample, Send
<1>2. /\ pc = "iterate" /\ produced' = [produced EXCEPT ![index] = Append(@, n)]
      /\ UNCHANGED <<path, final, content, temp, index, jobs, results, pending, next, inFlight,
                     caller, nextEvent, active, record, outcome, fresh, interrupted,
                     cleanFailed, ended>>
  BY Zenon DEF YieldSample, input, files, pipe, budgets
<1>3. Typed /\ index \in Sources
  BY <1>2, AtSource, Zenon
<1>4. n \in Nat
  BY <1>3 DEF Typed
<1>5. /\ msg' \in Events /\ msg'.kind = "sample" /\ msg'.src = index /\ msg'.ok = fits
      /\ msg'.sample = Len(produced[index]) + 1
  BY <1>1, <1>3, <1>4, Zenon DEF Event, Events, EventKinds
<1>6. Sending
  <2>1. Follows(pc, index, msg', after', index')
    BY <1>1, <1>2, <1>5, Zenon DEF Follows, Opening, Continuing
  <2> QED BY <1>1, <1>2, <1>3, <1>5, <2>1, Zenon DEF Sending
<1>7. /\ blamed' \in [Sources -> BOOLEAN]
      /\ \A u \in Sources : blamed[u] => blamed'[u]
      /\ Blame(index) => blamed'[index]
  BY <1>1, <1>3, Blaming, Zenon
<1>8. Sent
  <2>1. temp \in [Paths -> {"absent", "stale", "ours"}] /\ ended \in [Sources -> BOOLEAN]
    BY <1>3, Zenon DEF Typed
  <2> QED BY <1>2, <1>5, <1>7, <2>1, Zenon DEF Sent
<1>9. Blamed([seq |-> nextEvent, event |-> msg])'
  <2>1. msg'.ok \/ blamed'[index]
    BY <1>1, <1>5, <1>7, Zenon
  <2> QED BY <1>5, <2>1, Zenon DEF Blamed
<1> QED BY <1>6, <1>8, <1>9, SendStep, Zenon

\* The iterator ends, or fails.
LEMMA EndIterationStep == Inv /\ (EndIteration \/ IterationFails) => Inv'
<1> SUFFICES ASSUME Inv, EndIteration \/ IterationFails PROVE Inv'
  BY Zenon
<1>1. /\ pc = "iterate" /\ pc' = "submit" /\ after' = "source" /\ index' = index + 1
      /\ \/ /\ msg' = Event("end", index, TRUE, 0) /\ ended' = [ended EXCEPT ![index] = TRUE]
            /\ produced[index] = <<>> => Blame(index)
         \/ msg' = Event("abort", index, FALSE, 0) /\ ended' = ended /\ Blame(index)
      /\ Blame(index) \/ UNCHANGED blamed
      /\ UNCHANGED <<path, final, content, temp, jobs, results, pending, next, inFlight,
                     caller, nextEvent, active, record, outcome, fresh, interrupted,
                     cleanFailed, produced>>
  BY Zenon DEF EndIteration, IterationFails, Send, input, files, pipe, budgets
<1>2. Typed /\ index \in Sources
  BY <1>1, AtSource, Zenon
<1>3. /\ msg' \in Events /\ msg'.kind \in {"end", "abort"} /\ msg'.src = index
      /\ msg'.kind = "abort" => Blame(index)
      /\ msg'.kind = "end" => /\ ended' = [ended EXCEPT ![index] = TRUE]
                              /\ produced[index] = <<>> => Blame(index)
      /\ ended' = ended \/ ended' = [ended EXCEPT ![index] = TRUE]
  <2>1. ASSUME NEW kind \in {"end", "abort"}, NEW ok \in BOOLEAN
        PROVE  /\ Event(kind, index, ok, 0) \in Events /\ Event(kind, index, ok, 0).kind = kind
               /\ Event(kind, index, ok, 0).src = index
    BY <1>2, Zenon DEF Event, Events, EventKinds
  <2>2. CASE /\ msg' = Event("end", index, TRUE, 0) /\ ended' = [ended EXCEPT ![index] = TRUE]
             /\ produced[index] = <<>> => Blame(index)
    <3>1. msg' \in Events /\ msg'.kind = "end" /\ msg'.src = index
      BY <2>1, <2>2, Zenon
    <3> QED BY <2>2, <3>1, Zenon
  <2>3. CASE msg' = Event("abort", index, FALSE, 0) /\ ended' = ended /\ Blame(index)
    <3>1. msg' \in Events /\ msg'.kind = "abort" /\ msg'.src = index
      BY <2>1, <2>3, Zenon
    <3> QED BY <2>3, <3>1, Zenon
  <2> QED BY <1>1, <2>2, <2>3, Zenon
<1>4. Sending
  <2>1. Follows(pc, index, msg', after', index')
    BY <1>1, <1>3, Zenon DEF Follows, Opening, Continuing
  <2> QED BY <1>1, <1>2, <1>3, <2>1, Zenon DEF Sending
<1>5. /\ blamed' \in [Sources -> BOOLEAN]
      /\ \A u \in Sources : blamed[u] => blamed'[u]
      /\ Blame(index) => blamed'[index]
  BY <1>1, <1>2, Blaming, Zenon
<1>6. /\ ended' \in [Sources -> BOOLEAN] /\ \A u \in Sources : ended[u] => ended'[u]
      /\ msg'.kind = "end" => ended'[index]
  <2>1. ended \in [Sources -> BOOLEAN]
    BY <1>2, Zenon DEF Typed
  <2>2. CASE ended' = [ended EXCEPT ![index] = TRUE]
    <3>1. ended' \in [Sources -> BOOLEAN] /\ ended'[index] = TRUE
      BY <1>2, <2>1, <2>2, Zenon
    <3>2. \A u \in Sources : u /= index => ended'[u] = ended[u]
      BY <2>1, <2>2, Zenon
    <3> QED BY <3>1, <3>2, Zenon
  <2>3. CASE ended' = ended /\ msg'.kind /= "end"
    BY <2>1, <2>3, Zenon
  <2> QED BY <1>3, <2>2, <2>3, Zenon
<1>7. Sent
  <2>1. temp \in [Paths -> {"absent", "stale", "ours"}] /\ msg'.kind /= "sample"
    BY <1>2, <1>3, Zenon DEF Typed
  <2> QED BY <1>1, <1>5, <1>6, <2>1, Zenon DEF Sent
<1>8. Blamed([seq |-> nextEvent, event |-> msg])'
  <2>1. Len(produced'[index]) = 0 => produced[index] = <<>>
    <3>1. produced[index] \in Seq(Nat) /\ produced' = produced
      BY <1>1, <1>2, Zenon DEF Typed
    <3> QED BY <3>1
  <2> QED BY <1>3, <1>5, <1>6, <2>1, Zenon DEF Blamed
<1> QED BY <1>4, <1>7, <1>8, SendStep, Zenon

-----------------------------------------------------------------------------
(* The committer takes the event that is due *)

\* The backlog, seen by the lemmas of this module.
LEMMA View ==
  ASSUME Inv, ~Over
  PROVE  /\ Typed /\ Running /\ index \in 1..(N + 1) /\ active.src \in 0..N
         /\ Len(active.data) \in Nat /\ active.failure \in BOOLEAN /\ Made \in [Sources -> Nat]
         /\ active.src = 0 => active = NoActive
         /\ active.src /= 0 => active.src \in Sources
         /\ Backlog(Outstanding, next, Bound) /\ Outstanding \subseteq Numbered
         /\ Control(Outstanding, Place, index, record, active.src)
         /\ Tally(Outstanding, Place, index, active.src, Len(active.data), active.failure, Made)
<1>1. Typed /\ Running
  BY Zenon DEF Inv
<1>2. /\ index \in 1..(N + 1) /\ active.src \in 0..N
      /\ Len(active.data) \in Nat /\ active.failure \in BOOLEAN
      /\ active.src = 0 => active = NoActive
      /\ active.src /= 0 => active.src \in Sources
  BY <1>1 DEF Typed, Sources
<1>3. Made \in [Sources -> Nat]
  BY <1>1 DEF Typed, Made
<1>4. Backlog(Outstanding, next, Bound) /\ Outstanding \subseteq Numbered
  BY <1>1, Zenon DEF Running, Backlog
<1> QED BY <1>1, <1>2, <1>3, <1>4, Zenon DEF Running

\* The event that is due finds the committer ready for it.
LEMMA Due ==
  ASSUME Inv, pc = "commit", NEW t \in pending, t.seq = next
  PROVE  /\ t \in Outstanding /\ t \in Numbered /\ t.event.src \in Sources /\ Blamed(t)
         /\ t.event.kind \in Continuing => active.src = t.event.src
         /\ t.event.kind \notin Continuing => active.src = 0
         /\ record[t.event.src] = "none"
<1>1. ~Over
  BY Zenon DEF Over
<1>2. /\ Running /\ index \in 1..(N + 1) /\ active.src \in 0..N
      /\ Backlog(Outstanding, next, Bound) /\ Outstanding \subseteq Numbered
      /\ Control(Outstanding, Place, index, record, active.src)
  BY <1>1, View, Zenon
<1>3. t \in Outstanding
  BY Zenon DEF Outstanding, Handed
<1>4. t \in Numbered /\ t.event.src \in Sources /\ Blamed(t)
  BY <1>2, <1>3, Zenon DEF Numbered, Events, Running, Explained
<1>5. /\ t.event.kind \in Continuing => active.src = t.event.src
      /\ t.event.kind \notin Continuing => active.src = 0
      /\ record[t.event.src] = "none" /\ t.event.src \in Sources
      /\ t.event.kind \in Settling => t.event.src < index
  BY <1>2, <1>3, FirstInProtocol, Zenon
<1> QED BY <1>3, <1>4, <1>5, Zenon

\* The event a commit action handles is the one whose turn it is.
LEMMA TurnDue ==
  ASSUME NEW kinds, Ready(kinds), Inv
  PROVE  pc = "commit" /\ Turn \in pending /\ Turn.seq = next /\ Turn.event.kind \in kinds
<1>1. PICK m \in pending : m.seq = next /\ m.event.kind \in kinds
  BY Zenon DEF Ready
<1>2. Turn \in pending /\ Turn.seq = next
  BY <1>1, Zenon DEF Turn
<1>3. pc = "commit"
  BY Zenon DEF Ready
<1>4. Turn = m
  <2>1. Running
    BY <1>3, Zenon DEF Inv, Over
  <2>2. Turn \in Outstanding /\ m \in Outstanding
    BY <1>2, Zenon DEF Outstanding, Handed
  <2> QED BY <1>1, <1>2, <2>1, <2>2, Zenon DEF Running, Backlog
<1> QED BY <1>1, <1>2, <1>3, <1>4, Zenon

\* What the steps of the committer leave alone.
Committing ==
  /\ pc = "commit" /\ Turn \in pending /\ Turn.seq = next /\ pc' = pc /\ Committed
  /\ UNCHANGED <<path, index, msg, after, caller, nextEvent, jobs, results, inFlight, outcome,
                 produced, ended, interrupted>>

\* What they do to the file system: only the paths of source s are touched, and
\* nothing that was published.
Touched(s) ==
  /\ final' \in [Paths -> {"absent", "old", "new", "junk"}]
  /\ content' \in [Paths -> Seq(Nat)]
  /\ temp' \in [Paths -> {"absent", "stale", "ours"}]
  /\ \A p \in Paths : p /= path[s] => temp'[p] = temp[p] /\ final'[p] = final[p]
  /\ \A p \in Paths : final[p] /= "absent" => final'[p] = final[p] /\ content'[p] = content[p]
  /\ blamed' \in [Sources -> BOOLEAN] /\ \A u \in Sources : blamed[u] => blamed'[u]

\* Committing an event takes it out of the backlog and out of pending, and moves
\* next_sequence on.
LEMMA CommitFrame ==
  ASSUME Inv, Committing
  PROVE  /\ Outstanding' = Outstanding \ {Turn} /\ Bound' = Bound /\ Place' = Place
         /\ Site' = Site /\ Made' = Made /\ next' = next + 1
         /\ Backlog(Outstanding, next, Bound)' /\ Placed' /\ Counted'
<1>1. /\ pc = "commit" /\ Turn \in pending /\ Turn.seq = next /\ pc' = pc
      /\ pending' = pending \ {Turn} /\ next' = next + 1
      /\ UNCHANGED <<path, index, msg, after, caller, nextEvent, jobs, results, inFlight, outcome,
                     produced, ended, interrupted>>
  BY Zenon DEF Committing, Committed
<1>2. ~Over
  BY <1>1, Zenon DEF Over
<1>3. Running /\ Counted /\ Typed
  BY <1>2, Zenon DEF Inv
<1>4. Placed /\ Backlog(Outstanding, next, Bound)
  BY <1>3, Zenon DEF Running
<1>5. Site' = Site /\ Submitting' = Submitting /\ Place' = Place /\ Made' = Made
  BY <1>1, Zenon DEF Site, Submitting, Place, Made
<1>6. Arrived' = Arrived /\ Offered' = Offered /\ Bound' = Bound
  BY <1>1, <1>5, Zenon DEF Arrived, Offered, Bound
<1>7. Turn \notin jobs /\ Turn \notin Arrived /\ Turn.seq < nextEvent /\ nextEvent \in Nat
  BY <1>1, <1>3, <1>4, Zenon DEF Placed, Handed, Typed
<1>8. Turn \notin Offered
  BY <1>7 DEF Offered
<1>9. Handed' = Handed \ {Turn}
  BY <1>1, <1>6, <1>7, Zenon DEF Handed
<1>10. Outstanding' = Outstanding \ {Turn}
  BY <1>6, <1>8, <1>9, Zenon DEF Outstanding
<1>11. Turn \in Outstanding
  BY <1>1, Zenon DEF Outstanding, Handed
<1>12. Backlog(Outstanding, next, Bound)'
  <2>1. Backlog(Outstanding \ {Turn}, next + 1, Bound)
    BY <1>1, <1>4, <1>11, CommitBacklog, Zenon
  <2> QED BY <1>1, <1>6, <1>10, <2>1, Zenon
<1>13. Placed'
  BY <1>1, <1>4, <1>6, <1>9, Zenon DEF Placed
<1>14. Counted'
  BY <1>1, <1>3, Zenon DEF Counted
<1> QED BY <1>1, <1>5, <1>6, <1>10, <1>12, <1>13, <1>14, Zenon

\* The other events are still accounted for.
LEMMA CommitExplained ==
  ASSUME Inv, Committing, Touched(Turn.event.src)
  PROVE  /\ \A m \in Outstanding \ {Turn} : Blamed(m)'
         /\ Apart' /\ Staged' /\ (active'.src = 0 \/ Owned(active.src)' => Explained')
<1> DEFINE t == Turn
           s == Turn.event.src
<1>1. /\ pc = "commit" /\ t \in pending /\ t.seq = next /\ pc' = pc
      /\ UNCHANGED <<path, index, msg, after, caller, nextEvent, jobs, results, inFlight, outcome,
                     produced, ended, interrupted>>
  BY Zenon DEF Committing
<1>2. ~Over /\ pc /= "scan"
  BY <1>1, Zenon DEF Over
<1>3. Typed /\ Running /\ Staged
  BY <1>2, Zenon DEF Inv
<1>4. Explained /\ Apart /\ Backlog(Outstanding, next, Bound) /\ Outstanding \subseteq Numbered
  BY <1>3, Zenon DEF Running, Backlog
<1>5. t \in Outstanding /\ s \in Sources
  BY <1>1, Due, Zenon
<1>6. Outstanding' = Outstanding \ {t} /\ Site' = Site
  BY CommitFrame, Zenon
<1>7. /\ \A p \in Paths : p /= path[s] => temp'[p] = temp[p] /\ final'[p] = final[p]
      /\ \A p \in Paths : final[p] /= "absent" => final'[p] /= "absent"
      /\ \A u \in Sources : blamed[u] => blamed'[u]
  BY Zenon DEF Touched
<1> HIDE DEF t, s
<1>8. \A m \in Outstanding \ {t} : m.event.kind = "begin" => m.event.src /= s
  <2>1. \A m \in Outstanding \ {t} : InOrder(t.event, m.event)
    BY <1>1, <1>4, <1>5, CommitBacklog, Zenon
  <2>2. "begin" \notin Continuing
    BY Zenon DEF Continuing
  <2>3. s = t.event.src
    BY Zenon DEF s, t
  <2> QED BY <2>1, <2>2, <2>3, Zenon DEF InOrder
<1>9. ASSUME NEW m \in Outstanding \ {t} PROVE Blamed(m)'
  <2> DEFINE u == m.event.src
  <2>1. Blamed(m) /\ u \in Sources
    BY <1>4, Zenon DEF Explained, Numbered, Events
  <2> HIDE DEF u
  <2>2. /\ Named(u) => Named(u)'
        /\ Named(u) /\ final[path[u]] /= "absent" => final'[path'[u]] /= "absent"
    BY <1>1, <1>7, Zenon DEF Named, u
  <2>3. blamed[u] => blamed'[u]
    BY <1>7, <2>1, Zenon
  <2>4. ASSUME m.event.kind = "begin", Named(u), ~blamed[u]
        PROVE  temp'[path'[u]] = temp[path[u]] /\ final'[path'[u]] = final[path[u]]
    <3>1. u /= s
      BY <1>8, <2>4, Zenon DEF u
    <3>2. path[u] /= path[s]
      BY <1>2, <1>4, <1>5, <2>1, <2>4, <3>1, Zenon DEF Apart, Named
    <3> QED BY <1>1, <1>7, <2>4, <3>2, Zenon DEF Named
  <2>5. UNCHANGED <<produced, ended, path>>
    BY <1>1, Zenon
  <2> QED BY <2>1, <2>2, <2>3, <2>4, <2>5, Zenon DEF Blamed, u
<1>10. Apart'
  BY <1>1, <1>2, <1>4, <1>7, Zenon DEF Apart
<1>11. Staged'
  <2>1. outcome = "running" /\ pc \notin {"scan", "done"}
    BY <1>1, <1>3, Zenon DEF Staged
  <2> QED BY <1>1, <1>3, <1>6, <2>1, Zenon DEF Staged
<1>12. active'.src = 0 \/ Owned(active.src)' => Explained'
  BY <1>6, <1>9, Zenon DEF Explained
<1> QED BY <1>9, <1>10, <1>11, <1>12, Zenon DEF t

\* A settled source has a truthful result, and a published one is complete.
Settled(s, result) ==
  /\ result \in {"success", "error"} /\ record' = [record EXCEPT ![s] = result]
  /\ result = "error" => blamed'[s]
  /\ result = "success" => Named(s) /\ final'[path[s]] /= "absent"
  /\ \/ fresh' = fresh
     \/ /\ fresh' = [fresh EXCEPT ![s] = TRUE] /\ result = "success"
        /\ ended[s] /\ final'[path[s]] = "new" /\ content'[path[s]] = produced[s]
  /\ active' = NoActive

\* A commit that settles its source, with the record it writes explained.
LEMMA SettleStep ==
  ASSUME Inv, Committing, Turn.event.kind \in Settling, Touched(Turn.event.src),
         NEW result, Settled(Turn.event.src, result), Kept'
  PROVE  Inv'
<1> DEFINE t == Turn
           s == Turn.event.src
<1>1. /\ pc = "commit" /\ t \in pending /\ t.seq = next /\ pc' = pc
      /\ pending' = pending \ {t} /\ next' = next + 1
      /\ UNCHANGED <<path, index, msg, after, caller, nextEvent, jobs, results, inFlight, outcome,
                     produced, ended, interrupted>>
  BY Zenon DEF Committing, Committed
<1>2. ~Over
  BY <1>1, Zenon DEF Over
<1>3. /\ Typed /\ Running /\ index \in 1..(N + 1) /\ active.src \in 0..N
      /\ Backlog(Outstanding, next, Bound) /\ Outstanding \subseteq Numbered
      /\ Control(Outstanding, Place, index, record, active.src)
      /\ Tally(Outstanding, Place, index, active.src, Len(active.data), active.failure, Made)
  BY <1>2, View, Zenon
<1>4. Published /\ Reported
  BY Zenon DEF Inv
<1>5. t \in Outstanding /\ s \in Sources /\ record[s] = "none" /\ s = t.event.src
  BY <1>1, Due, Zenon
<1>6. /\ Outstanding' = Outstanding \ {t} /\ Bound' = Bound /\ Place' = Place
      /\ Made' = Made /\ Backlog(Outstanding, next, Bound)' /\ Placed' /\ Counted'
  BY CommitFrame, Zenon
<1>7. /\ Apart' /\ Staged' /\ (active'.src = 0 \/ Owned(active.src)' => Explained')
  BY CommitExplained, Zenon
<1>8. /\ result \in {"success", "error"} /\ record' = [record EXCEPT ![s] = result]
      /\ result = "error" => blamed'[s]
      /\ result = "success" => Named(s) /\ final'[path[s]] /= "absent"
      /\ \/ fresh' = fresh
         \/ /\ fresh' = [fresh EXCEPT ![s] = TRUE] /\ result = "success"
            /\ ended[s] /\ final'[path[s]] = "new" /\ content'[path[s]] = produced[s]
      /\ active' = NoActive
  BY Zenon DEF Settled
<1>9. t.event.kind \in Settling
  BY Zenon
<1>10. /\ final' \in [Paths -> {"absent", "old", "new", "junk"}]
       /\ content' \in [Paths -> Seq(Nat)]
       /\ temp' \in [Paths -> {"absent", "stale", "ours"}]
       /\ \A p \in Paths : final[p] /= "absent" => final'[p] = final[p] /\ content'[p] = content[p]
       /\ blamed' \in [Sources -> BOOLEAN] /\ \A u \in Sources : blamed[u] => blamed'[u]
  BY Zenon DEF Touched
<1> HIDE DEF t, s
<1>11. /\ active'.src = 0 /\ Len(active'.data) = 0 /\ active'.failure = FALSE
       /\ active'.data = <<>> /\ active' \in [src : 0..N, data : Seq(Nat), failure : BOOLEAN]
  BY <1>8, WriterAssumption DEF NoActive
<1>12. /\ record' \in [Sources -> {"none", "success", "error"}] /\ record'[s] = result
       /\ \A u \in Sources : u /= s => record'[u] = record[u]
  BY <1>3, <1>5, <1>8, Zenon DEF Typed
<1>13. /\ fresh' \in [Sources -> BOOLEAN] /\ \A u \in Sources : u /= s => fresh'[u] = fresh[u]
       /\ ~fresh[s]
  <2>1. fresh \in [Sources -> BOOLEAN]
    BY <1>3, Zenon DEF Typed
  <2>2. ~fresh[s]
    BY <1>4, <1>5, Zenon DEF Published
  <2>3. CASE fresh' = [fresh EXCEPT ![s] = TRUE]
    <3>1. fresh' \in [Sources -> BOOLEAN]
      BY <1>5, <2>1, <2>3, Zenon
    <3>2. \A u \in Sources : u /= s => fresh'[u] = fresh[u]
      BY <2>1, <2>3, Zenon
    <3> QED BY <2>2, <3>1, <3>2, Zenon
  <2> QED BY <1>8, <2>1, <2>2, <2>3, Zenon
<1>14. Control(Outstanding, Place, index, record, active.src)'
  <2>1. /\ record'[t.event.src] /= "none"
        /\ \A u \in Sources : u /= t.event.src => record'[u] = record[u]
    BY <1>5, <1>8, <1>12, Zenon
  <2>2. Control(Outstanding \ {t}, Place, index, record', 0)
    BY <1>1, <1>3, <1>5, <1>9, <2>1, SettleControl, Zenon
  <2> QED BY <1>1, <1>6, <1>11, <2>2, Zenon
<1>15. Tally(Outstanding, Place, index, active.src, Len(active.data), active.failure, Made)'
  <2>1. Tally(Outstanding \ {t}, Place, index, 0, 0, FALSE, Made)
    BY <1>3, <1>5, <1>9, SettleTally, Zenon
  <2> QED BY <1>1, <1>6, <1>11, <2>1, Zenon
<1>16. Identified'
  <2>1. Count(0) = <<>>
    BY DEF Count
  <2>2. \A u \in Sources : produced[u] = Count(Len(produced[u]))
    BY <1>3, Zenon DEF Running, Identified
  <2> QED BY <1>1, <1>11, <2>1, <2>2, Zenon DEF Identified, Count
<1>17. Running'
  BY <1>6, <1>7, <1>11, <1>14, <1>15, <1>16, Zenon DEF Running
<1>18. Reported'
  <2> SUFFICES ASSUME NEW u \in Sources
               PROVE  /\ record'[u] = "error" => blamed'[u]
                      /\ record'[u] = "success" => Named(u)' /\ final'[path'[u]] /= "absent"
    BY Zenon DEF Reported
  <2>1. path' = path /\ (Named(u) => Named(u)')
    BY <1>1, Zenon DEF Named
  <2>2. CASE u = s
    <3>1. result = "error" => blamed'[s]
      BY <1>8, Zenon
    <3>2. result = "success" => Named(s) /\ final'[path[s]] /= "absent"
      BY <1>8, Zenon
    <3> QED BY <1>12, <2>1, <2>2, <3>1, <3>2, Zenon
  <2>3. CASE u /= s
    <3>1. record'[u] = record[u]
      BY <1>12, <2>3, Zenon
    <3>2. /\ record[u] = "error" => blamed[u]
          /\ record[u] = "success" => Named(u) /\ final[path[u]] /= "absent"
      BY <1>4, Zenon DEF Reported
    <3>3. blamed[u] => blamed'[u]
      BY <1>10, Zenon
    <3>4. Named(u) /\ final[path[u]] /= "absent" => final'[path[u]] /= "absent"
      BY <1>10, Zenon DEF Named
    <3> QED BY <2>1, <3>1, <3>2, <3>3, <3>4, Zenon
  <2> QED BY <2>2, <2>3, Zenon
<1>19. Published'
  <2> SUFFICES ASSUME NEW u \in Sources, fresh'[u]
               PROVE  /\ ended'[u] /\ final'[path'[u]] = "new"
                      /\ content'[path'[u]] = produced'[u] /\ record'[u] = "success"
    BY Zenon DEF Published, PublishedComplete
  <2>1. CASE u = s
    <3>1. fresh' /= fresh
      BY <1>13, <2>1, Zenon
    <3> QED BY <1>1, <1>8, <1>12, <2>1, <3>1, Zenon
  <2>2. CASE u /= s
    <3>1. fresh[u] /\ record'[u] = record[u]
      BY <1>12, <1>13, <2>2, Zenon
    <3>2. /\ ended[u] /\ final[path[u]] = "new" /\ content[path[u]] = produced[u]
          /\ record[u] = "success"
      BY <1>4, <3>1, Zenon DEF Published, PublishedComplete
    <3>3. path[u] \in Paths
      BY <1>4, <3>2, Zenon DEF Reported, Named
    <3>4. final'[path[u]] = final[path[u]] /\ content'[path[u]] = content[path[u]]
      BY <1>10, <3>2, <3>3, Zenon
    <3> QED BY <1>1, <3>1, <3>2, <3>4, Zenon
  <2> QED BY <2>1, <2>2, Zenon
<1>20. Typed'
  <2>1. pending' \subseteq Numbered
    BY <1>1, <1>3, Zenon DEF Typed
  <2> QED BY <1>1, <1>3, <1>8, <1>10, <1>11, <1>12, <1>13, <2>1, Zenon DEF Typed
<1> QED BY <1>6, <1>7, <1>17, <1>18, <1>19, <1>20, Zenon DEF Inv

\* record_result for a source settled without being written.
LEMMA CommitResultStep == Inv /\ CommitResult => Inv'
<1> SUFFICES ASSUME Inv, CommitResult PROVE Inv'
  OBVIOUS
<1> DEFINE s == Turn.event.src
           result == IF Turn.event.ok THEN "success" ELSE "error"
<1>1. pc = "commit" /\ Turn \in pending /\ Turn.seq = next /\ Turn.event.kind = "result"
  <2>1. Ready({"result"})
    BY Zenon DEF CommitResult
  <2> QED BY <2>1, TurnDue
<1>2. /\ record' = [record EXCEPT ![s] = result]
      /\ UNCHANGED <<path, final, content, temp, pc, index, msg, after, caller, nextEvent, jobs,
                     results, inFlight, active, outcome, produced, ended, blamed, fresh,
                     interrupted, cleanFailed>>
  BY Zenon DEF CommitResult, Record, input, files, history, budgets
<1>3. Committing
  BY <1>1, <1>2, Zenon DEF Committing, CommitResult
<1>4. Typed /\ (active.src = 0 => active = NoActive) /\ Kept
  BY Zenon DEF Inv, Typed
<1>5. Touched(s)
  BY <1>2, <1>4, Zenon DEF Touched, Typed
<1>6. s \in Sources /\ Blamed(Turn) /\ active.src = 0
  <2>1. Turn.event.kind \notin Continuing
    BY <1>1, Zenon DEF Continuing
  <2> QED BY <1>1, <2>1, Due, Zenon
<1>7. Settled(s, result)
  <2>1. IF Turn.event.ok THEN Named(s) /\ final[path[s]] /= "absent" ELSE blamed[s]
    BY <1>1, <1>6, Zenon DEF Blamed
  <2> QED BY <1>2, <1>4, <1>6, <2>1, Zenon DEF Settled
<1>8. Kept'
  BY <1>2, <1>4, Zenon DEF Kept
<1>9. Turn.event.kind \in Settling
  BY <1>1, Zenon DEF Settling
<1> QED BY <1>3, <1>5, <1>7, <1>8, <1>9, SettleStep, Zenon

\* Removing the temporary directory of path p, or failing to.
LEMMA Removal ==
  ASSUME Typed, NEW p,
         \/ Cleanup(p) \/ FaultThenCleanup(p)
         \/ temp' = [temp EXCEPT ![p] = "absent"] /\ UNCHANGED cleanFailed
  PROVE  /\ temp' \in [Paths -> {"absent", "stale", "ours"}]
         /\ \A q \in Paths : q /= p => temp'[q] = temp[q]
         /\ ~cleanFailed' => ~cleanFailed /\ \A q \in Paths : q = p => temp'[q] = "absent"
<1>1. temp \in [Paths -> {"absent", "stale", "ours"}]
  BY Zenon DEF Typed
<1>2. CASE temp' = [temp EXCEPT ![p] = "absent"] /\ cleanFailed' = cleanFailed
  BY <1>1, <1>2, Zenon
<1>3. CASE temp' = temp /\ cleanFailed' = TRUE
  BY <1>1, <1>3, Zenon
<1>4. CASE temp' = [temp EXCEPT ![p] = "ours"] /\ cleanFailed' = TRUE
  BY <1>1, <1>4, Zenon
<1> QED BY <1>2, <1>3, <1>4, Zenon DEF Cleanup, FaultThenCleanup

\* The source being written leaves nothing behind once it is settled.
LEMMA NothingKept ==
  ASSUME Kept, active' = NoActive, NEW p, active.src /= 0, path[active.src] = p,
         \A q \in Paths : q /= p => temp'[q] = temp[q],
         ~cleanFailed' => ~cleanFailed /\ \A q \in Paths : q = p => temp'[q] = "absent"
  PROVE  Kept'
<1>1. ASSUME ~cleanFailed', NEW q \in Paths PROVE temp'[q] /= "ours"
  <2>1. CASE q = p
    BY <1>1, <2>1, Zenon
  <2>2. CASE q /= p
    BY <1>1, <2>2, Zenon DEF Kept
  <2> QED BY <2>1, <2>2, Zenon
<1> QED BY <1>1, Zenon DEF Kept

\* abort_source.
LEMMA CommitAbortStep == Inv /\ CommitAbort => Inv'
<1> SUFFICES ASSUME Inv, CommitAbort PROVE Inv'
  OBVIOUS
<1> DEFINE s == Turn.event.src
<1>1. pc = "commit" /\ Turn \in pending /\ Turn.seq = next /\ Turn.event.kind = "abort"
  <2>1. Ready({"abort"})
    BY Zenon DEF CommitAbort
  <2> QED BY <2>1, TurnDue
<1>2. /\ Cleanup(path[active.src]) /\ record' = [record EXCEPT ![active.src] = "error"]
      /\ active' = NoActive
      /\ UNCHANGED <<path, final, content, pc, index, msg, after, caller, nextEvent, jobs,
                     results, inFlight, outcome, produced, ended, blamed, fresh, interrupted>>
  BY Zenon DEF CommitAbort, SettleFailed, Record, input
<1>3. Committing
  BY <1>1, <1>2, Zenon DEF Committing, CommitAbort
<1>4. Typed /\ Kept
  BY Zenon DEF Inv
<1>5. s \in Sources /\ s /= 0 /\ Blamed(Turn) /\ active.src = s
  <2>1. Turn.event.kind \in Continuing
    BY <1>1, Zenon DEF Continuing
  <2>2. s \in Sources /\ Blamed(Turn) /\ active.src = s
    BY <1>1, <2>1, Due, Zenon
  <2> QED BY <2>2, WriterAssumption DEF Sources
<1> HIDE DEF s
<1>6. /\ temp' \in [Paths -> {"absent", "stale", "ours"}]
      /\ \A q \in Paths : q /= path[s] => temp'[q] = temp[q]
      /\ ~cleanFailed' => ~cleanFailed /\ \A q \in Paths : q = path[s] => temp'[q] = "absent"
  BY <1>2, <1>4, <1>5, Removal, Zenon
<1>7. Touched(s)
  BY <1>2, <1>4, <1>6, Zenon DEF Touched, Typed
<1>8. Settled(s, "error")
  <2>1. blamed[s]
    BY <1>1, <1>5, Zenon DEF Blamed, s
  <2> QED BY <1>2, <1>5, <2>1, Zenon DEF Settled
<1>9. Kept'
  BY <1>2, <1>4, <1>5, <1>6, NothingKept, Zenon
<1>10. Turn.event.kind \in Settling
  BY <1>1, Zenon DEF Settling
<1> QED BY <1>3, <1>7, <1>8, <1>9, <1>10, SettleStep, Zenon DEF s

\* end_source publishes all samples of the source, or its error is the
\* source's own.
LEMMA CommitEndStep == Inv /\ CommitEnd => Inv'
<1> SUFFICES ASSUME Inv, CommitEnd PROVE Inv'
  OBVIOUS
<1> DEFINE s == Turn.event.src
           p == path[s]
           publishable == /\ ~active.failure /\ active.data /= <<>>
                          /\ temp[p] = "ours" /\ final[p] = "absent"
<1>1. pc = "commit" /\ Turn \in pending /\ Turn.seq = next /\ Turn.event.kind = "end"
  <2>1. Ready({"end"})
    BY Zenon DEF CommitEnd
  <2> QED BY <2>1, TurnDue
<1>2. s \in Sources /\ s /= 0 /\ Blamed(Turn) /\ active.src = s /\ Turn \in Outstanding
  <2>1. Turn.event.kind \in Continuing
    BY <1>1, Zenon DEF Continuing
  <2>2. s \in Sources /\ Blamed(Turn) /\ active.src = s /\ Turn \in Outstanding
    BY <1>1, <2>1, Due, Zenon
  <2> QED BY <2>2, WriterAssumption DEF Sources
<1>3. /\ active' = NoActive
      /\ UNCHANGED <<path, pc, index, msg, after, caller, nextEvent, jobs,
                     results, inFlight, outcome, produced, ended, interrupted>>
  BY Zenon DEF CommitEnd, input
<1>4. \/ /\ ~publishable /\ Cleanup(p) /\ record' = [record EXCEPT ![s] = "error"]
         /\ UNCHANGED <<final, content, fresh, blamed>>
      \/ /\ publishable
         /\ final' = [final EXCEPT ![p] = "new"]
         /\ content' = [content EXCEPT ![p] = active.data]
         /\ temp' = [temp EXCEPT ![p] = "absent"]
         /\ fresh' = [fresh EXCEPT ![s] = TRUE]
         /\ record' = [record EXCEPT ![s] = "success"]
         /\ UNCHANGED <<blamed, cleanFailed>>
      \/ /\ publishable /\ FaultThenCleanup(p) /\ record' = [record EXCEPT ![s] = "error"]
         /\ Blame(s) /\ UNCHANGED <<final, content, fresh>>
  BY <1>2, Zenon DEF CommitEnd, SettleFailed, Record
<1>5. Committing
  BY <1>1, <1>3, Zenon DEF Committing, CommitEnd
<1>6. Typed /\ Kept /\ Running
  BY <1>1, Zenon DEF Inv, Over
<1>7. Owned(s) /\ Named(s)
  BY <1>2, <1>6, Zenon DEF Running, Explained, Owned
<1>8. ended[s] /\ (Len(produced[s]) = 0 => blamed[s])
  BY <1>1, <1>2, Zenon DEF Blamed
<1>9. ASSUME ~active.failure PROVE active.data = produced[s]
  <2>1. /\ Backlog(Outstanding, next, Bound) /\ Len(active.data) \in Nat
        /\ Made \in [Sources -> Nat]
        /\ Tally(Outstanding, Place, index, active.src, Len(active.data), active.failure, Made)
    <3>1. ~Over
      BY <1>1, Zenon DEF Over
    <3> QED BY <3>1, View, Zenon
  <2>2. active.failure = FALSE
    BY <1>6, <1>9, Zenon DEF Typed
  <2>3. Tally(Outstanding, Place, index, s, Len(active.data), FALSE, Made)
    BY <1>2, <2>1, <2>2, Zenon
  <2>4. Len(active.data) = Made[s] /\ Whole(Outstanding, Place, s)
    BY <1>1, <1>2, <2>1, <2>3, EndTally, Zenon
  <2>5. active.data = Count(Made[s]) /\ produced[s] = Count(Len(produced[s]))
    BY <1>2, <1>6, <1>9, <2>4, Zenon DEF Running, Identified
  <2> QED BY <1>2, <2>5, Zenon DEF Made
<1> HIDE DEF s, p
<1>10. /\ temp' \in [Paths -> {"absent", "stale", "ours"}]
       /\ \A q \in Paths : q /= p => temp'[q] = temp[q]
       /\ ~cleanFailed' => ~cleanFailed /\ \A q \in Paths : q = p => temp'[q] = "absent"
  <2>1. \/ Cleanup(p) \/ FaultThenCleanup(p)
        \/ temp' = [temp EXCEPT ![p] = "absent"] /\ UNCHANGED cleanFailed
    BY <1>4, Zenon
  <2> QED BY <1>6, <2>1, Removal, Zenon
<1>11. /\ blamed' \in [Sources -> BOOLEAN] /\ \A u \in Sources : blamed[u] => blamed'[u]
       /\ Blame(s) => blamed'[s]
  <2>1. Blame(s) \/ UNCHANGED blamed
    BY <1>4, Zenon
  <2> QED BY <1>2, <1>6, <2>1, Blaming, Zenon
<1>12. /\ final \in [Paths -> {"absent", "old", "new", "junk"}]
       /\ content \in [Paths -> Seq(Nat)] /\ active.data \in Seq(Nat)
       /\ p \in Paths /\ p = path[s]
  BY <1>6, <1>7, Zenon DEF Typed, Named, p
<1>13. Touched(s)
  <2>1. /\ final' \in [Paths -> {"absent", "old", "new", "junk"}]
        /\ content' \in [Paths -> Seq(Nat)]
        /\ \A q \in Paths : q /= p => final'[q] = final[q]
        /\ \A q \in Paths : final[q] /= "absent" => final'[q] = final[q] /\ content'[q] = content[q]
    <3>1. CASE UNCHANGED <<final, content>>
      BY <1>12, <3>1, Zenon
    <3>2. CASE /\ final[p] = "absent" /\ final' = [final EXCEPT ![p] = "new"]
               /\ content' = [content EXCEPT ![p] = active.data]
      BY <1>12, <3>2, Zenon
    <3> QED BY <1>4, <3>1, <3>2, Zenon
  <2> QED BY <1>10, <1>11, <1>12, <2>1, Zenon DEF Touched
<1>14. \E result : Settled(s, result)
  <2>1. CASE /\ ~publishable /\ record' = [record EXCEPT ![s] = "error"]
             /\ UNCHANGED <<fresh, blamed>>
    <3>1. blamed[s]
      <4>1. active.failure \/ temp[p] /= "ours" \/ final[p] /= "absent" => blamed[s]
        BY <1>7, <1>12, Zenon DEF Owned
      <4>2. ~active.failure /\ active.data = <<>> => blamed[s]
        <5>1. Len(<<>>) = 0
          BY Zenon
        <5> QED BY <1>8, <1>9, <5>1, Zenon
      <4> QED BY <2>1, <4>1, <4>2, Zenon
    <3>2. Settled(s, "error")
      BY <1>3, <2>1, <3>1, Zenon DEF Settled
    <3> QED BY <3>2, Zenon
  <2>2. CASE /\ publishable /\ record' = [record EXCEPT ![s] = "error"] /\ Blame(s)
             /\ UNCHANGED fresh
    <3>1. Settled(s, "error")
      BY <1>3, <1>11, <2>2, Zenon DEF Settled
    <3> QED BY <3>1, Zenon
  <2>3. CASE /\ publishable
             /\ final' = [final EXCEPT ![p] = "new"]
             /\ content' = [content EXCEPT ![p] = active.data]
             /\ fresh' = [fresh EXCEPT ![s] = TRUE]
             /\ record' = [record EXCEPT ![s] = "success"]
    <3>1. final'[p] = "new" /\ content'[p] = produced[s]
      BY <1>9, <1>12, <2>3, Zenon
    <3>2. Settled(s, "success")
      BY <1>3, <1>7, <1>8, <1>12, <2>3, <3>1, Zenon DEF Settled
    <3> QED BY <3>2, Zenon
  <2> QED BY <1>4, <2>1, <2>2, <2>3, Zenon
<1>15. Kept'
  BY <1>2, <1>3, <1>6, <1>10, <1>12, NothingKept, Zenon
<1>16. Turn.event.kind \in Settling
  BY <1>1, Zenon DEF Settling
<1> QED BY <1>5, <1>13, <1>14, <1>15, <1>16, SettleStep, Zenon DEF s

\* A step that goes on writing a source.
LEMMA WriteStep ==
  ASSUME Inv, Committing, Touched(Turn.event.src), UNCHANGED <<final, content, record, fresh>>,
         Control(Outstanding, Place, index, record, active.src)',
         Tally(Outstanding, Place, index, active.src, Len(active.data), active.failure, Made)',
         active' \in [src : 0..N, data : Seq(Nat), failure : BOOLEAN], active'.src /= 0,
         ~active'.failure /\ Whole(Outstanding, Place, active.src)' =>
           active'.data = Count(Len(active'.data)),
         Owned(active.src)', Kept'
  PROVE  Inv'
<1>1. /\ pc = "commit" /\ pc' = pc /\ pending' = pending \ {Turn}
      /\ UNCHANGED <<path, index, msg, after, caller, nextEvent, jobs, results, inFlight, outcome,
                     produced, ended, interrupted>>
  BY Zenon DEF Committing, Committed
<1>2. ~Over
  BY <1>1, Zenon DEF Over
<1>3. Typed /\ Running /\ Published /\ Reported
  BY <1>2, Zenon DEF Inv
<1>4. Backlog(Outstanding, next, Bound)' /\ Placed' /\ Counted'
  BY CommitFrame, Zenon
<1>5. Apart' /\ Staged' /\ (active'.src = 0 \/ Owned(active.src)' => Explained')
  BY CommitExplained, Zenon
<1>6. Identified'
  <2>1. \A u \in Sources : produced[u] = Count(Len(produced[u]))
    BY <1>3, Zenon DEF Running, Identified
  <2> QED BY <1>1, <2>1, Zenon DEF Identified, Count
<1>7. /\ temp' \in [Paths -> {"absent", "stale", "ours"}]
      /\ blamed' \in [Sources -> BOOLEAN] /\ \A u \in Sources : blamed[u] => blamed'[u]
  BY Zenon DEF Touched
<1>8. Published' /\ Reported'
  BY <1>1, <1>3, <1>7, Zenon DEF Published, PublishedComplete, Reported, Named
<1>9. Typed'
  <2>1. pending' \subseteq Numbered
    BY <1>1, <1>3, Zenon DEF Typed
  <2> QED BY <1>1, <1>3, <1>7, <2>1, Zenon DEF Typed
<1>10. Running'
  BY <1>4, <1>5, <1>6, Zenon DEF Running
<1> QED BY <1>4, <1>5, <1>8, <1>9, <1>10, Zenon DEF Inv

\* begin_source: the temporary directory is created, or the source is to blame.
LEMMA CommitBeginStep == Inv /\ CommitBegin => Inv'
<1> SUFFICES ASSUME Inv, CommitBegin PROVE Inv'
  OBVIOUS
<1> DEFINE s == Turn.event.src
           p == path[s]
<1>1. pc = "commit" /\ Turn \in pending /\ Turn.seq = next /\ Turn.event.kind = "begin"
  <2>1. Ready({"begin"})
    BY Zenon DEF CommitBegin
  <2> QED BY <2>1, TurnDue
<1>2. s \in Sources /\ s /= 0 /\ Blamed(Turn) /\ active.src = 0 /\ Turn \in Outstanding
  <2>1. Turn.event.kind \notin Continuing
    BY <1>1, Zenon DEF Continuing
  <2>2. s \in Sources /\ Blamed(Turn) /\ active.src = 0 /\ Turn \in Outstanding
    BY <1>1, <2>1, Due, Zenon
  <2> QED BY <2>2, WriterAssumption DEF Sources
<1>3. UNCHANGED <<path, pc, index, msg, after, caller, nextEvent, jobs, results, inFlight,
                  outcome, produced, ended, interrupted, final, content, record, fresh>>
  BY Zenon DEF CommitBegin, input
<1>4. PICK broken \in BOOLEAN :
        /\ active' = [src |-> s, data |-> <<>>, failure |-> broken]
        /\ \/ /\ ~broken /\ temp[p] = "absent" /\ temp' = [temp EXCEPT ![p] = "ours"]
              /\ UNCHANGED <<blamed, cleanFailed>>
           \/ broken /\ temp[p] /= "absent" /\ Cleanup(p) /\ UNCHANGED blamed
           \/ broken /\ FaultThenCleanup(p) /\ Blame(s)
  BY Zenon DEF CommitBegin
<1>5. Committing
  BY <1>1, <1>3, Zenon DEF Committing, CommitBegin
<1>6. Typed /\ Kept
  BY Zenon DEF Inv
<1>7. Named(s) /\ (~blamed[s] => temp[p] = "absent" /\ final[p] = "absent")
  BY <1>1, <1>2, Zenon DEF Blamed
<1> HIDE DEF s, p
<1>8. p \in Paths /\ p = path[s] /\ temp \in [Paths -> {"absent", "stale", "ours"}]
  BY <1>6, <1>7, Zenon DEF Typed, Named, p
<1>9. /\ temp' \in [Paths -> {"absent", "stale", "ours"}]
      /\ \A q \in Paths : q /= p => temp'[q] = temp[q]
      /\ ~cleanFailed' => ~cleanFailed
      /\ ~broken => temp'[p] = "ours"
  <2>1. CASE ~broken
    BY <1>4, <1>8, <2>1
  <2>2. CASE broken
    <3>1. Cleanup(p) \/ FaultThenCleanup(p)
      BY <1>4, <2>2, Zenon
    <3> QED BY <1>6, <2>2, <3>1, Removal, Zenon
  <2> QED BY <2>1, <2>2, Zenon
<1>10. /\ blamed' \in [Sources -> BOOLEAN] /\ \A u \in Sources : blamed[u] => blamed'[u]
       /\ Blame(s) => blamed'[s]
  <2>1. Blame(s) \/ UNCHANGED blamed
    BY <1>4, Zenon
  <2> QED BY <1>2, <1>6, <2>1, Blaming, Zenon
<1>11. Touched(s)
  BY <1>3, <1>6, <1>8, <1>9, <1>10, Zenon DEF Touched, Typed
<1>12. broken => blamed'[s]
  <2>1. broken => blamed[s] \/ Blame(s)
    BY <1>4, <1>7, Zenon
  <2> QED BY <1>2, <1>10, <2>1, Zenon
<1>13. /\ active'.src = s /\ active'.data = <<>> /\ active'.failure = broken
       /\ Len(active'.data) = 0
       /\ active' \in [src : 0..N, data : Seq(Nat), failure : BOOLEAN]
  <2>1. active' = [src |-> s, data |-> <<>>, failure |-> broken]
    BY <1>4, Zenon
  <2>2. s \in 0..N /\ <<>> \in Seq(Nat) /\ Len(<<>>) = 0
    BY <1>2, WriterAssumption DEF Sources
  <2> QED BY <2>1, <2>2, Zenon
<1>14. Owned(active.src)'
  <2>1. path' = path /\ final' = final
    BY <1>3, Zenon
  <2>2. ~blamed'[s] => ~blamed[s] /\ ~broken
    BY <1>2, <1>10, <1>12, Zenon
  <2>3. ~blamed'[s] => final'[path'[s]] = "absent" /\ temp'[path'[s]] = "ours"
    BY <1>7, <1>8, <1>9, <2>1, <2>2, Zenon
  <2>4. path'[s] \in Paths /\ path'[s] /= NoName
    BY <1>7, <2>1, Zenon DEF Named
  <2> QED BY <1>12, <1>13, <2>3, <2>4, Zenon DEF Owned, Named
<1>15. Kept'
  <2>1. \A q \in Paths : ~cleanFailed' /\ q /= p => temp'[q] /= "ours"
    BY <1>2, <1>6, <1>9, Zenon DEF Kept
  <2>2. path'[active'.src] = p /\ active'.src /= 0
    BY <1>2, <1>3, <1>8, <1>13, Zenon
  <2> QED BY <2>1, <2>2, Zenon DEF Kept
<1>16. ~Over
  BY <1>1, Zenon DEF Over
<1>17. /\ index \in 1..(N + 1) /\ active.src \in 0..N /\ Made \in [Sources -> Nat]
       /\ Backlog(Outstanding, next, Bound) /\ Outstanding \subseteq Numbered
       /\ Control(Outstanding, Place, index, record, active.src)
       /\ Tally(Outstanding, Place, index, active.src, Len(active.data), active.failure, Made)
  BY <1>16, View, Zenon
<1>18. Outstanding' = Outstanding \ {Turn} /\ Place' = Place /\ Made' = Made
  BY <1>5, CommitFrame, Zenon
<1>19. Control(Outstanding, Place, index, record, active.src)'
  <2>1. Control(Outstanding \ {Turn}, Place, index, record, Turn.event.src)
    BY <1>1, <1>2, <1>17, BeginControl, Zenon
  <2>2. Control(Outstanding \ {Turn}, Place, index, record, s)
    BY <2>1, Zenon DEF s
  <2> QED BY <1>3, <1>13, <1>18, <2>2, Zenon
<1>20. Tally(Outstanding, Place, index, active.src, Len(active.data), active.failure, Made)'
  <2>1. Tally(Outstanding \ {Turn}, Place, index, Turn.event.src, 0, broken, Made)
    BY <1>1, <1>2, <1>17, BeginTally, Zenon
  <2>2. Tally(Outstanding \ {Turn}, Place, index, s, 0, broken, Made)
    BY <2>1, Zenon DEF s
  <2> QED BY <1>3, <1>13, <1>18, <2>2, Zenon
<1>21. active'.data = Count(Len(active'.data)) /\ active'.src /= 0
  <2>1. Count(0) = <<>>
    BY DEF Count
  <2> QED BY <1>2, <1>13, <2>1, Zenon
<1>22. UNCHANGED <<final, content, record, fresh>> /\ Touched(Turn.event.src)
  BY <1>3, <1>11, Zenon DEF s
<1> QED BY <1>5, <1>13, <1>14, <1>15, <1>19, <1>20, <1>21, <1>22, WriteStep, Zenon

\* push_sample: the sample is appended, dropped after a failure, or fails the source.
LEMMA CommitSampleStep == Inv /\ CommitSample => Inv'
<1> SUFFICES ASSUME Inv, CommitSample PROVE Inv'
  OBVIOUS
<1> DEFINE s == Turn.event.src
           p == path[s]
           d == Len(active.data)
<1>1. pc = "commit" /\ Turn \in pending /\ Turn.seq = next /\ Turn.event.kind = "sample"
  <2>1. Ready({"sample"})
    BY Zenon DEF CommitSample
  <2> QED BY <2>1, TurnDue
<1>2. /\ s \in Sources /\ s /= 0 /\ Blamed(Turn) /\ active.src = s /\ Turn \in Outstanding
      /\ Turn \in Numbered
  <2>1. Turn.event.kind \in Continuing
    BY <1>1, Zenon DEF Continuing
  <2>2. s \in Sources /\ Blamed(Turn) /\ active.src = s /\ Turn \in Outstanding /\ Turn \in Numbered
    BY <1>1, <2>1, Due, Zenon
  <2> QED BY <2>2, WriterAssumption DEF Sources
<1>3. UNCHANGED <<path, pc, index, msg, after, caller, nextEvent, jobs, results, inFlight,
                  outcome, produced, ended, interrupted, final, content, record, fresh>>
  BY Zenon DEF CommitSample, input
<1>4. \/ active.failure /\ UNCHANGED <<active, temp, blamed, cleanFailed>>
      \/ /\ ~active.failure
         /\ active' = [active EXCEPT !.data = Append(@, Turn.event.sample)]
         /\ UNCHANGED <<temp, blamed, cleanFailed>>
      \/ /\ ~active.failure /\ ~Turn.event.ok /\ active' = [active EXCEPT !.failure = TRUE]
         /\ Cleanup(p) /\ UNCHANGED blamed
      \/ /\ ~active.failure /\ active' = [active EXCEPT !.failure = TRUE]
         /\ FaultThenCleanup(p) /\ Blame(s)
  BY <1>2, Zenon DEF CommitSample
<1>5. Committing
  BY <1>1, <1>3, Zenon DEF Committing, CommitSample
<1>6. ~Over
  BY <1>1, Zenon DEF Over
<1>7. /\ Typed /\ Running /\ index \in 1..(N + 1) /\ active.src \in 0..N /\ d \in Nat
      /\ active.failure \in BOOLEAN /\ Made \in [Sources -> Nat]
      /\ Backlog(Outstanding, next, Bound) /\ Outstanding \subseteq Numbered
      /\ Control(Outstanding, Place, index, record, active.src)
      /\ Tally(Outstanding, Place, index, active.src, d, active.failure, Made)
  BY <1>6, View, Zenon
<1>8. Kept /\ Owned(s) /\ Named(s)
  BY <1>2, <1>7, Zenon DEF Inv, Running, Explained, Owned
<1>9. Turn.event.ok \/ blamed[s]
  BY <1>1, <1>2, Zenon DEF Blamed
<1>10. /\ Outstanding' = Outstanding \ {Turn} /\ Place' = Place /\ Made' = Made
  BY <1>5, CommitFrame, Zenon
<1>11. Control(Outstanding \ {Turn}, Place, index, record, s)
  BY <1>1, <1>2, <1>7, SampleControl, Zenon
<1>12. /\ FirstSample(Outstanding, next, Bound, Place, index, record, s, Turn)
       /\ Tally(Outstanding, Place, index, s, d, active.failure, Made)
  BY <1>1, <1>2, <1>7, Zenon DEF FirstSample
<1>13. active \in [src : 0..N, data : Seq(Nat), failure : BOOLEAN] /\ Turn.event.sample \in Nat
  BY <1>2, <1>7, Zenon DEF Typed, Numbered, Events
<1> HIDE DEF s, p
<1>14. \/ /\ active'.failure = TRUE /\ active'.data = active.data
       \/ /\ ~active.failure /\ active'.failure = FALSE
          /\ active'.data = Append(active.data, Turn.event.sample)
          /\ UNCHANGED <<temp, blamed, cleanFailed>>
  <2>1. CASE active.failure /\ active' = active
    BY <1>13, <2>1, Zenon
  <2>2. CASE active' = [active EXCEPT !.failure = TRUE]
    BY <1>13, <2>2, Zenon
  <2>3. CASE /\ ~active.failure /\ UNCHANGED <<temp, blamed, cleanFailed>>
             /\ active' = [active EXCEPT !.data = Append(@, Turn.event.sample)]
    <3>1. active.failure = FALSE
      BY <1>13, <2>3, Zenon
    <3> QED BY <1>13, <2>3, <3>1, Zenon
  <2> QED BY <1>4, <2>1, <2>2, <2>3, Zenon
<1>15. active' \in [src : 0..N, data : Seq(Nat), failure : BOOLEAN] /\ active'.src = s
  <2>1. CASE active' = active
    BY <1>2, <1>13, <2>1, Zenon
  <2>2. CASE active' = [active EXCEPT !.failure = TRUE]
    BY <1>2, <1>13, <2>2, Zenon
  <2>3. CASE active' = [active EXCEPT !.data = Append(@, Turn.event.sample)]
    <3>1. Append(active.data, Turn.event.sample) \in Seq(Nat)
      BY <1>13
    <3> QED BY <1>2, <1>13, <2>3, <3>1, Zenon
  <2> QED BY <1>4, <2>1, <2>2, <2>3, Zenon
<1>16. p \in Paths /\ p = path[s] /\ temp \in [Paths -> {"absent", "stale", "ours"}]
  BY <1>7, <1>8, Zenon DEF Typed, Named, p
<1>17. /\ temp' \in [Paths -> {"absent", "stale", "ours"}]
       /\ \A q \in Paths : q /= p => temp'[q] = temp[q]
       /\ ~cleanFailed' => ~cleanFailed
  <2>1. CASE UNCHANGED <<temp, cleanFailed>>
    BY <1>16, <2>1, Zenon
  <2>2. CASE Cleanup(p) \/ FaultThenCleanup(p)
    BY <1>7, <2>2, Removal, Zenon
  <2> QED BY <1>4, <2>1, <2>2, Zenon
<1>18. /\ blamed' \in [Sources -> BOOLEAN] /\ \A u \in Sources : blamed[u] => blamed'[u]
       /\ Blame(s) => blamed'[s]
  <2>1. Blame(s) \/ UNCHANGED blamed
    BY <1>4, Zenon
  <2> QED BY <1>2, <1>7, <2>1, Blaming, Zenon
<1>19. Touched(s)
  BY <1>3, <1>7, <1>16, <1>17, <1>18, Zenon DEF Touched, Typed
<1>20. /\ active'.failure => blamed'[s]
       /\ ~blamed'[s] => temp' = temp
  <2>1. active.failure => blamed[s]
    BY <1>8, Zenon DEF Owned
  <2>2. \/ active.failure \/ ~Turn.event.ok \/ Blame(s)
        \/ active' = [active EXCEPT !.data = Append(@, Turn.event.sample)] /\ temp' = temp
    BY <1>4, Zenon
  <2>3. active' = [active EXCEPT !.data = Append(@, Turn.event.sample)] =>
          active'.failure = active.failure
    BY <1>13, Zenon
  <2>4. active.failure => temp' = temp
    BY <1>4, Zenon
  <2> QED BY <1>2, <1>9, <1>18, <2>1, <2>2, <2>3, <2>4, Zenon
<1>21. Owned(active.src)'
  <2>1. path' = path /\ final' = final
    BY <1>3, Zenon
  <2>2. ~blamed'[s] => final'[path'[s]] = "absent" /\ temp'[path'[s]] = "ours"
    BY <1>2, <1>8, <1>18, <1>20, <2>1, Zenon DEF Owned
  <2>3. path'[s] \in Paths /\ path'[s] /= NoName
    BY <1>8, <2>1, Zenon DEF Named
  <2> QED BY <1>15, <1>20, <2>2, <2>3, Zenon DEF Owned, Named
<1>22. Kept'
  <2>1. \A q \in Paths : ~cleanFailed' /\ q /= p => temp'[q] /= "ours"
    BY <1>2, <1>8, <1>16, <1>17, Zenon DEF Kept
  <2>2. path'[active'.src] = p /\ active'.src /= 0
    BY <1>2, <1>3, <1>15, <1>16, Zenon
  <2> QED BY <2>1, <2>2, Zenon DEF Kept
<1>23. Control(Outstanding, Place, index, record, active.src)'
  BY <1>3, <1>10, <1>11, <1>15, Zenon
<1>24. Tally(Outstanding, Place, index, active.src, Len(active.data), active.failure, Made)'
  <2>1. /\ Tally(Outstanding \ {Turn}, Place, index, s, d, TRUE, Made)
        /\ active.failure = FALSE =>
             Tally(Outstanding \ {Turn}, Place, index, s, d + 1, FALSE, Made)
    BY <1>7, <1>12, SampleTally, Zenon
  <2>2. CASE active'.failure = TRUE /\ active'.data = active.data
    BY <1>3, <1>10, <1>15, <2>1, <2>2, Zenon
  <2>3. CASE /\ ~active.failure /\ active'.failure = FALSE
             /\ active'.data = Append(active.data, Turn.event.sample)
    <3>1. Len(active'.data) = d + 1 /\ active.failure = FALSE
      BY <1>13, <2>3
    <3> QED BY <1>3, <1>10, <1>15, <2>1, <2>3, <3>1, Zenon
  <2> QED BY <1>14, <2>2, <2>3, Zenon
<1>25. ~active'.failure /\ Whole(Outstanding, Place, active.src)' =>
         active'.data = Count(Len(active'.data))
  <2> SUFFICES ASSUME ~active'.failure, Whole(Outstanding, Place, active.src)'
               PROVE  active'.data = Count(Len(active'.data))
    BY Zenon
  <2>1. active.failure = FALSE /\ active'.data = Append(active.data, Turn.event.sample)
    BY <1>13, <1>14, Zenon
  <2>2. Whole(Outstanding \ {Turn}, Place, s)
    BY <1>10, <1>15, Zenon
  <2>3. Whole(Outstanding, Place, s)
    BY <2>2, WholeBefore, Zenon
  <2>4. Tally(Outstanding, Place, index, s, d, FALSE, Made)
    BY <1>12, <2>1, Zenon
  <2>5. NextSample(Turn, d)
    BY <1>7, <1>12, <2>3, <2>4, SampleNext, Zenon
  <2>6. active.data = Count(d)
    BY <1>2, <1>7, <2>1, <2>3, Zenon DEF Running, Identified
  <2> HIDE DEF d
  <2>7. d + 1 \in Nat
    BY <1>7
  <2>8. active'.data = Count(d + 1) /\ Len(Count(d + 1)) = d + 1
    BY <1>7, <2>1, <2>5, <2>6, <2>7, CountAppend, Zenon DEF NextSample
  <2> QED BY <2>8, Zenon
<1>26. UNCHANGED <<final, content, record, fresh>> /\ Touched(Turn.event.src) /\ active'.src /= 0
  BY <1>2, <1>3, <1>15, <1>19, Zenon DEF s
<1> QED BY <1>5, <1>15, <1>21, <1>22, <1>23, <1>24, <1>25, <1>26, WriteStep, Zenon

-----------------------------------------------------------------------------
(* The theorems *)

\* Every step of the calling thread and of the pool, a kill and another call
\* keep the invariant.
LEMMA NextStep == Inv /\ [Next]_vars => Inv'
<1> SUFFICES ASSUME Inv, [Next]_vars PROVE Inv'
  BY Zenon
<1>1. CASE Ingest
  <2>1. \/ Scan \/ SettleSource \/ BeginSource \/ YieldSample \/ IngestDone
        \/ SourceInterrupted \/ IterationInterrupted \/ EndIteration \/ IterationFails
    BY <1>1, Zenon DEF Ingest
  <2> QED BY <2>1, ScanStep, SettleSourceStep, BeginSourceStep, YieldSampleStep,
             IngestDoneStep, GiveUpStep, EndIterationStep, Zenon
<1>2. CASE Commit
  BY <1>2, CommitResultStep, CommitBeginStep, CommitSampleStep, CommitEndStep,
     CommitAbortStep, CommitDoneStep, Zenon DEF Commit
<1>3. CASE ReceiveInterrupted
  BY <1>3, DropStep, GiveUpStep, Zenon
<1>4. CASE Submit \/ Receive \/ FinishOk \/ DrainDone \/ CleanupUnfinished
  BY <1>4, SubmitStep, ReceiveStep, FinishOkStep, GiveUpStep, CleanupUnfinishedStep, Zenon
<1>5. CASE RunJob \/ Crash \/ CallAgain
  BY <1>5, RunJobStep, CrashStep, CallAgainStep, Zenon
<1>6. CASE UNCHANGED vars
  BY <1>6, StutterStep, Zenon
<1> QED BY <1>1, <1>2, <1>3, <1>4, <1>5, <1>6, Zenon DEF Next, CallStep, Stopped

\* The invariant holds throughout, for any number of sources, samples, workers,
\* faults, interrupts and calls.
THEOREM Invariance == Spec => []Inv
BY InitInv, NextStep, PTL DEF Spec

\* What write_cache published is complete: a cache that CommitEnd renamed into
\* place holds all the samples of its source, in order, and the source ended.
THEOREM PublishedCompleteHolds == Spec => []PublishedComplete
<1>1. Inv => PublishedComplete
  BY Zenon DEF Inv, Published
<1> QED BY <1>1, Invariance, PTL

\* The committer never meets an event it cannot accept: no WorkerFailed branch of
\* begin_source, push_sample, finish_source and record_result is reached.
THEOREM CommitterProtocolHolds == Spec => []CommitterProtocol
<1>1. Inv => CommitterProtocol
  <2> SUFFICES ASSUME Inv, pc = "commit", NEW m \in pending, m.seq = next
               PROVE  /\ m.event.kind = "begin" => active = NoActive
                      /\ m.event.kind \in {"sample", "end", "abort"} => active.src = m.event.src
                      /\ m.event.kind \in {"result", "end", "abort"} => record[m.event.src] = "none"
    BY Zenon DEF CommitterProtocol
  <2>1. /\ m.event.kind \in Continuing => active.src = m.event.src
        /\ m.event.kind \notin Continuing => active.src = 0
        /\ record[m.event.src] = "none"
    BY Due, Zenon
  <2>2. active.src = 0 => active = NoActive
    BY Zenon DEF Inv, Typed
  <2> QED BY <2>1, <2>2, Zenon DEF Continuing
<1> QED BY <1>1, Invariance, PTL

\* When write_cache returns, interrupted or not, no temporary directory of its own
\* is left, unless removing one failed.
THEOREM TempCleanedHolds == Spec => []TempCleaned
<1>1. Inv => TempCleaned
  <2>1. NoActive.src = 0
    BY Zenon DEF NoActive
  <2> QED BY <2>1, Zenon DEF Inv, Kept, Staged, TempCleaned
<1> QED BY <1>1, Invariance, PTL

\* When write_cache returns a list, each source has its result, and the errors are
\* those of sources something went wrong with.
THEOREM HonestResultsHolds == Spec => []HonestResults
<1>1. Inv => HonestResults
  <2> SUFFICES ASSUME Inv, outcome \in {"ok", "profile"}, NEW s \in Sources
               PROVE  /\ record[s] \in {"success", "error"}
                      /\ record[s] = "error" => blamed[s] /\ ~fresh[s]
                      /\ record[s] = "success" => path[s] /= NoName /\ final[path[s]] /= "absent"
    BY Zenon DEF HonestResults
  <2>1. record[s] /= "none"
    BY Zenon DEF Inv, Staged
  <2>2. record[s] \in {"none", "success", "error"}
    BY Zenon DEF Inv, Typed
  <2>3. /\ record[s] = "error" => blamed[s]
        /\ record[s] = "success" => path[s] /= NoName /\ final[path[s]] /= "absent"
    BY Zenon DEF Inv, Reported, Named
  <2>4. fresh[s] => record[s] = "success"
    BY Zenon DEF Inv, Published
  <2>5. record[s] = "error" => ~fresh[s]
    BY <2>4, Zenon
  <2> QED BY <2>1, <2>2, <2>3, <2>5, Zenon
<1> QED BY <1>1, Invariance, PTL

\* An interrupt seen by check_signals ends the call as an interrupt.
THEOREM InterruptPropagatesHolds == Spec => []InterruptPropagates
<1>1. Inv => InterruptPropagates
  <2> SUFFICES ASSUME Inv, interrupted, pc = "done" PROVE outcome = "interrupt"
    BY Zenon DEF InterruptPropagates
  <2>1. Site = "done"
    BY Zenon DEF Site
  <2>2. \/ Site \in {"incomplete", "cleanup", "crashed"}
        \/ pc = "done" /\ outcome = "interrupt"
    BY Zenon DEF Inv, Staged
  <2> QED BY <2>1, <2>2, Zenon
<1> QED BY <1>1, Invariance, PTL

\* No step changes or removes what is under a cache path: the rename of
\* finish_source is the only write, and its target is absent.
THEOREM PublishedImmutableHolds == Spec => PublishedImmutable
<1> DEFINE Kept1 == \A p \in Paths : final[p] /= "absent" =>
                      final'[p] = final[p] /\ content'[p] = content[p]
<1>1. ASSUME Inv, [Next]_vars PROVE Kept1
  <2>1. CASE UNCHANGED <<final, content>>
    BY <2>1, Zenon
  <2>2. CASE CommitEnd
    <3>1. \/ UNCHANGED <<final, content>>
          \/ \E p : /\ final[p] = "absent" /\ final' = [final EXCEPT ![p] = "new"]
                    /\ content' = [content EXCEPT ![p] = active.data]
      BY <2>2, Zenon DEF CommitEnd, SettleFailed
    <3>2. ASSUME NEW p, final[p] = "absent", final' = [final EXCEPT ![p] = "new"],
                 content' = [content EXCEPT ![p] = active.data]
          PROVE  Kept1
      <4>1. final \in [Paths -> {"absent", "old", "new", "junk"}] /\ content \in [Paths -> Seq(Nat)]
        BY <1>1, Zenon DEF Inv, Typed
      <4> QED BY <3>2, <4>1, Zenon
    <3> QED BY <2>1, <3>1, <3>2, Zenon
  <2>3. CASE Ingest
    BY <2>1, <2>3, Zenon
    DEF Ingest, Scan, SourceInterrupted, SettleSource, BeginSource, YieldSample, EndIteration,
        IterationFails, IterationInterrupted, IngestDone, files
  <2>4. CASE CommitResult \/ CommitBegin \/ CommitSample \/ CommitAbort \/ CommitDone
    BY <2>1, <2>4, Zenon DEF CommitResult, CommitBegin, CommitSample, CommitAbort, SettleFailed,
       CommitDone, files
  <2>5. CASE Submit \/ Receive \/ ReceiveInterrupted \/ FinishOk \/ DrainDone \/ CleanupUnfinished
    BY <2>1, <2>5, Zenon DEF Submit, Receive, ReceiveInterrupted, FinishOk, DrainDone,
       CleanupUnfinished, files
  <2>6. CASE RunJob \/ Crash \/ CallAgain
    BY <2>1, <2>6, Zenon DEF RunJob, Crash, CallAgain, files
  <2>7. CASE UNCHANGED vars
    BY <2>1, <2>7, Zenon DEF vars, files
  <2> QED BY <1>1, <2>2, <2>3, <2>4, <2>5, <2>6, <2>7, Zenon
          DEF Next, CallStep, Commit, Stopped
<1>2. Inv /\ [Next]_vars => [Kept1]_vars
  BY <1>1, Zenon
<1> QED BY <1>2, Invariance, PTL DEF Spec, PublishedImmutable

=============================================================================
