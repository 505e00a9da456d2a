---------------------- MODULE ManifestMigrationProofs ----------------------
(***************************************************************************)
(* The safety of the manifest upgrade, for every number of datasets and    *)
(* caches, all path lists, and any number of faults, deaths and edits.     *)
(***************************************************************************)
EXTENDS ManifestMigration, TLAPS

\* Manifests that are whole; only those of version 3 and 4 have an identity.
Manifests ==
  {m \in [version : {2, 3, 4}, id : Int, body : {"original", "other"}, whole : BOOLEAN] :
     m.whole /\ (Legacy(m) => m.id = NoId)}

LoadedCaches  == [manifest : Manifests, id : Int]
TargetRecords == [id : Int, digest : Manifests, needsUpdate : BOOLEAN]

Working(d) == pc[d] \in {"target", "write", "flush", "rename", "sync"}

Typed ==
  /\ disk \in [Files -> Manifests] /\ durable \in [Files -> Manifests]
  /\ temp \in [Datasets -> {"none", "empty", "written", "synced"}]
  /\ pc \in [Datasets -> {"unloaded", "idle", "inspect", "target", "write", "flush", "rename", "sync"}]
  /\ loaded \in [Datasets -> Seq(LoadedCaches)]
  /\ at \in [Datasets -> Nat]
  /\ targets \in [Datasets -> Seq(TargetRecords)]
  /\ entries \in [Datasets -> SUBSET (Files \X {"updated", "unchanged", "durability_unknown"})]
  /\ result \in [Datasets -> {"none", "ok", "error", "signal"}]
  /\ replaced \in [Datasets -> SUBSET Files]
  /\ edited \in SUBSET Files

\* The caller's part of the contract: one upgrade at a time.
Exclusive == \A d, e \in Datasets : Running(d) /\ Running(e) => d = e

\* What is durable is legacy or still in place: no upgrade replaces a manifest
\* that has an identity.
DurableInPlace == \A f \in Files : Legacy(durable[f]) \/ durable[f] = disk[f]

\* The cursor of an upgrade and the lengths of its lists.
Placed(d) ==
  /\ at[d] \in Caches(d)
  /\ pc[d] /= "unloaded" => Len(loaded[d]) = Len(List[d])
  /\ pc[d] = "inspect" => Len(targets[d]) = at[d] - 1
  /\ Working(d) => Len(targets[d]) = Len(List[d])

\* What the preflight has recorded of cache k of dataset d.
Inspected(d, k) ==
  /\ targets[d][k].id = loaded[d][k].id
  /\ targets[d][k].needsUpdate = Legacy(targets[d][k].digest)
  /\ IF Legacy(targets[d][k].digest)
       THEN targets[d][k].digest = loaded[d][k].manifest
       ELSE targets[d][k].digest.id = targets[d][k].id

Known(d) == Running(d) => \A k \in 1..Len(targets[d]) : Inspected(d, k)

\* From the last look at a manifest to its replacement it stays what it was.
Prepared(d) ==
  /\ Replacing(d) => Target(d).needsUpdate /\ disk[File(d)] = Target(d).digest
  /\ pc[d] = "rename" => temp[d] = "synced"

\* The file holds the identity, unless somebody has rewritten it.
Holds(image, f, id) == f \in edited \/ (~Legacy(image[f]) /\ image[f].id = id)

Fresh(d) == pc[d] = "sync" => Holds(disk, File(d), loaded[d][at[d]].id)

Settled(d, k) == Holds(durable, List[d][k], loaded[d][k].id)

Progress(d) ==
  /\ Working(d) => \A k \in 1..(at[d] - 1) : Settled(d, k)
  /\ result[d] = "ok" => pc[d] = "idle" /\ \A k \in Caches(d) : Settled(d, k)

Reported(list) == {e[1] : e \in {x \in list : x[2] /= "unchanged"}}

\* A replacement that is not in the report yet.
Owed(d) == IF pc[d] = "sync" /\ Target(d).needsUpdate THEN {File(d)} ELSE {}

Honest(d) ==
  /\ Running(d) => replaced[d] = Reported(entries[d]) \cup Owed(d)
  /\ pc[d] = "idle" /\ result[d] \in {"ok", "error"} => replaced[d] = Reported(entries[d])

\* The inductive invariant.
Inv ==
  /\ Typed /\ Exclusive /\ DurableInPlace
  /\ \A d \in Datasets :
       Placed(d) /\ Known(d) /\ Prepared(d) /\ Fresh(d) /\ Progress(d) /\ Honest(d)

-----------------------------------------------------------------------------
(* Facts about the operators *)

\* Path lists are not empty and name manifest files.
LEMMA ListFacts ==
  ASSUME NEW d \in Datasets
  PROVE  /\ Len(List[d]) \in Nat \ {0}
         /\ Caches(d) = 1..Len(List[d])
         /\ \A k \in Caches(d) : List[d][k] \in Files
<1>1. List[d] \in Seq(Files) /\ List[d] /= <<>>
  BY MigrationAssumption
<1> QED BY <1>1 DEF Caches

\* into_v3 of a legacy manifest stores the identity and keeps the other fields.
LEMMA UpgradedManifest ==
  ASSUME NEW m \in Manifests, NEW id \in Int, Legacy(m)
  PROVE  LET v == [IntoV3(m, id) EXCEPT !.whole = TRUE] IN
           v \in Manifests /\ ~Legacy(v) /\ v.id = id /\ v = Manifest(3, id, m.body)
<1>1. m \in [version : {2, 3, 4}, id : Int, body : {"original", "other"}, whole : BOOLEAN]
  BY DEF Manifests
<1>2. [IntoV3(m, id) EXCEPT !.whole = TRUE] = Manifest(3, id, m.body)
  <2>1. IntoV3(m, id) = Manifest(3, id, m.body)
    BY DEF IntoV3
  <2>2. ASSUME NEW r \in [version : {2, 3, 4}, id : Int, body : {"original", "other"}, whole : BOOLEAN],
               r.whole = TRUE
        PROVE  [r EXCEPT !.whole = TRUE] = r
    BY <2>2
  <2>3. /\ Manifest(3, id, m.body) \in [version : {2, 3, 4}, id : Int, body : {"original", "other"}, whole : BOOLEAN]
        /\ Manifest(3, id, m.body).whole = TRUE
    BY <1>1 DEF Manifest
  <2> QED BY <2>1, <2>2, <2>3, Zenon
<1>3. Manifest(3, id, m.body) \in Manifests
  BY <1>1 DEF Manifest, Manifests, Legacy
<1> QED BY <1>2, <1>3 DEF Manifest, Legacy

\* Two whole legacy manifests differ in their bodies or not at all.
LEMMA SameLegacy ==
  ASSUME NEW m \in Manifests, NEW n \in Manifests, Legacy(m), Legacy(n), m.body = n.body
  PROVE  m = n
BY DEF Manifests, Legacy

\* The report grows by exactly the entries that stand for a replacement.
LEMMA ReportedGrows ==
  ASSUME NEW list, NEW f, NEW how
  PROVE  Reported(list \cup {<<f, how>>}) =
           IF how = "unchanged" THEN Reported(list) ELSE Reported(list) \cup {f}
<1> DEFINE more == list \cup {<<f, how>>}
<1>1. \A e \in more : e \in list \/ (e[1] = f /\ e[2] = how)
  OBVIOUS
<1>2. <<f, how>> \in more /\ <<f, how>>[1] = f /\ <<f, how>>[2] = how
  OBVIOUS
<1>3. ASSUME NEW x \in Reported(more)
      PROVE  x \in Reported(list) \/ (x = f /\ how /= "unchanged")
  <2>1. PICK e \in more : e[2] /= "unchanged" /\ x = e[1]
    BY <1>3 DEF Reported
  <2> QED BY <1>1, <2>1 DEF Reported
<1>4. ASSUME NEW x \in Reported(list) PROVE x \in Reported(more)
  BY <1>4 DEF Reported
<1>5. how /= "unchanged" => f \in Reported(more)
  <2> SUFFICES ASSUME how /= "unchanged" PROVE f \in Reported(more)
    OBVIOUS
  <2>1. <<f, how>> \in {x \in more : x[2] /= "unchanged"}
    BY <1>2
  <2> HIDE DEF more
  <2> QED BY <1>2, <2>1 DEF Reported
<1> HIDE DEF more
<1>6. Reported(more) = IF how = "unchanged" THEN Reported(list) ELSE Reported(list) \cup {f}
  BY <1>3, <1>4, <1>5
<1> QED BY <1>6 DEF more

\* An empty report stands for no replacement.
LEMMA ReportedNothing == Reported({}) = {}
BY DEF Reported

-----------------------------------------------------------------------------
(* The invariant is inductive *)

\* Before the first load nothing has been replaced and everything is durable.
LEMMA InvInit == Init => Inv
<1> SUFFICES ASSUME Init PROVE Inv
  OBVIOUS
<1>1. disk \in [Files -> Manifests]
  <2>1. Manifest(2, NoId, "original") \in Manifests
    BY DEF Manifest, Manifests, Legacy, NoId
  <2>2. \A v \in {3, 4}, id \in StoredIds : Manifest(v, id, "original") \in Manifests
    BY MigrationAssumption DEF Manifest, Manifests, Legacy
  <2> QED BY <2>1, <2>2 DEF Init
<1>2. Typed
  BY <1>1 DEF Init, Typed
<1>3. Exclusive /\ DurableInPlace
  BY <1>1 DEF Init, Exclusive, Running, DurableInPlace
<1>4. ASSUME NEW d \in Datasets
      PROVE  Placed(d) /\ Known(d) /\ Prepared(d) /\ Fresh(d) /\ Progress(d) /\ Honest(d)
  BY ListFacts DEF Init, Placed, Working, Known, Running, Prepared, Replacing, Fresh, Progress, Honest
<1> QED BY <1>2, <1>3, <1>4 DEF Inv

\* The parts of the invariant that speak of dataset d.
Local(d) == Placed(d) /\ Known(d) /\ Prepared(d) /\ Fresh(d) /\ Progress(d) /\ Honest(d)

\* A dataset that does not move keeps its part of the invariant when no manifest
\* it is about to replace changes, and what it has settled stays or was rewritten.
LEMMA Bystander ==
  ASSUME NEW d \in Datasets, Inv,
         pc'[d] = pc[d], temp'[d] = temp[d], loaded'[d] = loaded[d], at'[d] = at[d],
         targets'[d] = targets[d], entries'[d] = entries[d], result'[d] = result[d],
         replaced'[d] = replaced[d], edited \subseteq edited',
         Replacing(d) => disk'[File(d)] = disk[File(d)],
         pc[d] = "sync" => File(d) \in edited' \/ disk'[File(d)] = disk[File(d)],
         \A f \in Files : f \in edited' \/ Legacy(durable[f]) \/ durable'[f] = durable[f]
  PROVE  Local(d)'
<1>1. Local(d) /\ \A k \in Caches(d) : List[d][k] \in Files
  BY ListFacts DEF Inv, Local
<1>2. Placed(d)'
  BY <1>1 DEF Local, Placed, Working
<1>3. Known(d)'
  BY <1>1 DEF Local, Known, Running, Inspected
<1>4. Prepared(d)'
  <2>1. File(d)' = File(d) /\ Target(d)' = Target(d) /\ Prepared(d)
    BY <1>1, Zenon DEF Local, Target, File
  <2>2. Replacing(d)' => Replacing(d)
    BY Zenon DEF Replacing
  <2> QED BY <2>1, <2>2, Zenon DEF Prepared
<1>5. Fresh(d)'
  BY <1>1 DEF Local, Fresh, Holds, File
<1>6. ASSUME NEW k \in Caches(d), Settled(d, k) PROVE Settled(d, k)'
  BY <1>1, <1>6 DEF Settled, Holds
<1>7. Progress(d)'
  BY <1>1, <1>6, ListFacts DEF Local, Progress, Working, Placed
<1>8. Honest(d)'
  BY <1>1 DEF Local, Honest, Running, Owed, Target, File
<1> QED BY <1>2, <1>3, <1>4, <1>5, <1>7, <1>8 DEF Local

\* A dataset whose upgrade is over, or that is gone, keeps its part of the
\* invariant when it claims no success and its report is complete.
LEMMA Ended ==
  ASSUME NEW d \in Datasets, Placed(d), pc'[d] \in {"idle", "unloaded"}, at'[d] = at[d],
         pc'[d] = "idle" => Len(loaded'[d]) = Len(List[d]), result'[d] /= "ok",
         pc'[d] = "idle" /\ result'[d] = "error" => replaced'[d] = Reported(entries'[d])
  PROVE  Local(d)'
<1>1. ~Running(d)' /\ ~Working(d)' /\ ~Replacing(d)' /\ pc'[d] /= "sync" /\ pc'[d] /= "rename"
  BY DEF Running, Working, Replacing
<1>2. Placed(d)'
  BY <1>1 DEF Placed, Working
<1>3. Known(d)' /\ Prepared(d)' /\ Fresh(d)'
  BY <1>1 DEF Known, Prepared, Fresh
<1>4. Progress(d)'
  BY <1>1 DEF Progress
<1>5. Honest(d)'
  BY <1>1 DEF Honest
<1> QED BY <1>2, <1>3, <1>4, <1>5 DEF Local

\* The records of the preflight serve the whole upgrade.
LEMMA Carried ==
  ASSUME NEW d \in Datasets, Placed(d), Known(d), Working(d), Working(d)', at'[d] \in Caches(d),
         loaded'[d] = loaded[d], targets'[d] = targets[d]
  PROVE  Placed(d)' /\ Known(d)'
<1>1. Running(d) /\ Running(d)' /\ pc[d] /= "unloaded" /\ pc'[d] /= "inspect"
  BY Zenon DEF Running, Working
<1>2. Len(loaded[d]) = Len(List[d]) /\ Len(targets[d]) = Len(List[d])
  BY <1>1, Zenon DEF Placed
<1>3. Placed(d)'
  BY <1>1, <1>2, Zenon DEF Placed
<1>4. \A k \in 1..Len(targets[d]) : Inspected(d, k)
  BY <1>1, Zenon DEF Known
<1>5. ASSUME NEW k \in 1..Len(targets[d]) PROVE Inspected(d, k)'
  BY <1>4, Zenon DEF Inspected
<1>6. Known(d)'
  BY <1>5, Zenon DEF Known
<1> QED BY <1>3, <1>6

\* What was settled stays settled while the durable image keeps it.
LEMMA StaySettled ==
  ASSUME NEW d \in Datasets, NEW k, Settled(d, k), loaded'[d] = loaded[d], edited' = edited,
         durable'[List[d][k]] = durable[List[d][k]]
  PROVE  Settled(d, k)'
BY Zenon DEF Settled, Holds

\* The actions of the upgrade change only the local state of their dataset.
LEMMA LoadStep == ASSUME Inv, NEW d \in Datasets, Load(d) PROVE Inv'
<1> DEFINE seen == [k \in Caches(d) |-> [manifest |-> disk[List[d][k]],
                                         id |-> ResolveCacheId(disk[List[d][k]], k - 1)]]
<1>1. /\ pc[d] = "unloaded" /\ pc' = [pc EXCEPT ![d] = "idle"]
      /\ loaded' = [loaded EXCEPT ![d] = seen] /\ result' = [result EXCEPT ![d] = "none"]
      /\ UNCHANGED <<disk, durable, temp, at, targets, entries, replaced, edited, limits>>
  BY DEF Load
<1>2. seen \in Seq(LoadedCaches) /\ Len(seen) = Len(List[d])
  <2>1. \A k \in Caches(d) : disk[List[d][k]] \in Manifests
    BY ListFacts DEF Inv, Typed
  <2>2. \A k \in Caches(d) : ResolveCacheId(disk[List[d][k]], k - 1) \in Int
    BY <2>1, ListFacts DEF ResolveCacheId, Manifests
  <2>3. seen \in [1..Len(List[d]) -> LoadedCaches]
    BY <2>1, <2>2, ListFacts DEF LoadedCaches
  <2> HIDE DEF seen
  <2>4. seen \in Seq(LoadedCaches) /\ DOMAIN seen = 1..Len(seen) /\ Len(seen) \in Nat
    BY <2>3, ListFacts
  <2> QED BY <2>3, <2>4, ListFacts
<1> HIDE DEF seen
<1>3. Typed'
  BY <1>1, <1>2 DEF Inv, Typed
<1>4. Exclusive' /\ DurableInPlace'
  BY <1>1 DEF Inv, Typed, Exclusive, Running, DurableInPlace
<1>5. Local(d)'
  <2>1. /\ pc'[d] = "idle" /\ at'[d] = at[d] /\ loaded'[d] = seen /\ result'[d] = "none"
        /\ Placed(d)
    BY <1>1, Zenon DEF Inv, Typed
  <2> QED BY <1>2, <2>1, Ended
<1>6. ASSUME NEW e \in Datasets, e /= d PROVE Local(e)'
  BY <1>1, <1>6, Bystander, Zenon DEF Inv, Typed
<1> QED BY <1>3, <1>4, <1>5, <1>6 DEF Inv, Local

\* A new upgrade has replaced and reported nothing.
LEMMA CallStep == ASSUME Inv, NEW d \in Datasets, CallUpdate(d) PROVE Inv'
<1>1. Typed'
  BY DEF CallUpdate, Inv, Typed
<1>2. Exclusive' /\ DurableInPlace'
  BY DEF CallUpdate, Inv, Typed, Exclusive, Running, DurableInPlace
<1>3. Local(d)'
  <2>1. /\ pc'[d] = "inspect" /\ at'[d] = 1 /\ targets'[d] = <<>> /\ entries'[d] = {}
        /\ result'[d] = "none" /\ replaced'[d] = {} /\ loaded'[d] = loaded[d]
        /\ pc[d] /= "unloaded" /\ Placed(d)
    BY Zenon DEF CallUpdate, Inv, Typed
  <2>2. ~Working(d)' /\ ~Replacing(d)' /\ Owed(d)' = {}
    BY <2>1 DEF Working, Replacing, Owed
  <2>3. Len(targets'[d]) = 0
    BY <2>1
  <2>4. Placed(d)'
    <3>1. 1 \in Caches(d) /\ Len(targets'[d]) = 1 - 1
      BY <2>3, ListFacts
    <3>2. Len(loaded[d]) = Len(List[d])
      BY <2>1 DEF Placed
    <3> QED BY <2>1, <2>2, <3>1, <3>2, Zenon DEF Placed
  <2>5. Known(d)'
    BY <2>3 DEF Known
  <2>6. Prepared(d)' /\ Fresh(d)' /\ Progress(d)'
    BY <2>1, <2>2 DEF Prepared, Fresh, Progress
  <2>7. Honest(d)'
    BY <2>1, <2>2, ReportedNothing DEF Honest
  <2> QED BY <2>4, <2>5, <2>6, <2>7 DEF Local
<1>4. ASSUME NEW e \in Datasets, e /= d PROVE Local(e)'
  BY <1>4, Bystander, Zenon DEF CallUpdate, Inv, Typed
<1> QED BY <1>1, <1>2, <1>3, <1>4 DEF Inv, Local

\* A refused call reports that it has done nothing.
LEMMA RefuseStep == ASSUME Inv, NEW d \in Datasets, RefuseVersion(d) PROVE Inv'
<1>1. Typed'
  BY DEF RefuseVersion, Inv, Typed
<1>2. Exclusive' /\ DurableInPlace'
  BY DEF RefuseVersion, Inv, Typed, Exclusive, Running, DurableInPlace
<1>3. Local(d)'
  <2>1. /\ pc'[d] = "idle" /\ pc[d] = "idle" /\ at'[d] = at[d] /\ loaded'[d] = loaded[d]
        /\ entries'[d] = {} /\ result'[d] = "error" /\ replaced'[d] = {} /\ Placed(d)
    BY Zenon DEF RefuseVersion, Inv, Typed
  <2>2. Len(loaded'[d]) = Len(List[d])
    BY <2>1 DEF Placed
  <2> QED BY <2>1, <2>2, Ended, ReportedNothing, Zenon
<1>4. ASSUME NEW e \in Datasets, e /= d PROVE Local(e)'
  BY <1>4, Bystander, Zenon DEF RefuseVersion, Inv, Typed
<1> QED BY <1>1, <1>2, <1>3, <1>4 DEF Inv, Local

\* The preflight records what Inspected says; a refusal reports nothing, since
\* nothing has been replaced.
LEMMA InspectStep == ASSUME Inv, NEW d \in Datasets, Inspect(d) PROVE Inv'
<1> DEFINE t == [id |-> loaded[d][at[d]].id, digest |-> disk[File(d)],
                 needsUpdate |-> Legacy(disk[File(d)])]
<1>1. /\ pc[d] = "inspect" /\ Running(d) /\ Local(d)
      /\ UNCHANGED <<disk, durable, temp, loaded, entries, replaced, edited, limits>>
  BY DEF Inspect, Inv, Local, Running
<1>2. /\ at[d] \in 1..Len(List[d]) /\ Len(List[d]) \in Nat /\ Len(targets[d]) = at[d] - 1
      /\ Len(loaded[d]) = Len(List[d])
  BY <1>1, ListFacts DEF Local, Placed
<1>3. File(d) \in Files /\ disk[File(d)] \in Manifests /\ loaded[d][at[d]] \in LoadedCaches
  <2>1. File(d) \in Files
    BY <1>2, ListFacts, Zenon DEF File
  <2>2. disk[File(d)] \in Manifests /\ loaded[d] \in Seq(LoadedCaches)
    BY <2>1, Zenon DEF Inv, Typed
  <2>3. loaded[d][at[d]] \in LoadedCaches
    BY <1>2, <2>2
  <2> QED BY <2>1, <2>2, <2>3
<1>4. t \in TargetRecords
  BY <1>3, Zenon DEF TargetRecords, LoadedCaches, Legacy
<1>5. CASE Unexpected(d)
  <2>1. /\ pc' = [pc EXCEPT ![d] = "idle"] /\ result' = [result EXCEPT ![d] = "error"]
        /\ UNCHANGED <<at, targets>>
    BY <1>5 DEF Inspect, Return
  <2>2. Typed' /\ Exclusive' /\ DurableInPlace'
    BY <1>1, <2>1 DEF Inv, Typed, Exclusive, Running, DurableInPlace
  <2>3. Local(d)'
    <3>1. /\ pc'[d] = "idle" /\ at'[d] = at[d] /\ loaded'[d] = loaded[d] /\ result'[d] = "error"
          /\ replaced'[d] = replaced[d] /\ entries'[d] = entries[d]
      BY <1>1, <2>1, Zenon DEF Inv, Typed
    <3>2. replaced[d] = Reported(entries[d])
      BY <1>1, Zenon DEF Local, Honest, Owed
    <3>3. Placed(d)
      BY <1>1 DEF Local
    <3> QED BY <1>2, <3>1, <3>2, <3>3, Ended
  <2>4. ASSUME NEW e \in Datasets, e /= d PROVE Local(e)'
    BY <1>1, <2>1, <2>4, Bystander, Zenon DEF Inv, Typed
  <2> QED BY <2>2, <2>3, <2>4 DEF Inv, Local
<1>6. CASE ~Unexpected(d)
  <2> DEFINE last == at[d] = Len(List[d])
  <2>1. /\ targets' = [targets EXCEPT ![d] = Append(@, t)]
        /\ at' = [at EXCEPT ![d] = IF last THEN 1 ELSE @ + 1]
        /\ pc' = [pc EXCEPT ![d] = IF last THEN "target" ELSE "inspect"]
        /\ UNCHANGED result
    BY <1>6 DEF Inspect
  <2>2. /\ targets[d] \in Seq(TargetRecords) /\ targets'[d] = Append(targets[d], t)
        /\ Len(targets'[d]) = at[d] /\ targets'[d][at[d]] = t
        /\ \A k \in 1..(at[d] - 1) : targets'[d][k] = targets[d][k]
    <3>1. targets[d] \in Seq(TargetRecords) /\ targets'[d] = Append(targets[d], t)
      BY <2>1, Zenon DEF Inv, Typed
    <3> HIDE DEF t
    <3>2. /\ Len(Append(targets[d], t)) = at[d] /\ Append(targets[d], t)[at[d]] = t
          /\ \A k \in 1..(at[d] - 1) : Append(targets[d], t)[k] = targets[d][k]
      BY <1>2, <1>4, <3>1
    <3> QED BY <3>1, <3>2, Zenon
  <2>3. ASSUME NEW k \in 1..at[d] PROVE Inspected(d, k)'
    <3>1. /\ Legacy(disk[File(d)]) => disk[File(d)] = loaded[d][at[d]].manifest
          /\ ~Legacy(disk[File(d)]) => disk[File(d)].id = loaded[d][at[d]].id
      BY <1>3, <1>6, SameLegacy, Zenon DEF Unexpected, LoadedCaches
    <3>2. CASE k = at[d]
      <4>1. /\ targets'[d][at[d]] = t /\ loaded'[d] = loaded[d]
            /\ t.id = loaded[d][at[d]].id /\ t.digest = disk[File(d)]
            /\ t.needsUpdate = Legacy(disk[File(d)])
        BY <1>1, <2>2, Zenon
      <4> HIDE DEF t
      <4> QED BY <3>1, <3>2, <4>1, Zenon DEF Inspected
    <3>3. CASE k /= at[d]
      <4>1. k \in 1..(at[d] - 1) /\ k \in 1..Len(targets[d])
        BY <1>2, <3>3
      <4> QED BY <1>1, <2>2, <4>1, Zenon DEF Local, Known, Inspected
    <3> QED BY <3>2, <3>3
  <2> HIDE DEF t
  <2>4. Typed'
    BY <1>1, <1>2, <1>4, <2>1 DEF Inv, Typed
  <2>5. Exclusive' /\ DurableInPlace'
    <3>1. \A e \in Datasets : Running(e)' => Running(e)
      BY <1>1, <2>1, Zenon DEF Inv, Typed, Running
    <3> QED BY <1>1, <2>1, <3>1, Zenon DEF Inv, Exclusive, DurableInPlace
  <2>6. pc'[d] = (IF last THEN "target" ELSE "inspect") /\ at'[d] = (IF last THEN 1 ELSE at[d] + 1)
    BY <2>1 DEF Inv, Typed
  <2>7. Placed(d)'
    <3>1. at'[d] \in Caches(d) /\ Len(loaded'[d]) = Len(List[d])
      BY <1>1, <1>2, <2>6, ListFacts
    <3>2. pc'[d] = "inspect" => Len(targets'[d]) = at'[d] - 1
      BY <1>2, <2>2, <2>6
    <3>3. pc'[d] = "target" => Len(targets'[d]) = Len(List[d])
      BY <2>2, <2>6
    <3>4. Working(d)' => pc'[d] = "target"
      BY <2>6, Zenon DEF Working
    <3> QED BY <3>1, <3>2, <3>3, <3>4, Zenon DEF Placed
  <2>8. Known(d)'
    BY <2>2, <2>3 DEF Known
  <2>9. Prepared(d)' /\ Fresh(d)'
    BY <2>6 DEF Prepared, Replacing, Fresh
  <2>10. Progress(d)'
    BY <1>1, <2>1, <2>6 DEF Local, Progress, Working
  <2>11. Honest(d)'
    BY <1>1, <2>6, Zenon DEF Local, Honest, Owed, Running
  <2>12. ASSUME NEW e \in Datasets, e /= d PROVE Local(e)'
    BY <1>1, <2>1, <2>12, Bystander, Zenon DEF Inv, Typed
  <2> QED BY <2>4, <2>5, <2>7, <2>8, <2>9, <2>10, <2>11, <2>12 DEF Inv, Local
<1> QED BY <1>5, <1>6

\* An upgrade that ends early reports every replacement it has made.
LEMMA FaultStep == ASSUME Inv, NEW d \in Datasets, Running(d), Fault(d) PROVE Inv'
<1> DEFINE owing == pc[d] = "sync" /\ Target(d).needsUpdate
<1>1. PICK how \in {"error", "signal"} :
        pc' = [pc EXCEPT ![d] = "idle"] /\ result' = [result EXCEPT ![d] = how]
  BY Zenon DEF Fault, Return
<1>2. /\ temp' = [temp EXCEPT ![d] = "none"]
      /\ entries' = [entries EXCEPT ![d] =
           IF owing THEN @ \cup {<<File(d), "durability_unknown">>} ELSE @]
      /\ UNCHANGED <<disk, durable, loaded, at, targets, replaced, edited, deaths>>
  BY DEF Fault
<1>3. Local(d) /\ File(d) \in Files
  BY ListFacts, Zenon DEF Inv, Local, Placed, File
<1>4. Typed'
  BY <1>1, <1>2, <1>3 DEF Inv, Typed
<1>5. Exclusive' /\ DurableInPlace'
  <2>1. \A e \in Datasets : Running(e)' => Running(e)
    BY <1>1, <1>2, Zenon DEF Inv, Typed, Running
  <2> QED BY <1>1, <1>2, <2>1, Zenon DEF Inv, Exclusive, DurableInPlace
<1>6. Local(d)'
  <2>1. replaced[d] = Reported(entries[d]) \cup Owed(d)
    BY <1>3, Zenon DEF Local, Honest
  <2>2. Reported(entries'[d]) = replaced[d]
    <3>1. entries'[d] = IF owing THEN entries[d] \cup {<<File(d), "durability_unknown">>}
                                 ELSE entries[d]
      BY <1>2, Zenon DEF Inv, Typed
    <3>2. Owed(d) = IF owing THEN {File(d)} ELSE {}
      BY Zenon DEF Owed
    <3> HIDE DEF owing
    <3>3. Reported(entries[d] \cup {<<File(d), "durability_unknown">>})
            = Reported(entries[d]) \cup {File(d)}
      BY ReportedGrows, "durability_unknown" /= "unchanged", Zenon
    <3> QED BY <2>1, <3>1, <3>2, <3>3, Zenon
  <2>3. /\ pc'[d] = "idle" /\ at'[d] = at[d] /\ loaded'[d] = loaded[d] /\ result'[d] = how
        /\ replaced'[d] = replaced[d]
    BY <1>1, <1>2, Zenon DEF Inv, Typed
  <2>4. Placed(d) /\ Len(loaded[d]) = Len(List[d])
    BY <1>3 DEF Local, Placed, Running
  <2> QED BY <2>2, <2>3, <2>4, Ended, Zenon
<1>7. ASSUME NEW e \in Datasets, e /= d PROVE Local(e)'
  BY <1>1, <1>2, <1>7, Bystander, Zenon DEF Inv, Typed
<1> QED BY <1>4, <1>5, <1>6, <1>7 DEF Inv, Local

\* The last look: the manifest is what the preflight saw, or the upgrade ends.
LEMMA BeginStep == ASSUME Inv, NEW d \in Datasets, Begin(d) PROVE Inv'
<1>1. /\ pc[d] = "target" /\ Running(d) /\ Working(d) /\ Local(d)
      /\ UNCHANGED <<disk, durable, loaded, at, targets, entries, replaced, edited, limits>>
  BY Zenon DEF Begin, Inv, Local, Running, Working
<1>2. /\ at[d] \in 1..Len(List[d]) /\ Len(List[d]) \in Nat /\ Len(targets[d]) = Len(List[d])
      /\ File(d) \in Files /\ Target(d) \in TargetRecords /\ Inspected(d, at[d])
  <2>1. /\ at[d] \in 1..Len(List[d]) /\ Len(List[d]) \in Nat /\ Len(targets[d]) = Len(List[d])
        /\ File(d) \in Files
    BY <1>1, ListFacts, Zenon DEF Local, Placed, File
  <2>2. targets[d] \in Seq(TargetRecords)
    BY Zenon DEF Inv, Typed
  <2>3. Target(d) \in TargetRecords
    BY <2>1, <2>2 DEF Target
  <2>4. Inspected(d, at[d])
    BY <1>1, <2>1 DEF Local, Known
  <2> QED BY <2>1, <2>3, <2>4, Zenon
<1>3. ASSUME NEW e \in Datasets, e /= d PROVE Local(e)'
  <2>1. pc'[e] = pc[e] /\ temp'[e] = temp[e] /\ result'[e] = result[e]
    <3>1. /\ \E v : pc' = [pc EXCEPT ![d] = v]
          /\ temp' = temp \/ \E v : temp' = [temp EXCEPT ![d] = v]
          /\ result' = result \/ \E v : result' = [result EXCEPT ![d] = v]
      BY Zenon DEF Begin, Return
    <3> QED BY <1>3, <3>1, Zenon DEF Inv, Typed
  <2> QED BY <1>1, <1>3, <2>1, Bystander, Zenon
<1>4. CASE disk[File(d)] /= Target(d).digest
  <2>1. /\ pc' = [pc EXCEPT ![d] = "idle"] /\ result' = [result EXCEPT ![d] = "error"]
        /\ UNCHANGED temp
    BY <1>4, Zenon DEF Begin, Return
  <2>2. Typed' /\ Exclusive' /\ DurableInPlace'
    <3>1. \A e \in Datasets : Running(e)' => Running(e)
      BY <1>1, <2>1, Zenon DEF Inv, Typed, Running
    <3>2. Typed'
      BY <1>1, <2>1, Zenon DEF Inv, Typed
    <3> QED BY <1>1, <3>1, <3>2, Zenon DEF Inv, Exclusive, DurableInPlace
  <2>3. Local(d)'
    <3>1. /\ pc'[d] = "idle" /\ at'[d] = at[d] /\ loaded'[d] = loaded[d] /\ result'[d] = "error"
          /\ replaced'[d] = replaced[d] /\ entries'[d] = entries[d]
      BY <1>1, <2>1, Zenon DEF Inv, Typed
    <3>2. replaced[d] = Reported(entries[d])
      BY <1>1, Zenon DEF Local, Honest, Owed
    <3>3. Placed(d) /\ Len(loaded[d]) = Len(List[d])
      BY <1>1 DEF Local, Placed
    <3> QED BY <3>1, <3>2, <3>3, Ended, Zenon
  <2> QED BY <1>3, <2>2, <2>3 DEF Inv, Local
<1>5. CASE disk[File(d)] = Target(d).digest
  <2>1. /\ pc' = [pc EXCEPT ![d] = IF Target(d).needsUpdate THEN "write" ELSE "sync"]
        /\ temp' = [temp EXCEPT ![d] = IF Target(d).needsUpdate THEN "empty" ELSE @]
        /\ UNCHANGED result
    BY <1>5, Zenon DEF Begin
  <2>2. Typed' /\ Exclusive' /\ DurableInPlace'
    BY <1>1, <2>1 DEF Inv, Typed, Exclusive, Running, DurableInPlace
  <2>3. Placed(d)' /\ Known(d)' /\ Progress(d)'
    BY <1>1, <2>1, Zenon DEF Inv, Typed, Local, Placed, Working, Known, Inspected, Running, Progress, Settled, Holds
  <2>4. Prepared(d)'
    BY <1>1, <1>5, <2>1, Zenon DEF Inv, Typed, Local, Prepared, Replacing, Target, File
  <2>5. Fresh(d)'
    BY <1>1, <1>2, <1>5, <2>1, Zenon DEF Inv, Typed, Fresh, Holds, Inspected, Target, File
  <2>6. Honest(d)'
    BY <1>1, <2>1, Zenon DEF Inv, Typed, Local, Honest, Running, Owed, Target, File
  <2> QED BY <1>3, <2>2, <2>3, <2>4, <2>5, <2>6 DEF Inv, Local
<1> QED BY <1>4, <1>5

\* Filling and syncing the temporary file touches no manifest.
LEMMA TemporaryStep == ASSUME Inv, NEW d \in Datasets, Write(d) \/ Flush(d) PROVE Inv'
<1>1. /\ Replacing(d) /\ Running(d) /\ Working(d) /\ pc[d] /= "rename" /\ Local(d)
      /\ UNCHANGED <<disk, durable, loaded, call, edited, limits>>
  BY DEF Write, Flush, Inv, Local, Running, Replacing, Working
<1>2. \/ pc' = [pc EXCEPT ![d] = "flush"] /\ temp' = [temp EXCEPT ![d] = "written"]
      \/ pc' = [pc EXCEPT ![d] = "rename"] /\ temp' = [temp EXCEPT ![d] = "synced"]
  BY DEF Write, Flush
<1>a. /\ pc'[d] \in {"flush", "rename"} /\ at'[d] = at[d] /\ loaded'[d] = loaded[d]
      /\ targets'[d] = targets[d] /\ result'[d] = result[d] /\ edited' = edited
  BY <1>1, <1>2, Zenon DEF Inv, Typed, call
<1>3. Typed' /\ Exclusive' /\ DurableInPlace'
  <2>1. /\ pc' \in [Datasets -> {"unloaded", "idle", "inspect", "target", "write", "flush", "rename", "sync"}]
        /\ temp' \in [Datasets -> {"none", "empty", "written", "synced"}]
    BY <1>2, Zenon DEF Inv, Typed
  <2>2. Typed'
    BY <1>1, <2>1, Zenon DEF Inv, Typed, call
  <2>3. \A e \in Datasets : Running(e)' => Running(e)
    BY <1>1, <1>2, Zenon DEF Inv, Typed, Running
  <2>4. Exclusive' /\ DurableInPlace'
    BY <1>1, <2>3, Zenon DEF Inv, Exclusive, DurableInPlace
  <2> QED BY <2>2, <2>4
<1>4. Placed(d)' /\ Known(d)' /\ Fresh(d)' /\ Progress(d)'
  <2>1. Working(d)' /\ pc'[d] /= "sync" /\ pc'[d] /= "idle" /\ pc[d] /= "idle"
    BY <1>1, <1>a, Zenon DEF Working
  <2>2. Placed(d)' /\ Known(d)'
    BY <1>1, <1>a, <2>1, Carried, Zenon DEF Local, Placed
  <2>3. Fresh(d)'
    BY <2>1, Zenon DEF Fresh
  <2>4. result[d] /= "ok" /\ \A k \in 1..(at[d] - 1) : Settled(d, k)
    BY <1>1, <2>1, Zenon DEF Local, Progress
  <2>5. \A k \in 1..(at[d] - 1) : Settled(d, k)'
    BY <1>1, <1>a, <2>4, StaySettled, Zenon
  <2>6. Progress(d)'
    BY <1>a, <2>4, <2>5, Zenon DEF Progress
  <2> QED BY <2>2, <2>3, <2>6
<1>5. Prepared(d)'
  BY <1>1, <1>2, Zenon DEF Inv, Typed, Local, Prepared, Replacing, Target, File, call
<1>6. Honest(d)'
  BY <1>1, <1>2, Zenon DEF Inv, Typed, Local, Honest, Running, Replacing, Owed, call
<1>7. ASSUME NEW e \in Datasets, e /= d PROVE Local(e)'
  BY <1>1, <1>2, <1>7, Bystander, Zenon DEF Inv, Typed, call
<1> QED BY <1>3, <1>4, <1>5, <1>6, <1>7 DEF Inv, Local

\* The replacement: the manifest the dataset has loaded becomes the same manifest
\* with the identity the dataset uses, whole, and nothing else changes.
LEMMA RenameEffect ==
  ASSUME Inv, NEW d \in Datasets, Rename(d)
  PROVE  /\ Legacy(disk[File(d)]) /\ File(d) \in Files
         /\ disk[File(d)] = loaded[d][at[d]].manifest
         /\ loaded[d][at[d]].id \in Int
         /\ disk' = [disk EXCEPT ![File(d)] =
                       Manifest(3, loaded[d][at[d]].id, loaded[d][at[d]].manifest.body)]
<1>1. pc[d] = "rename" /\ Running(d) /\ Working(d) /\ Replacing(d) /\ Local(d)
  BY DEF Rename, Inv, Local, Running, Working, Replacing
<1>2. /\ at[d] \in 1..Len(targets[d]) /\ Len(targets[d]) = Len(loaded[d])
      /\ File(d) \in Files
  BY <1>1, ListFacts, Zenon DEF Local, Placed, File
<1>3. Target(d) \in TargetRecords /\ Inspected(d, at[d]) /\ loaded[d][at[d]] \in LoadedCaches
  BY <1>1, <1>2 DEF Local, Known, Target, Inv, Typed
<1>4. temp[d] = "synced" /\ Target(d).needsUpdate /\ disk[File(d)] = Target(d).digest
  BY <1>1, Zenon DEF Local, Prepared
<1>5. /\ Legacy(Target(d).digest) /\ Target(d).digest = loaded[d][at[d]].manifest
      /\ Target(d).id = loaded[d][at[d]].id
  BY <1>3, <1>4, Zenon DEF Inspected, Target
<1>6. disk' = [disk EXCEPT ![File(d)] =
                 [IntoV3(Target(d).digest, Target(d).id) EXCEPT !.whole = TRUE]]
  BY <1>4, Zenon DEF Rename
<1>7. Target(d).digest \in Manifests /\ Target(d).id \in Int
  BY <1>3 DEF TargetRecords
<1>8. [IntoV3(Target(d).digest, Target(d).id) EXCEPT !.whole = TRUE]
        = Manifest(3, Target(d).id, Target(d).digest.body)
  BY <1>5, <1>7, UpgradedManifest
<1> QED BY <1>2, <1>4, <1>5, <1>6, <1>7, <1>8, Zenon

\* A replacement is owed to the report until the directory is synced.
LEMMA RenameStep == ASSUME Inv, NEW d \in Datasets, Rename(d) PROVE Inv'
<1> DEFINE id == loaded[d][at[d]].id
           new == Manifest(3, id, loaded[d][at[d]].manifest.body)
<1>1. /\ pc[d] = "rename" /\ Running(d) /\ Working(d) /\ Replacing(d) /\ Local(d)
      /\ pc' = [pc EXCEPT ![d] = "sync"] /\ temp' = [temp EXCEPT ![d] = "none"]
      /\ replaced' = [replaced EXCEPT ![d] = @ \cup {File(d)}]
      /\ UNCHANGED <<durable, loaded, at, targets, entries, result, edited, limits>>
  BY DEF Rename, Inv, Local, Running, Working, Replacing
<1>2. /\ Legacy(disk[File(d)]) /\ File(d) \in Files /\ id \in Int
      /\ disk[File(d)] = loaded[d][at[d]].manifest /\ disk' = [disk EXCEPT ![File(d)] = new]
  BY RenameEffect, Zenon
<1>3. new \in Manifests /\ ~Legacy(new) /\ new.id = id
  <2>1. loaded[d][at[d]].manifest \in Manifests
    BY <1>2, Zenon DEF Inv, Typed
  <2>2. loaded[d][at[d]].manifest.body \in {"original", "other"}
    BY <2>1 DEF Manifests
  <2>3. ASSUME NEW i \in Int, NEW b \in {"original", "other"}
        PROVE  Manifest(3, i, b) \in Manifests /\ ~Legacy(Manifest(3, i, b)) /\ Manifest(3, i, b).id = i
    BY DEF Manifest, Manifests, Legacy
  <2> QED BY <1>2, <2>2, <2>3, Zenon
<1> HIDE DEF new, id
<1>a. /\ pc'[d] = "sync" /\ at'[d] = at[d] /\ loaded'[d] = loaded[d] /\ targets'[d] = targets[d]
      /\ result'[d] = result[d] /\ temp'[d] = "none" /\ edited' = edited /\ durable' = durable
  BY <1>1, Zenon DEF Inv, Typed
<1>4. Typed' /\ Exclusive'
  <2>1. disk' \in [Files -> Manifests]
    BY <1>2, <1>3, Zenon DEF Inv, Typed
  <2>2. /\ pc' \in [Datasets -> {"unloaded", "idle", "inspect", "target", "write", "flush", "rename", "sync"}]
        /\ temp' \in [Datasets -> {"none", "empty", "written", "synced"}]
    BY <1>1, Zenon DEF Inv, Typed
  <2>3. replaced' \in [Datasets -> SUBSET Files]
    BY <1>1, <1>2 DEF Inv, Typed
  <2>4. Typed'
    BY <1>1, <2>1, <2>2, <2>3, Zenon DEF Inv, Typed
  <2>5. \A e \in Datasets : Running(e)' => Running(e)
    BY <1>1, Zenon DEF Inv, Typed, Running
  <2> QED BY <2>4, <2>5, Zenon DEF Inv, Exclusive
<1>5. DurableInPlace'
  BY <1>1, <1>2, <1>3, Zenon DEF Inv, Typed, DurableInPlace
<1>6. Placed(d)' /\ Known(d)' /\ Prepared(d)' /\ Progress(d)'
  <2>1. Working(d)' /\ ~Replacing(d)' /\ pc'[d] /= "rename" /\ pc[d] /= "idle"
    BY <1>1, <1>a, Zenon DEF Working, Replacing
  <2>2. Placed(d)' /\ Known(d)'
    BY <1>1, <1>a, <2>1, Carried, Zenon DEF Local, Placed
  <2>3. Prepared(d)'
    BY <2>1, Zenon DEF Prepared
  <2>4. result[d] /= "ok" /\ \A k \in 1..(at[d] - 1) : Settled(d, k)
    BY <1>1, <2>1, Zenon DEF Local, Progress
  <2>5. \A k \in 1..(at[d] - 1) : Settled(d, k)'
    BY <1>a, <2>4, StaySettled, Zenon
  <2>6. Progress(d)'
    BY <1>a, <2>4, <2>5, Zenon DEF Progress
  <2> QED BY <2>2, <2>3, <2>6
<1>7. Fresh(d)'
  <2>1. File(d)' = File(d) /\ loaded'[d][at'[d]].id = id
    BY <1>a, Zenon DEF File, id
  <2>2. disk'[File(d)] = new
    BY <1>2, Zenon DEF Inv, Typed
  <2> QED BY <1>3, <2>1, <2>2, Zenon DEF Fresh, Holds
<1>8. Honest(d)'
  <2>1. Target(d).needsUpdate /\ Owed(d) = {} /\ replaced[d] = Reported(entries[d])
    BY <1>1, Zenon DEF Local, Prepared, Honest, Owed
  <2>2. Owed(d)' = {File(d)}
    BY <1>1, <2>1, Zenon DEF Owed, Target, File, Inv, Typed
  <2> QED BY <1>1, <2>1, <2>2 DEF Honest, Running, Inv, Typed
<1>9. ASSUME NEW e \in Datasets, e /= d PROVE Local(e)'
  <2>1. ~Running(e) /\ ~Replacing(e) /\ pc[e] /= "sync"
    BY <1>1, <1>9 DEF Inv, Exclusive, Running, Replacing
  <2> QED BY <1>1, <1>9, <2>1, Bystander, Zenon DEF Inv, Typed
<1> QED BY <1>4, <1>5, <1>6, <1>7, <1>8, <1>9 DEF Inv, Local

\* The sync settles the cache the upgrade is at, for good.
LEMMA SyncStep == ASSUME Inv, NEW d \in Datasets, SyncDirectory(d) PROVE Inv'
<1> DEFINE how  == IF Target(d).needsUpdate THEN "updated" ELSE "unchanged"
           last == at[d] = Len(List[d])
<1>1. /\ pc[d] = "sync" /\ Running(d) /\ Working(d) /\ Local(d)
      /\ durable' = [durable EXCEPT ![File(d)] = disk[File(d)]]
      /\ entries' = [entries EXCEPT ![d] = @ \cup {<<File(d), how>>}]
      /\ UNCHANGED <<disk, temp, loaded, targets, replaced, edited, limits>>
  BY DEF SyncDirectory, Inv, Local, Running, Working
<1>2. /\ at[d] \in 1..Len(List[d]) /\ Len(List[d]) \in Nat /\ File(d) \in Files
      /\ \A k \in 1..Len(List[d]) : List[d][k] \in Files
  BY <1>1, ListFacts, Zenon DEF Local, Placed, File
<1>3. \/ /\ last /\ pc' = [pc EXCEPT ![d] = "idle"] /\ result' = [result EXCEPT ![d] = "ok"]
         /\ UNCHANGED at
      \/ /\ ~last /\ pc' = [pc EXCEPT ![d] = "target"] /\ at' = [at EXCEPT ![d] = @ + 1]
         /\ UNCHANGED result
  BY DEF SyncDirectory, Return
<1>a. /\ loaded'[d] = loaded[d] /\ targets'[d] = targets[d] /\ edited' = edited /\ disk' = disk
      /\ durable'[File(d)] = disk[File(d)]
      /\ \A f \in Files : f /= File(d) => durable'[f] = durable[f]
  BY <1>1, <1>2, Zenon DEF Inv, Typed
<1>b. \/ last /\ pc'[d] = "idle" /\ result'[d] = "ok" /\ at'[d] = at[d]
      \/ ~last /\ pc'[d] = "target" /\ result'[d] = result[d] /\ at'[d] = at[d] + 1
  BY <1>3, Zenon DEF Inv, Typed
<1>4. Typed'
  <2>1. <<File(d), how>> \in Files \X {"updated", "unchanged", "durability_unknown"}
    BY <1>2, Zenon
  <2> HIDE DEF how
  <2>2. entries' \in [Datasets -> SUBSET (Files \X {"updated", "unchanged", "durability_unknown"})]
    BY <1>1, <2>1 DEF Inv, Typed
  <2>3. durable' \in [Files -> Manifests]
    BY <1>1, <1>2, Zenon DEF Inv, Typed
  <2>4. at' \in [Datasets -> Nat]
    BY <1>3 DEF Inv, Typed
  <2>5. /\ pc' \in [Datasets -> {"unloaded", "idle", "inspect", "target", "write", "flush", "rename", "sync"}]
        /\ result' \in [Datasets -> {"none", "ok", "error", "signal"}]
    BY <1>3, Zenon DEF Inv, Typed
  <2> QED BY <1>1, <2>2, <2>3, <2>4, <2>5, Zenon DEF Inv, Typed
<1>5. Exclusive' /\ DurableInPlace'
  <2>1. \A e \in Datasets : Running(e)' => Running(e)
    BY <1>1, <1>3, Zenon DEF Inv, Typed, Running
  <2>2. Exclusive'
    BY <2>1, Zenon DEF Inv, Exclusive
  <2>3. DurableInPlace'
    BY <1>a, Zenon DEF Inv, DurableInPlace
  <2> QED BY <2>2, <2>3
<1>6. Placed(d)' /\ Known(d)' /\ Prepared(d)' /\ Fresh(d)'
  <2>1. Prepared(d)' /\ Fresh(d)'
    BY <1>b, Zenon DEF Prepared, Replacing, Fresh
  <2>2. CASE last
    <3>1. pc'[d] = "idle" /\ at'[d] = at[d]
      BY <1>b, <2>2, Zenon
    <3>2. Len(loaded[d]) = Len(List[d]) /\ at[d] \in Caches(d)
      BY <1>1, Zenon DEF Local, Placed
    <3>3. Placed(d)'
      BY <1>a, <3>1, <3>2, Zenon DEF Placed, Working
    <3>4. Known(d)'
      BY <3>1, Zenon DEF Known, Running
    <3> QED BY <2>1, <3>3, <3>4
  <2>3. CASE ~last
    <3>1. pc'[d] = "target" /\ at'[d] = at[d] + 1
      BY <1>b, <2>3, Zenon
    <3>2. Working(d)'
      BY <3>1, Zenon DEF Working
    <3>3. at'[d] \in Caches(d)
      BY <1>2, <2>3, <3>1, ListFacts
    <3>4. Placed(d) /\ Known(d)
      BY <1>1 DEF Local
    <3>5. Placed(d)' /\ Known(d)'
      BY <1>1, <1>a, <3>2, <3>3, <3>4, Carried, Zenon
    <3> QED BY <2>1, <3>5
  <2> QED BY <2>2, <2>3
<1>7. ASSUME NEW k \in 1..at[d] PROVE Settled(d, k)'
  <2>1. CASE List[d][k] = File(d)
    <3>1. Holds(disk, File(d), loaded[d][at[d]].id)
      BY <1>1, Zenon DEF Local, Fresh
    <3>2. k = at[d] \/ (k \in 1..(at[d] - 1) /\ Settled(d, k))
      <4>1. \A j \in 1..(at[d] - 1) : Settled(d, j)
        BY <1>1, Zenon DEF Local, Progress
      <4>2. k = at[d] \/ k \in 1..(at[d] - 1)
        BY <1>2
      <4> QED BY <4>1, <4>2
    <3>3. Legacy(durable[File(d)]) \/ durable[File(d)] = disk[File(d)]
      BY <1>2, Zenon DEF Inv, DurableInPlace
    <3> QED BY <1>a, <2>1, <3>1, <3>2, <3>3, Zenon DEF Settled, Holds
  <2>2. CASE List[d][k] /= File(d)
    <3>1. k \in 1..(at[d] - 1)
      BY <1>2, <2>2 DEF File
    <3>2. Settled(d, k)
      BY <1>1, <3>1, Zenon DEF Local, Progress
    <3>3. k \in 1..Len(List[d])
      BY <1>2, <3>1
    <3>4. durable'[List[d][k]] = durable[List[d][k]]
      BY <1>2, <1>a, <2>2, <3>3, Zenon
    <3> QED BY <1>a, <3>2, <3>4, StaySettled, Zenon
  <2> QED BY <2>1, <2>2
<1>8. Progress(d)'
  <2>1. CASE last
    <3>1. \A k \in Caches(d) : Settled(d, k)'
      BY <1>7, <2>1, ListFacts, Zenon
    <3> QED BY <1>b, <2>1, <3>1, Zenon DEF Progress, Working
  <2>2. CASE ~last
    <3>1. \A k \in 1..(at'[d] - 1) : Settled(d, k)'
      <4>1. at'[d] - 1 = at[d]
        BY <1>2, <1>b, <2>2
      <4> QED BY <1>7, <4>1, Zenon
    <3>2. result[d] /= "ok"
      BY <1>1, Zenon DEF Local, Progress
    <3> QED BY <1>b, <2>2, <3>1, <3>2, Zenon DEF Progress
  <2> QED BY <2>1, <2>2
<1>9. Honest(d)'
  <2>1. replaced[d] = Reported(entries[d]) \cup Owed(d)
    BY <1>1, Zenon DEF Local, Honest
  <2>2. Reported(entries'[d]) = replaced[d]
    <3>1. entries'[d] = entries[d] \cup {<<File(d), how>>}
      BY <1>1 DEF Inv, Typed
    <3>2. CASE Target(d).needsUpdate
      <4>1. entries'[d] = entries[d] \cup {<<File(d), "updated">>} /\ Owed(d) = {File(d)}
        BY <1>1, <3>1, <3>2 DEF Owed
      <4>2. Reported(entries[d] \cup {<<File(d), "updated">>}) = Reported(entries[d]) \cup {File(d)}
        BY ReportedGrows, "updated" /= "unchanged", Zenon
      <4> QED BY <2>1, <4>1, <4>2
    <3>3. CASE ~Target(d).needsUpdate
      <4>1. entries'[d] = entries[d] \cup {<<File(d), "unchanged">>} /\ Owed(d) = {}
        BY <3>1, <3>3 DEF Owed
      <4>2. Reported(entries[d] \cup {<<File(d), "unchanged">>}) = Reported(entries[d])
        BY ReportedGrows, Zenon
      <4> QED BY <2>1, <4>1, <4>2
    <3> QED BY <3>2, <3>3
  <2>3. Owed(d)' = {}
    BY <1>3 DEF Owed, Inv, Typed
  <2> QED BY <1>1, <2>2, <2>3, Zenon DEF Honest
<1>10. ASSUME NEW e \in Datasets, e /= d PROVE Local(e)'
  <2>1. /\ pc'[e] = pc[e] /\ at'[e] = at[e] /\ result'[e] = result[e]
        /\ entries'[e] = entries[e]
    BY <1>1, <1>3, <1>10, Zenon DEF Inv, Typed
  <2>2. \A f \in Files : f \in edited' \/ Legacy(durable[f]) \/ durable'[f] = durable[f]
    BY <1>a, Zenon DEF Inv, DurableInPlace
  <2> QED BY <1>1, <1>10, <2>1, <2>2, Bystander, Zenon
<1> QED BY <1>4, <1>5, <1>6, <1>8, <1>9, <1>10 DEF Inv, Local

\* A dataset whose process is gone claims nothing.
LEMMA KillStep == ASSUME Inv, NEW d \in Datasets, Kill(d) PROVE Inv'
<1>1. /\ pc' = [x \in Datasets |-> IF x = d THEN "unloaded" ELSE pc[x]]
      /\ temp' = [temp EXCEPT ![d] = "none"] /\ result' = [result EXCEPT ![d] = "none"]
      /\ UNCHANGED <<disk, durable, loaded, at, targets, entries, replaced, edited, faults>>
  BY DEF Kill, Gone
<1>2. Typed' /\ Exclusive' /\ DurableInPlace'
  BY <1>1, Zenon DEF Inv, Typed, Exclusive, Running, DurableInPlace
<1>3. Local(d)'
  BY <1>1, Zenon DEF Inv, Typed, Local, Placed, Working, Known, Running, Prepared, Replacing, Fresh,
              Progress, Honest
<1>4. ASSUME NEW e \in Datasets, e /= d PROVE Local(e)'
  BY <1>1, <1>4, Bystander, Zenon DEF Inv, Typed
<1> QED BY <1>2, <1>3, <1>4 DEF Inv, Local

\* A power loss leaves, of each manifest, a whole version.
LEMMA PowerStep == ASSUME Inv, PowerLoss PROVE Inv'
<1>1. /\ pc' = [d \in Datasets |-> "unloaded"] /\ temp' = [d \in Datasets |-> "none"]
      /\ result' = [d \in Datasets |-> "none"] /\ durable' = disk'
      /\ UNCHANGED <<loaded, at, targets, entries, replaced, edited, faults>>
  BY Zenon DEF PowerLoss
<1>2. disk' \in [Files -> Manifests]
  <2>1. PICK kept \in SUBSET Files :
          disk' = [f \in Files |-> IF f \in kept THEN disk[f] ELSE durable[f]]
    BY DEF PowerLoss
  <2> QED BY <2>1 DEF Inv, Typed
<1>3. Typed' /\ Exclusive' /\ DurableInPlace'
  BY <1>1, <1>2, Zenon DEF Inv, Typed, Exclusive, Running, DurableInPlace
<1>4. ASSUME NEW d \in Datasets PROVE Local(d)'
  BY <1>1, Zenon DEF Inv, Typed, Local, Placed, Working, Known, Running, Prepared, Replacing, Fresh,
              Progress, Honest
<1> QED BY <1>3, <1>4 DEF Inv, Local

\* Somebody else's manifest is whole, and no upgrade is about to replace it.
LEMMA EditStep == ASSUME Inv, NEW f \in Files, Edit(f) PROVE Inv'
<1>1. /\ \A d \in Datasets : ~Replacing(d)
      /\ edited' = edited \cup {f} /\ UNCHANGED <<temp, pc, loaded, call, limits>>
      /\ durable' = [durable EXCEPT ![f] = disk'[f]]
  BY DEF Edit
<1>2. PICK body \in {"original", "other"} : disk' = [disk EXCEPT ![f] = Manifest(2, NoId, body)]
  BY Zenon DEF Edit
<1>3. Manifest(2, NoId, body) \in Manifests
  BY DEF Manifest, Manifests, Legacy, NoId
<1>4. Typed' /\ Exclusive' /\ DurableInPlace'
  BY <1>1, <1>2, <1>3, Zenon DEF Inv, Typed, Exclusive, Running, DurableInPlace, call
<1>5. ASSUME NEW d \in Datasets PROVE Local(d)'
  <2>1. File(d) \in Files
    BY ListFacts, Zenon DEF Inv, Placed, File
  <2>2. /\ File(d) \in edited' \/ disk'[File(d)] = disk[File(d)]
        /\ \A g \in Files : g \in edited' \/ durable'[g] = durable[g]
    BY <1>1, <1>2, <2>1 DEF Inv, Typed
  <2> QED BY <1>1, <2>2, Bystander, Zenon DEF call
<1> QED BY <1>4, <1>5 DEF Inv, Local

\* Every step of every dataset and of the environment keeps the invariant.
LEMMA InvStep == Inv /\ [Next]_vars => Inv'
<1> SUFFICES ASSUME Inv, [Next]_vars PROVE Inv'
  OBVIOUS
<1>1. ASSUME NEW d \in Datasets, Step(d) PROVE Inv'
  BY <1>1, InspectStep, BeginStep, TemporaryStep, RenameStep, SyncStep DEF Step
<1>2. CASE UNCHANGED vars
  <2>1. Typed' /\ Exclusive' /\ DurableInPlace'
    BY <1>2, Zenon DEF vars, call, limits, Inv, Typed, Exclusive, Running, DurableInPlace
  <2>2. ASSUME NEW d \in Datasets PROVE Local(d)'
    BY <1>2, Bystander, Zenon DEF vars, call, limits
  <2> QED BY <2>1, <2>2 DEF Inv, Local
<1> QED
  BY <1>1, <1>2, LoadStep, RefuseStep, CallStep, FaultStep, KillStep, PowerStep, EditStep DEF Next

\* The invariant holds in every reachable state.
THEOREM MigrationInvariant == Spec => []Inv
<1> QED BY InvInit, InvStep, PTL DEF Spec

\* The manifest path never names a torn file: update_target syncs the temporary
\* file before the rename.
THEOREM ManifestsNeverTorn == Spec => []NeverTorn
<1>1. Inv => NeverTorn
  BY Zenon DEF Inv, Typed, Manifests, NeverTorn
<1> QED BY <1>1, MigrationInvariant, PTL

\* When update_manifests reports success every cache is stored, for good, under
\* the identity its dataset uses: a manifest that was replaced before is synced
\* again, and no later upgrade replaces a manifest that has an identity.
THEOREM SuccessStaysDurable == Spec => []SuccessIsDurable
<1>1. Inv => SuccessIsDurable
  BY Zenon DEF Inv, Progress, Settled, Holds, SuccessIsDurable
<1> QED BY <1>1, MigrationInvariant, PTL

\* The entries that update_manifests returns name exactly what it replaced.
THEOREM ReportsAreHonest == Spec => []HonestReport
<1>1. Inv => HonestReport
  BY Zenon DEF Inv, Honest, Reported, HonestReport
<1> QED BY <1>1, MigrationInvariant, PTL

\* update_target replaces only the manifest its dataset has loaded, by the same
\* manifest with the identity the dataset uses, whatever is rewritten meanwhile.
THEOREM OnlyLoadedIsReplaced == Spec => OnlyLoadedReplaced
<1> DEFINE Kept ==
      \A d \in Datasets : replaced'[d] /= replaced[d] /\ pc[d] = "rename" =>
        LET cache == loaded[d][at[d]] IN
          /\ disk[File(d)] = cache.manifest
          /\ disk'[File(d)] = Manifest(3, cache.id, cache.manifest.body)
<1>1. Inv /\ [Next]_vars => Kept
  <2> SUFFICES ASSUME Inv, [Next]_vars, NEW d \in Datasets,
                      replaced'[d] /= replaced[d], pc[d] = "rename"
               PROVE  LET cache == loaded[d][at[d]] IN
                        /\ disk[File(d)] = cache.manifest
                        /\ disk'[File(d)] = Manifest(3, cache.id, cache.manifest.body)
    BY Zenon
  <2>1. Rename(d)
    <3>1. ASSUME NEW e \in Datasets, replaced' = [replaced EXCEPT ![e] = {}], pc[e] = "idle"
          PROVE  FALSE
      BY <3>1, Zenon DEF Inv, Typed
    <3>2. ASSUME NEW e \in Datasets, Rename(e) PROVE Rename(d)
      BY <3>2, Zenon DEF Rename, Inv, Typed
    <3>3. replaced' /= replaced
      OBVIOUS
    <3>4. ASSUME NEW e \in Datasets,
                 Load(e) \/ Inspect(e) \/ Begin(e) \/ Write(e) \/ Flush(e) \/ SyncDirectory(e)
          PROVE  FALSE
      BY <3>3, <3>4, Zenon DEF Load, Inspect, Begin, Write, Flush, SyncDirectory, call
    <3>5. ASSUME NEW e \in Datasets, CallUpdate(e) \/ RefuseVersion(e) \/ Fault(e) \/ Kill(e)
          PROVE  FALSE
      BY <3>1, <3>3, <3>5, Zenon DEF CallUpdate, RefuseVersion, Fault, Kill
    <3>6. ASSUME PowerLoss \/ (\E f \in Files : Edit(f)) \/ UNCHANGED vars PROVE FALSE
      BY <3>3, <3>6, Zenon DEF PowerLoss, Edit, vars, call
    <3> QED BY <3>2, <3>4, <3>5, <3>6, Zenon DEF Next, Step
  <2>2. File(d) \in Files /\ disk[File(d)] = loaded[d][at[d]].manifest
        /\ disk' = [disk EXCEPT ![File(d)] =
                      Manifest(3, loaded[d][at[d]].id, loaded[d][at[d]].manifest.body)]
    BY <2>1, RenameEffect, Zenon
  <2> QED BY <2>2, Zenon DEF Inv, Typed
<1>2. Inv /\ [Next]_vars => [Kept]_vars
  BY <1>1, Zenon
<1>3. [][Kept]_vars <=> OnlyLoadedReplaced
  BY DEF OnlyLoadedReplaced
<1> QED BY <1>2, <1>3, MigrationInvariant, PTL DEF Spec

=============================================================================
