------------------------- MODULE ManifestMigration -------------------------
(***************************************************************************)
(* CachedDataset.update_manifests(version=3): the resumable upgrade of     *)
(* legacy manifests in storage/migration.rs.                               *)
(*                                                                         *)
(* A v2 manifest has no identity of its own: a dataset that loads it uses  *)
(* the cache's position in its path list.  The upgrade writes that         *)
(* identity into a v3 manifest, through a temporary file that is flushed,  *)
(* synced and renamed over the manifest, and then syncs the directory.     *)
(* All targets are inspected first; they are then replaced one by one, so  *)
(* any file operation can fail, a signal can arrive, the process can be    *)
(* killed or the machine can lose power half way, and the caller retries.  *)
(*                                                                         *)
(* The caller owns manifest mutation: one upgrade runs at a time, and      *)
(* nobody edits a manifest between an upgrade's last look at it and its    *)
(* rename.  At any other time another dataset may have upgraded the cache, *)
(* or somebody may have rewritten its manifest.                            *)
(***************************************************************************)
EXTENDS Integers, Sequences, FiniteSets

CONSTANTS
  Files,      \* manifest files (canonical paths)
  Datasets,   \* loaded datasets, each in a process of its own
  List,       \* the path list of each dataset
  StoredIds,  \* identities found in manifests that are v3 or v4 already
  MaxFaults,  \* bound: file operations that fail, signals and refused calls
  MaxDeaths,  \* bound: killed processes and power losses
  MaxEdits    \* bound: manifests rewritten by somebody else

ASSUME MigrationAssumption ==
  /\ List \in [Datasets -> Seq(Files) \ {<<>>}]
  /\ StoredIds \subseteq Nat
  /\ MaxFaults \in Nat /\ MaxDeaths \in Nat /\ MaxEdits \in Nat

VARIABLES
  disk,     \* what a reader of the manifest path sees
  durable,  \* what the path is sure to hold after a power loss
  temp,     \* the temporary manifest of each upgrade
  pc,       \* where each dataset is
  loaded,   \* manifest and cache_id of each cache, as the dataset loaded them
  at,       \* the cache the upgrade is working on
  targets,  \* the Target records of the preflight
  entries,  \* the UpdateEntry records so far
  result,   \* what the last upgrade of the dataset returned
  replaced, \* history: the files that upgrade has replaced
  edited,   \* history: the files somebody else has rewritten
  faults, deaths

call   == <<at, targets, entries, result, replaced>>
limits == <<faults, deaths>>
vars   == <<disk, durable, temp, pc, loaded, call, edited, limits>>

NoId == -1

\* A manifest: its version, its identity, the other fields, and whether all of
\* the file is on stable storage.
Manifest(version, id, body) == [version |-> version, id |-> id, body |-> body, whole |-> TRUE]

Legacy(m) == m.version = 2

\* Manifest::resolve_cache_id, for a cache at a (zero based) list position.
ResolveCacheId(m, position) == IF Legacy(m) THEN position ELSE m.id

\* Manifest::into_v3.
IntoV3(m, id) == IF Legacy(m) THEN Manifest(3, id, m.body) ELSE m

Caches(d) == 1..Len(List[d])

Init ==
  /\ disk \in [Files -> {Manifest(2, NoId, "original")}
                        \cup {Manifest(v, id, "original") : v \in {3, 4}, id \in StoredIds}]
  /\ durable = disk
  /\ temp = [d \in Datasets |-> "none"]
  /\ pc = [d \in Datasets |-> "unloaded"]
  /\ loaded = [d \in Datasets |-> <<>>]
  /\ at = [d \in Datasets |-> 1]
  /\ targets = [d \in Datasets |-> <<>>]
  /\ entries = [d \in Datasets |-> {}]
  /\ result = [d \in Datasets |-> "none"]
  /\ replaced = [d \in Datasets |-> {}]
  /\ edited = {}
  /\ faults = 0 /\ deaths = 0

-----------------------------------------------------------------------------
(* Loading *)

\* load_caches and cache_lookup: a manifest that cannot be read, or two caches
\* with one identity, refuse the dataset.  All manifests are read in one step.
Load(d) ==
  LET seen == [k \in Caches(d) |->
                 [manifest |-> disk[List[d][k]],
                  id |-> ResolveCacheId(disk[List[d][k]], k - 1)]]
  IN
  /\ pc[d] = "unloaded"
  /\ \A k \in Caches(d) : seen[k].manifest.whole
  /\ \A j, k \in Caches(d) : seen[j].id = seen[k].id => j = k
  /\ loaded' = [loaded EXCEPT ![d] = seen]
  /\ pc' = [pc EXCEPT ![d] = "idle"]
  /\ result' = [result EXCEPT ![d] = "none"]
  /\ UNCHANGED <<disk, durable, temp, at, targets, entries, replaced, edited, limits>>

-----------------------------------------------------------------------------
(* The upgrade *)

Running(d) == pc[d] \notin {"unloaded", "idle"}

\* The file is being replaced: nobody else touches manifests meanwhile.
Replacing(d) == pc[d] \in {"write", "flush", "rename"}

File(d)   == List[d][at[d]]
Target(d) == targets[d][at[d]]

CallUpdate(d) ==
  /\ pc[d] = "idle"
  /\ \A other \in Datasets : ~Running(other)
  /\ pc' = [pc EXCEPT ![d] = "inspect"]
  /\ at' = [at EXCEPT ![d] = 1]
  /\ targets' = [targets EXCEPT ![d] = <<>>]
  /\ entries' = [entries EXCEPT ![d] = {}]
  /\ result' = [result EXCEPT ![d] = "none"]
  /\ replaced' = [replaced EXCEPT ![d] = {}]
  /\ UNCHANGED <<disk, durable, temp, loaded, edited, limits>>

\* update_manifests with a version other than 3 is refused before anything is read.
RefuseVersion(d) ==
  /\ pc[d] = "idle"
  /\ faults < MaxFaults
  /\ faults' = faults + 1
  /\ entries' = [entries EXCEPT ![d] = {}]
  /\ result' = [result EXCEPT ![d] = "error"]
  /\ replaced' = [replaced EXCEPT ![d] = {}]
  /\ UNCHANGED <<disk, durable, temp, pc, loaded, at, targets, edited, deaths>>

\* The native outcome becomes Ok(ManifestUpdateReport) or Err(ManifestUpdateError)
\* with the same entries; a signal raises.
Return(d, how) == pc' = [pc EXCEPT ![d] = "idle"] /\ result' = [result EXCEPT ![d] = how]

\* A variant of Fault that forgets a replacement whose sync failed.
FaultUnreported(d) ==
  /\ faults < MaxFaults
  /\ faults' = faults + 1
  /\ Return(d, "error")
  /\ temp' = [temp EXCEPT ![d] = "none"]
  /\ UNCHANGED <<disk, durable, loaded, at, targets, entries, replaced, edited, deaths>>

\* The upgrade ends early: a file operation failed or a signal was found.  The
\* signal error hides the entries.  The temporary file is removed.
Fault(d) ==
  /\ faults < MaxFaults
  /\ faults' = faults + 1
  /\ \E how \in IF pc[d] = "sync" /\ ~Target(d).needsUpdate THEN {"error"} ELSE {"error", "signal"} :
       Return(d, how)
  /\ temp' = [temp EXCEPT ![d] = "none"]
  /\ entries' = [entries EXCEPT ![d] =
       IF pc[d] = "sync" /\ Target(d).needsUpdate
         THEN @ \cup {<<File(d), "durability_unknown">>} ELSE @]
  /\ UNCHANGED <<disk, durable, loaded, at, targets, replaced, edited, deaths>>

\* A variant of Unexpected that takes the dataset's own earlier upgrade for a change.
UnexpectedStrict(d) == disk[File(d)] /= loaded[d][at[d]].manifest

\* inspect_target: what the dataset loaded must still be what is there, apart
\* from an upgrade that stored the very identity this dataset uses.
Unexpected(d) ==
  LET current == disk[File(d)]
      cache   == loaded[d][at[d]]
      earlier == 1..(at[d] - 1)
  IN
  \/ ~current.whole
  \/ \E j \in earlier : List[d][j] = File(d) \/ targets[d][j].id = cache.id
  \/ ~Legacy(current) /\ current.id /= cache.id
  \/ ~Legacy(cache.manifest) /\ Legacy(current)
  \/ cache.manifest.body /= current.body

\* preflight, one cache per step.
Inspect(d) ==
  /\ pc[d] = "inspect"
  /\ IF Unexpected(d)
       THEN Return(d, "error") /\ UNCHANGED <<at, targets>>
       ELSE /\ targets' = [targets EXCEPT ![d] =
                 Append(@, [id |-> loaded[d][at[d]].id, digest |-> disk[File(d)],
                            needsUpdate |-> Legacy(disk[File(d)])])]
            /\ LET last == at[d] = Len(List[d]) IN
                 /\ at' = [at EXCEPT ![d] = IF last THEN 1 ELSE @ + 1]
                 /\ pc' = [pc EXCEPT ![d] = IF last THEN "target" ELSE "inspect"]
            /\ UNCHANGED result
  /\ UNCHANGED <<disk, durable, temp, loaded, entries, replaced, edited, limits>>

\* A variant of Begin that trusts the preflight.
BeginUnchecked(d) ==
  /\ pc[d] = "target"
  /\ pc' = [pc EXCEPT ![d] = IF Target(d).needsUpdate THEN "write" ELSE "sync"]
  /\ temp' = [temp EXCEPT ![d] = IF Target(d).needsUpdate THEN "empty" ELSE @]
  /\ UNCHANGED <<disk, durable, loaded, call, edited, limits>>

\* update_target reads the manifest again: a change since the preflight ends
\* the upgrade.  A manifest that needs one gets a temporary file next to it.
Begin(d) ==
  /\ pc[d] = "target"
  /\ IF disk[File(d)] /= Target(d).digest
       THEN Return(d, "error") /\ UNCHANGED temp
       ELSE /\ pc' = [pc EXCEPT ![d] = IF Target(d).needsUpdate THEN "write" ELSE "sync"]
            /\ temp' = [temp EXCEPT ![d] = IF Target(d).needsUpdate THEN "empty" ELSE @]
            /\ UNCHANGED result
  /\ UNCHANGED <<disk, durable, loaded, at, targets, entries, replaced, edited, limits>>

\* The upgraded manifest goes into the temporary file ...
Write(d) ==
  /\ pc[d] = "write"
  /\ temp' = [temp EXCEPT ![d] = "written"]
  /\ pc' = [pc EXCEPT ![d] = "flush"]
  /\ UNCHANGED <<disk, durable, loaded, call, edited, limits>>

\* A variant of Flush that leaves the contents to the operating system.
FlushUnsynced(d) ==
  /\ pc[d] = "flush"
  /\ pc' = [pc EXCEPT ![d] = "rename"]
  /\ UNCHANGED <<disk, durable, temp, loaded, call, edited, limits>>

\* ... whose contents are flushed and synced ...
Flush(d) ==
  /\ pc[d] = "flush"
  /\ temp' = [temp EXCEPT ![d] = "synced"]
  /\ pc' = [pc EXCEPT ![d] = "rename"]
  /\ UNCHANGED <<disk, durable, loaded, call, edited, limits>>

\* ... before it is renamed over the manifest.
Rename(d) ==
  /\ pc[d] = "rename"
  /\ disk' = [disk EXCEPT ![File(d)] =
       [IntoV3(Target(d).digest, Target(d).id) EXCEPT !.whole = temp[d] = "synced"]]
  /\ temp' = [temp EXCEPT ![d] = "none"]
  /\ replaced' = [replaced EXCEPT ![d] = @ \cup {File(d)}]
  /\ pc' = [pc EXCEPT ![d] = "sync"]
  /\ UNCHANGED <<durable, loaded, at, targets, entries, result, edited, limits>>

\* A variant of SyncDirectory that skips manifests that need no upgrade.
SyncReplacedOnly(d) ==
  /\ pc[d] = "sync"
  /\ durable' = IF Target(d).needsUpdate THEN [durable EXCEPT ![File(d)] = disk[File(d)]] ELSE durable
  /\ entries' = [entries EXCEPT ![d] =
       @ \cup {<<File(d), IF Target(d).needsUpdate THEN "updated" ELSE "unchanged">>}]
  /\ IF at[d] = Len(List[d])
       THEN Return(d, "ok") /\ UNCHANGED at
       ELSE /\ at' = [at EXCEPT ![d] = @ + 1]
            /\ pc' = [pc EXCEPT ![d] = "target"]
            /\ UNCHANGED result
  /\ UNCHANGED <<disk, temp, loaded, targets, replaced, edited, limits>>

\* sync_manifest_directory, also for a manifest that was upgraded before.
SyncDirectory(d) ==
  /\ pc[d] = "sync"
  /\ durable' = [durable EXCEPT ![File(d)] = disk[File(d)]]
  /\ entries' = [entries EXCEPT ![d] =
       @ \cup {<<File(d), IF Target(d).needsUpdate THEN "updated" ELSE "unchanged">>}]
  /\ IF at[d] = Len(List[d])
       THEN Return(d, "ok") /\ UNCHANGED at
       ELSE /\ at' = [at EXCEPT ![d] = @ + 1]
            /\ pc' = [pc EXCEPT ![d] = "target"]
            /\ UNCHANGED result
  /\ UNCHANGED <<disk, temp, loaded, targets, replaced, edited, limits>>

Step(d) == Inspect(d) \/ Begin(d) \/ Write(d) \/ Flush(d) \/ Rename(d) \/ SyncDirectory(d)

-----------------------------------------------------------------------------
(* The environment *)

Gone(d) == [x \in Datasets |-> IF x = d THEN "unloaded" ELSE pc[x]]

\* The dataset's process ends or is killed.  Its temporary file stays behind, but
\* no later upgrade uses that name again (create_new in create_temporary).
Kill(d) ==
  /\ pc[d] /= "unloaded"
  /\ deaths < MaxDeaths /\ deaths' = deaths + 1
  /\ pc' = Gone(d)
  /\ temp' = [temp EXCEPT ![d] = "none"]
  /\ result' = [result EXCEPT ![d] = "none"]
  /\ UNCHANGED <<disk, durable, loaded, at, targets, entries, replaced, edited, faults>>

\* A rename that no directory sync has followed may be undone.
PowerLoss ==
  /\ deaths < MaxDeaths /\ deaths' = deaths + 1
  /\ \E kept \in SUBSET Files :
       disk' = [f \in Files |-> IF f \in kept THEN disk[f] ELSE durable[f]]
  /\ durable' = disk'
  /\ pc' = [d \in Datasets |-> "unloaded"]
  /\ temp' = [d \in Datasets |-> "none"]
  /\ result' = [d \in Datasets |-> "none"]
  /\ UNCHANGED <<loaded, at, targets, entries, replaced, edited, faults>>

\* Somebody rewrites a manifest: another cache at that path, or a backup.
Edit(f) ==
  /\ Cardinality(edited) < MaxEdits /\ f \notin edited
  /\ \A d \in Datasets : ~Replacing(d)
  /\ \E body \in {"original", "other"} : disk' = [disk EXCEPT ![f] = Manifest(2, NoId, body)]
  /\ durable' = [durable EXCEPT ![f] = disk'[f]]
  /\ edited' = edited \cup {f}
  /\ UNCHANGED <<temp, pc, loaded, call, limits>>

Next ==
  \/ \E d \in Datasets : Load(d) \/ RefuseVersion(d) \/ CallUpdate(d) \/ Step(d) \/ (Running(d) /\ Fault(d)) \/ Kill(d)
  \/ PowerLoss
  \/ \E f \in Files : Edit(f)

Spec == Init /\ [][Next]_vars

\* An upgrade goes on.  Its caller loads the dataset again after a death,
\* gets its turn to be the only writer of manifests again and again, and
\* retries until it succeeds, as the documentation asks.
Fairness ==
  \A d \in Datasets :
    /\ WF_vars(Step(d))
    /\ WF_vars(Load(d))
    /\ SF_vars(result[d] /= "ok" /\ CallUpdate(d))

FairSpec == Spec /\ Fairness

-----------------------------------------------------------------------------
(* Properties *)

\* The manifest path never names a file whose contents a power loss could
\* still tear, at any step of any upgrade.
NeverTorn == \A f \in Files : disk[f].whole /\ durable[f].whole

\* A successful upgrade is permanent: every cache of the dataset is stored,
\* for good, under the identity this dataset has been using, whatever faults,
\* deaths and half-done upgrades came before.
SuccessIsDurable ==
  \A d \in Datasets : result[d] = "ok" => \A k \in Caches(d) :
    List[d][k] \notin edited =>
      ~Legacy(durable[List[d][k]]) /\ durable[List[d][k]].id = loaded[d][k].id

\* The report of a failed upgrade names exactly the manifests it replaced, so
\* a failure of the preflight has replaced nothing.
HonestReport ==
  \A d \in Datasets : pc[d] = "idle" /\ result[d] \in {"ok", "error"} =>
    replaced[d] = {e[1] : e \in {x \in entries[d] : x[2] /= "unchanged"}}

\* An upgrade replaces only the very manifest that its dataset has loaded, by
\* the same manifest with the identity the dataset uses: what was rewritten
\* since, even between the preflight and the replacement, stays.
OnlyLoadedReplaced ==
  [][\A d \in Datasets : replaced'[d] /= replaced[d] /\ pc[d] = "rename" =>
       LET cache == loaded[d][at[d]] IN
         /\ disk[File(d)] = cache.manifest
         /\ disk'[File(d)] = Manifest(3, cache.id, cache.manifest.body)]_vars

\* A dataset that could be loaded once can be upgraded: whatever half-done
\* state faults and deaths leave, it loads again and the retry succeeds, unless
\* a manifest was rewritten or another dataset has stored its own identities.
RetrySucceeds ==
  \A d \in Datasets : (pc[d] = "idle") ~>
    \/ result[d] = "ok"
    \/ edited /= {}
    \/ pc[d] /= "unloaded" /\ \E k \in Caches(d) :
         LET stored == disk[List[d][k]] IN ~Legacy(stored) /\ stored.id /= loaded[d][k].id

=============================================================================
