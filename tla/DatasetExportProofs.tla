------------------------ MODULE DatasetExportProofs ------------------------
(***************************************************************************)
(* Proofs about DatasetExport, for any tables, paths and epoch lengths and *)
(* any number of calls, failures, kills and power losses.                  *)
(*                                                                         *)
(* RebuildsExport is about what from_config has read; the invariant is     *)
(* about the directory.  In every directory that is, or that power loss    *)
(* can bring back, a configuration stands beside the whole and synced      *)
(* table it was exported with (Consistent).  That is preserved because     *)
(* the configuration is renamed last and removed first, and because both   *)
(* files are synced under their temporary names (Stage).                   *)
(***************************************************************************)
EXTENDS DatasetExport, TLAPS

Contents == Tables \cup {None, Torn} \cup Configurations

Dirs == [Files -> [call : Nat, data : Contents, synced : BOOLEAN]]

Places == Trying \cup {"idle", "return", "unlink1", "unlink2", "unlink3", "unlink4"}

TypeOK ==
  /\ dataset \in Datasets
  /\ config \in Configurations \cup {None}
  /\ pc \in Places
  /\ dir \in Dirs /\ past \in SUBSET Dirs
  /\ calls \in Nat /\ troubles \in Nat

\* The snapshot a directory holds.
Held(d) == [paths |-> d["config"].data.paths, table |-> d["metadata"].data,
            epochLen |-> d["config"].data.epochLen]

\* A configuration stands beside the whole, synced table of its own export.
Consistent(d) ==
  d["config"] /= NoFile =>
    /\ d["config"].data \in Configurations /\ d["config"].synced
    /\ d["metadata"].data \in Tables /\ d["metadata"].synced
    /\ d["config"].data.rows = Rows[d["metadata"].data]
    /\ Held(d) \in exports

\* What the running call has on disk when it is at pc.
Stage ==
  /\ pc \in Trying \cup {"unlink2", "unlink3", "unlink4"} => dir["config"] = NoFile
  /\ pc \in Trying \cup {"return"} => Snapshot(dataset) \in exports
  /\ pc \in {"build", "syncMetadata", "writeConfig", "syncConfig", "renameMetadata"} =>
       dir["pendingMetadata"].data = dataset.table
  /\ pc \in {"writeConfig", "syncConfig", "renameMetadata"} => dir["pendingMetadata"].synced
  /\ pc \in {"syncMetadata", "writeConfig", "syncConfig", "renameMetadata", "renameConfig"} =>
       config = [paths |-> dataset.paths, epochLen |-> dataset.epochLen,
                 rows |-> Rows[dataset.table]]
  /\ pc \in {"syncConfig", "renameMetadata", "renameConfig"} => dir["pendingConfig"].data = config
  /\ pc \in {"renameMetadata", "renameConfig"} => dir["pendingConfig"].synced
  /\ pc = "renameConfig" => dir["metadata"].data = dataset.table /\ dir["metadata"].synced
  /\ pc = "return" => dir["config"] /= NoFile /\ Held(dir) = Snapshot(dataset)

Inv ==
  /\ TypeOK /\ Stage
  /\ dir \in past /\ \A d \in past : Consistent(d)
  /\ returned /= None => pc = "idle" /\ dir["config"] /= NoFile /\ Held(dir) = returned
  /\ RebuildsExport

\* Opening the caches yields a dataset over the table as written (_load).
LEMMA LoadedType == ASSUME NEW paths \in PathLists PROVE Loaded(paths) \in Datasets
  BY ExportAssumption DEF Loaded, Datasets

\* What _from_configuration makes of paths, a table and an epoch length.
LEMMA RebuiltIs ==
  ASSUME NEW c, NEW t
  PROVE  FromConfiguration(c, t) =
           [listed |-> c.paths, paths |-> c.paths, table |-> t, epochLen |-> c.epochLen,
            sampleCount |-> c.epochLen]
<1> DEFINE p == c.paths
           n == c.epochLen
           l == [listed |-> p, paths |-> p, table |-> Original, epochLen |-> Rows[Original],
                 sampleCount |-> Rows[Original]]
           m == [listed |-> p, paths |-> p, table |-> t, epochLen |-> Rows[Original],
                 sampleCount |-> Rows[Original]]
           u == [listed |-> p, paths |-> p, table |-> t, epochLen |-> Rows[t],
                 sampleCount |-> Rows[Original]]
           r == [listed |-> p, paths |-> p, table |-> t, epochLen |-> Rows[t],
                 sampleCount |-> Rows[t]]
           e == [listed |-> p, paths |-> p, table |-> t, epochLen |-> n, sampleCount |-> Rows[t]]
           s == [listed |-> p, paths |-> p, table |-> t, epochLen |-> n, sampleCount |-> n]
<1>1. NativeUpdated(l, t) = u
  <2>1. [l EXCEPT !.table = t] = m
    OBVIOUS
  <2>2. [m EXCEPT !.epochLen = Rows[t]] = u
    OBVIOUS
  <2>3. NativeUpdated(l, t) = [[l EXCEPT !.table = t] EXCEPT !.epochLen = Rows[t]]
    BY DEF NativeUpdated
  <2> QED
    BY <2>1, <2>2, <2>3, Zenon
<1>2. RecipeUpdated(u) = r
  BY DEF RecipeUpdated
<1>3. [r EXCEPT !.epochLen = n] = e
  OBVIOUS
<1>4. RecipeUpdated(e) = s
  BY DEF RecipeUpdated
<1>5. Restored(Loaded(p), t) = r
  BY <1>1, <1>2, Zenon DEF Restored, Loaded
<1>6. WithEpochLen(r, n) = s
  BY <1>3, <1>4, Zenon DEF WithEpochLen
<1> QED
  BY <1>5, <1>6, Zenon DEF FromConfiguration

\* A consistent directory with a configuration is rebuilt to what it holds.
LEMMA ConsistentRebuilds ==
  ASSUME NEW d \in Dirs, Consistent(d), Reconstructed(d) /= None
  PROVE  /\ d["config"] /= NoFile
         /\ Reconstructed(d) \in Datasets
         /\ Snapshot(Reconstructed(d)) = Held(d)
<1> DEFINE c == d["config"].data
           t == d["metadata"].data
<1>1. c \notin {None, Torn}
  BY DEF Reconstructed, LoadConfiguration
<1>2. d["config"] /= NoFile
  BY <1>1 DEF NoFile
<1>3. c \in Configurations /\ t \in Tables
  BY <1>2 DEF Consistent
<1>4. Reconstructed(d) = FromConfiguration(c, t)
  BY <1>1, <1>3 DEF Reconstructed, LoadConfiguration, LoadMetadata
<1>5. FromConfiguration(c, t) =
        [listed |-> c.paths, paths |-> c.paths, table |-> t, epochLen |-> c.epochLen,
         sampleCount |-> c.epochLen]
  BY RebuiltIs
<1> QED
  BY <1>2, <1>3, <1>4, <1>5 DEF Snapshot, Held, Datasets, Configurations

\* The other way round: a consistent directory with a configuration loads.
LEMMA ConsistentLoads ==
  ASSUME NEW d \in Dirs, Consistent(d), d["config"] /= NoFile
  PROVE  Reconstructed(d) /= None /\ Snapshot(Reconstructed(d)) = Held(d)
<1> DEFINE c == d["config"].data
           t == d["metadata"].data
<1>1. c \in Configurations /\ t \in Tables /\ c.rows = Rows[t]
  BY DEF Consistent
<1>2. c \notin {None, Torn} /\ t /= None
  BY <1>1, ExportAssumption
<1>3. Reconstructed(d) = FromConfiguration(c, t)
  BY <1>1, <1>2 DEF Reconstructed, LoadConfiguration, LoadMetadata
<1>4. FromConfiguration(c, t) =
        [listed |-> c.paths, paths |-> c.paths, table |-> t, epochLen |-> c.epochLen,
         sampleCount |-> c.epochLen]
  BY RebuiltIs
<1>5. FromConfiguration(c, t) \in Datasets
  BY <1>1, <1>4 DEF Datasets, Configurations
<1> QED
  BY <1>3, <1>4, <1>5, ExportAssumption DEF Snapshot, Held

\* The directory is empty and there is no export (_load).
LEMMA InvInit == Init => Inv
<1> SUFFICES ASSUME Init PROVE Inv
  OBVIOUS
<1>1. EmptyDir \in Dirs /\ EmptyDir["config"] = NoFile
  BY DEF EmptyDir, Dirs, NoFile, Files, Contents
<1>2. dataset \in Datasets
  BY LoadedType DEF Init
<1> QED
  BY <1>1, <1>2 DEF Init, Inv, TypeOK, Places, Stage, Consistent, RebuildsExport, Trying

\* The snapshots asked for are never forgotten, so a directory that is
\* consistent stays so.
LEMMA ConsistentKept ==
  ASSUME NEW d, Consistent(d), exports \subseteq exports'
  PROVE  Consistent(d)'
BY DEF Consistent, Held

\* Between two calls of dump_config nothing is in progress.
LEMMA IdleStage == ASSUME pc' = "idle" PROVE Stage'
BY DEF Stage, Trying

\* Clients change the dataset only, between two exports (update_metadata,
\* set_epoch_len, an edited cache_paths, an interrupt before the recipe is
\* replaced).
LEMMA ClientStep ==
  ASSUME Inv, pc = "idle", dataset' \in Datasets, troubles' \in Nat,
         UNCHANGED <<pc, config, dir, past, rebuilt, exports, returned, calls>>
  PROVE  Inv'
<1>1. TypeOK'
  BY DEF Inv, TypeOK
<1>2. dir' \in past' /\ \A d \in past' : Consistent(d)'
  BY ConsistentKept DEF Inv
<1>3. returned' /= None => pc' = "idle" /\ dir'["config"] /= NoFile /\ Held(dir)' = returned'
  BY DEF Inv, Held
<1>4. RebuildsExport'
  BY DEF Inv, RebuildsExport
<1> QED BY <1>1, <1>2, <1>3, <1>4, IdleStage DEF Inv

\* One directory operation of the running call keeps the old directories.
LEMMA BecomesStep ==
  ASSUME Inv, NEW d \in Dirs, Becomes(d), Consistent(d), exports' = exports
  PROVE  dir' \in Dirs /\ past' \in SUBSET Dirs /\ dir' \in past' /\ \A e \in past' : Consistent(e)'
<1>1. dir' = d /\ past' = past \cup {d}
  BY DEF Becomes
<1>2. \A e \in past \cup {d} : Consistent(e)'
  BY ConsistentKept DEF Inv
<1> QED BY <1>1, <1>2 DEF Inv, TypeOK

\* _sync_file touches a file under its temporary name only.
LEMMA SyncStep ==
  ASSUME Inv, NEW f \in {"pendingConfig", "pendingMetadata"}, Sync(f), exports' = exports
  PROVE  /\ dir' = [dir EXCEPT ![f].synced = TRUE]
         /\ dir' \in Dirs /\ past' \in SUBSET Dirs /\ dir' \in past'
         /\ \A e \in past' : Consistent(e)'
<1> DEFINE safe(d) == IF d[f] = dir[f] THEN [d EXCEPT ![f].synced = TRUE] ELSE d
<1>1. dir' = safe(dir) /\ past' = {safe(d) : d \in past}
  BY DEF Sync
<1>2. ASSUME NEW d \in Dirs
      PROVE  /\ safe(d) \in Dirs
             /\ safe(d)["config"] = d["config"] /\ safe(d)["metadata"] = d["metadata"]
  BY Zenon DEF Dirs, Files
<1>3. ASSUME NEW d \in Dirs, Consistent(d), NEW e \in Dirs, e = safe(d)
      PROVE  Consistent(e)'
  BY <1>2, <1>3 DEF Consistent, Held
<1> HIDE DEF safe
<1>4. dir \in past /\ past \in SUBSET Dirs /\ dir \in Dirs /\ \A d \in past : Consistent(d)
  BY DEF Inv, TypeOK
<1>5. dir' = [dir EXCEPT ![f].synced = TRUE]
  BY <1>1 DEF safe
<1>6. \A e \in past' : Consistent(e)'
  <2> TAKE e \in past'
  <2> PICK d \in past : e = safe(d)
    BY <1>1
  <2> QED
    BY <1>2, <1>3, <1>4
<1>7. dir' \in Dirs /\ past' \in SUBSET Dirs /\ dir' \in past'
  BY <1>1, <1>2, <1>4
<1> QED
  BY <1>5, <1>6, <1>7

\* A step of the running call that leaves dataset, history and returned alone
\* preserves everything but what Stage says of its own place.
LEMMA CallStep ==
  ASSUME Inv, pc /= "idle",
         UNCHANGED <<dataset, rebuilt, exports, returned, calls>>, troubles' \in Nat,
         config' \in Configurations \cup {None},
         pc' \in Places,
         dir' \in Dirs, past' \in SUBSET Dirs, dir' \in past', \A e \in past' : Consistent(e)',
         Stage'
  PROVE  Inv'
<1>1. returned' = None
  BY DEF Inv
<1>2. TypeOK'
  BY DEF Inv, TypeOK
<1>3. RebuildsExport'
  BY DEF Inv, RebuildsExport
<1> QED BY <1>1, <1>2, <1>3 DEF Inv

\* Every step of dump_configuration, of its clients, readers and faults.
LEMMA InvStep == Inv /\ [Next]_vars => Inv'
<1> SUFFICES ASSUME Inv, [Next]_vars PROVE Inv'
  OBVIOUS
<1>a. /\ dataset \in Datasets /\ config \in Configurations \cup {None}
      /\ dir \in Dirs /\ past \in SUBSET Dirs /\ dir \in past
      /\ calls \in Nat /\ troubles \in Nat
  BY DEF Inv, TypeOK
<1>b. ASSUME exports \subseteq exports' PROVE \A d \in past : Consistent(d)'
  BY <1>b, ConsistentKept DEF Inv
<1>1. ASSUME NEW t \in Tables, UpdateMetadata(t) \/ UpdateInterrupted(t) PROVE Inv'
  <2>1. NativeUpdated(dataset, t) \in Datasets
    BY <1>a, ExportAssumption, Zenon DEF NativeUpdated, Datasets
  <2>2. \A d \in Datasets : RecipeUpdated(d) \in Datasets
    BY DEF RecipeUpdated, Datasets
  <2>3. Restored(dataset, t) \in Datasets
    BY <2>1, <2>2, Zenon DEF Restored
  <2>4. dataset' = Restored(dataset, t) \/ dataset' = NativeUpdated(dataset, t)
    BY <1>1, Zenon DEF UpdateMetadata, UpdateInterrupted
  <2>5. dataset' \in Datasets
    BY <2>1, <2>3, <2>4, Zenon
  <2>6. /\ pc = "idle" /\ troubles' \in Nat
        /\ UNCHANGED <<pc, config, dir, past, rebuilt, exports, returned, calls>>
    BY <1>a, <1>1 DEF UpdateMetadata, UpdateInterrupted, Trouble
  <2> QED
    BY <2>5, <2>6, ClientStep
<1>2. ASSUME NEW n \in EpochLens, SetEpochLen(n) PROVE Inv'
  <2>1. [dataset EXCEPT !.epochLen = n] \in Datasets
    BY <1>a, <1>2, ExportAssumption DEF SetEpochLen, Datasets
  <2>2. RecipeUpdated([dataset EXCEPT !.epochLen = n]) \in Datasets
    BY <2>1, Zenon DEF RecipeUpdated, Datasets
  <2>3. dataset' \in Datasets
    BY <1>2, <2>2, Zenon DEF SetEpochLen, WithEpochLen
  <2>4. /\ pc = "idle" /\ troubles' \in Nat
        /\ UNCHANGED <<pc, config, dir, past, rebuilt, exports, returned, calls>>
    BY <1>a, <1>2 DEF SetEpochLen
  <2> QED
    BY <2>3, <2>4, ClientStep
<1>3. ASSUME NEW p \in PathLists, EditPaths(p) PROVE Inv'
  <2>1. dataset' \in Datasets
    BY <1>a, <1>3 DEF EditPaths, Datasets
  <2>2. /\ pc = "idle" /\ troubles' \in Nat
        /\ UNCHANGED <<pc, config, dir, past, rebuilt, exports, returned, calls>>
    BY <1>a, <1>3 DEF EditPaths
  <2> QED
    BY <2>1, <2>2, ClientStep
<1>4. CASE Dump
  <2>1. /\ pc = "idle" /\ calls' = calls + 1
        /\ UNCHANGED <<dataset, config, dir, past, rebuilt, returned, troubles>>
    BY <1>4 DEF Dump
  <2>2. \/ \E f \in Files : dir[f] /= NoFile /\ UNCHANGED <<pc, exports>>
        \/ /\ \A f \in Files : dir[f] = NoFile
           /\ pc' = "export" /\ exports' = exports \cup {Snapshot(dataset)}
    BY <1>4 DEF Dump
  <2>3. \A d \in past' : Consistent(d)'
    BY <1>b, <2>1, <2>2
  <2>4. Stage'
    <3>1. CASE pc' = pc
      BY <2>1, <3>1, IdleStage
    <3>2. CASE pc' = "export" /\ exports' = exports \cup {Snapshot(dataset)} /\ dir["config"] = NoFile
      <4>1. Snapshot(dataset)' \in exports' /\ dir'["config"] = NoFile
        BY <2>1, <3>2 DEF Snapshot
      <4> QED
        BY <3>2, <4>1 DEF Stage
    <3> QED
      BY <2>2, <3>1, <3>2 DEF Files
  <2>5. returned' /= None => pc' = "idle" /\ dir'["config"] /= NoFile /\ Held(dir)' = returned'
    <3>1. returned /= None => dir["config"] /= NoFile /\ Held(dir) = returned
      BY DEF Inv
    <3>2. Held(dir)' = Held(dir)
      BY <2>1 DEF Held
    <3> QED
      BY <2>1, <2>2, <3>1, <3>2 DEF Files
  <2>6. RebuildsExport'
    BY <2>1, <2>2 DEF Inv, RebuildsExport
  <2>7. TypeOK'
    BY <1>a, <2>1, <2>2 DEF TypeOK, Places, Trying
  <2> QED
    BY <1>a, <2>1, <2>3, <2>4, <2>5, <2>6, <2>7 DEF Inv
<1>5. CASE ExportMetadata
  <2> DEFINE d == [dir EXCEPT !["pendingMetadata"] = Fresh(dataset.table)]
  <2>1. /\ pc = "export" /\ pc' = "build" /\ Becomes(d)
        /\ UNCHANGED <<dataset, config, rebuilt, exports, returned, calls, troubles>>
    BY <1>5 DEF ExportMetadata, Goes
  <2>2. d \in Dirs /\ d["config"] = dir["config"] /\ d["pendingMetadata"].data = dataset.table
    BY <1>a DEF Dirs, Files, Fresh, Contents, Datasets
  <2> HIDE DEF d
  <2>3. dir["config"] = NoFile /\ Snapshot(dataset) \in exports
    BY <2>1 DEF Inv, Stage, Trying
  <2>4. Consistent(d)
    BY <2>2, <2>3 DEF Consistent
  <2>5. dir' = d /\ Snapshot(dataset)' = Snapshot(dataset)
    BY <2>1 DEF Becomes, Snapshot
  <2>6. Stage'
    BY <2>1, <2>2, <2>3, <2>5 DEF Stage
  <2>7. dir' \in Dirs /\ past' \in SUBSET Dirs /\ dir' \in past' /\ \A e \in past' : Consistent(e)'
    BY <2>1, <2>2, <2>4, BecomesStep
  <2>8. pc /= "idle" /\ pc' \in Places
    BY <2>1 DEF Places, Trying
  <2> QED
    BY <1>a, <2>1, <2>6, <2>7, <2>8, CallStep
<1>6. CASE BuildConfig
  <2>1. /\ pc = "build" /\ pc' = "syncMetadata"
        /\ config' = [paths |-> dataset.paths, epochLen |-> dataset.epochLen,
                      rows |-> Rows[dir["pendingMetadata"].data]]
        /\ UNCHANGED <<dataset, dir, past, rebuilt, exports, returned, calls, troubles>>
    BY <1>6 DEF BuildConfig, Goes
  <2>2. /\ dir["pendingMetadata"].data = dataset.table
        /\ dir["config"] = NoFile /\ Snapshot(dataset) \in exports
    BY <2>1 DEF Inv, Stage, Trying
  <2>3. config' = [paths |-> dataset.paths, epochLen |-> dataset.epochLen,
                   rows |-> Rows[dataset.table]]
    BY <2>1, <2>2
  <2>4. config' \in Configurations
    BY <1>a, <2>3, ExportAssumption DEF Configurations, Datasets
  <2>5. Snapshot(dataset)' = Snapshot(dataset)
    BY <2>1 DEF Snapshot
  <2>6. Stage'
    BY <2>1, <2>2, <2>3, <2>5 DEF Stage
  <2>7. pc /= "idle" /\ pc' \in Places
    BY <2>1 DEF Places, Trying
  <2>8. \A d \in past' : Consistent(d)'
    BY <1>b, <2>1
  <2> QED
    BY <1>a, <2>1, <2>4, <2>6, <2>7, <2>8, CallStep
<1>7. CASE SyncMetadata
  <2>1. /\ pc = "syncMetadata" /\ pc' = "writeConfig" /\ Sync("pendingMetadata")
        /\ UNCHANGED <<dataset, config, rebuilt, exports, returned, calls, troubles>>
    BY <1>7 DEF SyncMetadata, Goes
  <2>2. /\ dir' = [dir EXCEPT !["pendingMetadata"].synced = TRUE]
        /\ dir' \in Dirs /\ past' \in SUBSET Dirs /\ dir' \in past'
        /\ \A e \in past' : Consistent(e)'
    BY <2>1, SyncStep
  <2>3. /\ dir'["config"] = dir["config"] /\ dir'["pendingMetadata"].synced
        /\ dir'["pendingMetadata"].data = dir["pendingMetadata"].data
    BY <1>a, <2>2 DEF Dirs, Files
  <2>4. Snapshot(dataset)' = Snapshot(dataset)
    BY <2>1 DEF Snapshot
  <2>5. /\ dir["pendingMetadata"].data = dataset.table
        /\ dir["config"] = NoFile /\ Snapshot(dataset) \in exports
        /\ config = [paths |-> dataset.paths, epochLen |-> dataset.epochLen,
                     rows |-> Rows[dataset.table]]
    BY <2>1 DEF Inv, Stage, Trying
  <2>6. Stage'
    BY <2>1, <2>3, <2>4, <2>5 DEF Stage
  <2>7. pc /= "idle" /\ pc' \in Places
    BY <2>1 DEF Places, Trying
  <2> QED
    BY <1>a, <2>1, <2>2, <2>6, <2>7, CallStep
<1>8. CASE WriteConfig
  <2> DEFINE d == [dir EXCEPT !["pendingConfig"] = Fresh(config)]
  <2>1. /\ pc = "writeConfig" /\ pc' = "syncConfig" /\ Becomes(d)
        /\ UNCHANGED <<dataset, config, rebuilt, exports, returned, calls, troubles>>
    BY <1>8 DEF WriteConfig, Goes
  <2>2. /\ d \in Dirs /\ d["config"] = dir["config"] /\ d["pendingConfig"].data = config
        /\ d["pendingMetadata"] = dir["pendingMetadata"]
    BY <1>a DEF Dirs, Files, Fresh, Contents
  <2> HIDE DEF d
  <2>3. /\ dir["pendingMetadata"].data = dataset.table /\ dir["pendingMetadata"].synced
        /\ dir["config"] = NoFile /\ Snapshot(dataset) \in exports
        /\ config = [paths |-> dataset.paths, epochLen |-> dataset.epochLen,
                     rows |-> Rows[dataset.table]]
    BY <2>1 DEF Inv, Stage, Trying
  <2>4. Consistent(d)
    BY <2>2, <2>3 DEF Consistent
  <2>5. dir' = d /\ Snapshot(dataset)' = Snapshot(dataset)
    BY <2>1 DEF Becomes, Snapshot
  <2>6. Stage'
    BY <2>1, <2>2, <2>3, <2>5, Zenon DEF Stage
  <2>7. dir' \in Dirs /\ past' \in SUBSET Dirs /\ dir' \in past' /\ \A e \in past' : Consistent(e)'
    BY <2>1, <2>2, <2>4, BecomesStep
  <2>8. pc /= "idle" /\ pc' \in Places
    BY <2>1 DEF Places, Trying
  <2> QED
    BY <1>a, <2>1, <2>6, <2>7, <2>8, CallStep
<1>9. CASE SyncConfig
  <2>1. /\ pc = "syncConfig" /\ pc' = "renameMetadata" /\ Sync("pendingConfig")
        /\ UNCHANGED <<dataset, config, rebuilt, exports, returned, calls, troubles>>
    BY <1>9 DEF SyncConfig, Goes
  <2>2. /\ dir' = [dir EXCEPT !["pendingConfig"].synced = TRUE]
        /\ dir' \in Dirs /\ past' \in SUBSET Dirs /\ dir' \in past'
        /\ \A e \in past' : Consistent(e)'
    BY <2>1, SyncStep
  <2>3. /\ dir'["config"] = dir["config"] /\ dir'["pendingMetadata"] = dir["pendingMetadata"]
        /\ dir'["pendingConfig"].synced /\ dir'["pendingConfig"].data = dir["pendingConfig"].data
    BY <1>a, <2>2 DEF Dirs, Files
  <2>4. Snapshot(dataset)' = Snapshot(dataset)
    BY <2>1 DEF Snapshot
  <2>5. /\ dir["pendingMetadata"].data = dataset.table /\ dir["pendingMetadata"].synced
        /\ dir["config"] = NoFile /\ Snapshot(dataset) \in exports
        /\ config = [paths |-> dataset.paths, epochLen |-> dataset.epochLen,
                     rows |-> Rows[dataset.table]]
        /\ dir["pendingConfig"].data = config
    BY <2>1 DEF Inv, Stage, Trying
  <2>6. Stage'
    BY <2>1, <2>3, <2>4, <2>5 DEF Stage
  <2>7. pc /= "idle" /\ pc' \in Places
    BY <2>1 DEF Places, Trying
  <2> QED
    BY <1>a, <2>1, <2>2, <2>6, <2>7, CallStep
<1>10. CASE RenameMetadata
  <2> DEFINE d == Renamed("pendingMetadata", "metadata")
  <2>1. /\ pc = "renameMetadata" /\ pc' = "renameConfig" /\ Becomes(d)
        /\ UNCHANGED <<dataset, config, rebuilt, exports, returned, calls, troubles>>
    BY <1>10 DEF RenameMetadata, Goes
  <2>2. /\ d \in Dirs /\ d["config"] = dir["config"] /\ d["pendingConfig"] = dir["pendingConfig"]
        /\ d["metadata"] = dir["pendingMetadata"]
    BY <1>a DEF Dirs, Files, Renamed, NoFile, Contents
  <2> HIDE DEF d
  <2>3. /\ dir["pendingMetadata"].data = dataset.table /\ dir["pendingMetadata"].synced
        /\ dir["config"] = NoFile /\ Snapshot(dataset) \in exports
        /\ config = [paths |-> dataset.paths, epochLen |-> dataset.epochLen,
                     rows |-> Rows[dataset.table]]
        /\ dir["pendingConfig"].data = config /\ dir["pendingConfig"].synced
    BY <2>1, Zenon DEF Inv, Stage, Trying
  <2>4. Consistent(d)
    BY <2>2, <2>3 DEF Consistent
  <2>5. dir' = d /\ Snapshot(dataset)' = Snapshot(dataset)
    BY <2>1 DEF Becomes, Snapshot
  <2>6. Stage'
    BY <2>1, <2>2, <2>3, <2>5, Zenon DEF Stage
  <2>7. dir' \in Dirs /\ past' \in SUBSET Dirs /\ dir' \in past' /\ \A e \in past' : Consistent(e)'
    BY <2>1, <2>2, <2>4, BecomesStep
  <2>8. pc /= "idle" /\ pc' \in Places
    BY <2>1 DEF Places, Trying
  <2> QED
    BY <1>a, <2>1, <2>6, <2>7, <2>8, CallStep
<1>11. CASE RenameConfig
  <2> DEFINE d == Renamed("pendingConfig", "config")
  <2>1. /\ pc = "renameConfig" /\ pc' = "return" /\ Becomes(d)
        /\ UNCHANGED <<dataset, config, rebuilt, exports, returned, calls, troubles>>
    BY <1>11 DEF RenameConfig, Goes
  <2>2. d \in Dirs /\ d["config"] = dir["pendingConfig"] /\ d["metadata"] = dir["metadata"]
    BY <1>a DEF Dirs, Files, Renamed, NoFile, Contents
  <2> HIDE DEF d
  <2>3. /\ config = [paths |-> dataset.paths, epochLen |-> dataset.epochLen,
                     rows |-> Rows[dataset.table]]
        /\ dir["pendingConfig"].data = config /\ dir["pendingConfig"].synced
        /\ dir["metadata"].data = dataset.table /\ dir["metadata"].synced
        /\ Snapshot(dataset) \in exports
    BY <2>1, Zenon DEF Inv, Stage, Trying
  <2>4. config \in Configurations /\ dataset.table \in Tables /\ config.rows = Rows[dataset.table]
    BY <1>a, <2>3, ExportAssumption DEF Configurations, Datasets
  <2>5. Held(d) = Snapshot(dataset) /\ d["config"] /= NoFile
    <3>1. /\ d["config"].data = config /\ d["metadata"].data = dataset.table
          /\ config.paths = dataset.paths /\ config.epochLen = dataset.epochLen
      BY <2>2, <2>3
    <3>2. config /= None /\ NoFile.data = None
      BY <2>4, ExportAssumption DEF NoFile
    <3> QED
      BY <3>1, <3>2 DEF Held, Snapshot
  <2>6. Consistent(d)
    BY <2>2, <2>3, <2>4, <2>5 DEF Consistent
  <2>7. dir' = d /\ Snapshot(dataset)' = Snapshot(dataset) /\ Held(dir)' = Held(d)
    BY <2>1 DEF Becomes, Snapshot, Held
  <2>8. Stage'
    BY <2>1, <2>3, <2>5, <2>7, Zenon DEF Stage, Trying
  <2>9. dir' \in Dirs /\ past' \in SUBSET Dirs /\ dir' \in past' /\ \A e \in past' : Consistent(e)'
    BY <2>1, <2>2, <2>6, BecomesStep, Zenon
  <2>10. pc /= "idle" /\ pc' \in Places
    BY <2>1 DEF Places, Trying
  <2> QED
    BY <1>a, <2>1, <2>8, <2>9, <2>10, CallStep
<1>12. CASE Return
  <2>1. /\ pc = "return" /\ pc' = "idle" /\ returned' = Snapshot(dataset) /\ config' = None
        /\ UNCHANGED <<dataset, dir, past, rebuilt, exports, calls, troubles>>
    BY <1>12 DEF Return, Goes
  <2>2. dir["config"] /= NoFile /\ Held(dir) = Snapshot(dataset)
    BY <2>1 DEF Inv, Stage
  <2>3. Held(dir)' = Held(dir) /\ \A d \in past' : Consistent(d)'
    BY <1>b, <2>1 DEF Held
  <2>4. RebuildsExport'
    BY <2>1 DEF Inv, RebuildsExport
  <2>5. TypeOK'
    BY <1>a, <2>1 DEF TypeOK, Places
  <2> QED
    BY <1>a, <2>1, <2>2, <2>3, <2>4, <2>5, IdleStage DEF Inv
<1>13. CASE Fails
  <2>1. /\ pc \in Trying \cup {"return"} /\ troubles' = troubles + 1 /\ pc' = "unlink1"
        /\ UNCHANGED <<dataset, config, rebuilt, exports, returned, calls>>
    BY <1>13 DEF Fails, Trouble
  <2>2. pc /= "idle" /\ pc' \in Places
    BY <2>1 DEF Places, Trying
  <2>3. Stage'
    BY <2>1 DEF Stage, Trying
  <2>4. dir' \in Dirs /\ past' \in SUBSET Dirs /\ dir' \in past' /\ \A e \in past' : Consistent(e)'
    <3>1. CASE UNCHANGED <<dir, past>>
      BY <1>a, <1>b, <2>1, <3>1
    <3>2. CASE pc \in {"export", "writeConfig"} /\ Becomes([dir EXCEPT ![Pending] = Fresh(Torn)])
      <4> DEFINE d == [dir EXCEPT ![Pending] = Fresh(Torn)]
      <4>1. d \in Dirs /\ d["config"] = dir["config"]
        BY <1>a DEF Dirs, Files, Fresh, Contents, Pending
      <4>2. Becomes(d)
        BY <3>2
      <4> HIDE DEF d
      <4>3. dir["config"] = NoFile
        BY <3>2, Zenon DEF Inv, Stage, Trying
      <4>4. Consistent(d)
        BY <4>1, <4>3 DEF Consistent
      <4> QED
        BY <2>1, <4>1, <4>2, <4>4, BecomesStep
    <3> QED
      BY <1>13, <3>1, <3>2 DEF Fails
  <2> QED
    BY <1>a, <2>1, <2>2, <2>3, <2>4, CallStep
<1>14. CASE Unlink
  <2> DEFINE d == [dir EXCEPT ![Handler[pc].file] = NoFile]
  <2>1. /\ pc \in DOMAIN Handler /\ Becomes(d) /\ pc' = Handler[pc].then
        /\ config' = IF pc' = "idle" THEN None ELSE config
        /\ UNCHANGED <<dataset, rebuilt, exports, returned, calls, troubles>>
    BY <1>14 DEF Unlink
  <2>2. pc \in {"unlink1", "unlink2", "unlink3", "unlink4"}
    BY <2>1, Zenon DEF Handler
  <2>3. /\ Handler[pc].file \in Files /\ Handler[pc].then \in {"idle", "unlink2", "unlink3", "unlink4"}
        /\ pc = "unlink1" => Handler[pc].file = "config"
    BY <2>2 DEF Files, Handler
  <2>4. pc /= "unlink1" => dir["config"] = NoFile
    BY <2>2, Zenon DEF Inv, Stage
  <2>5. d \in Dirs /\ d["config"] = NoFile
    BY <1>a, <2>3, <2>4, Zenon DEF Dirs, Files, NoFile, Contents
  <2> HIDE DEF d
  <2>6. Consistent(d)
    BY <2>5 DEF Consistent
  <2>7. dir'["config"] = NoFile
    BY <2>1, <2>5 DEF Becomes
  <2>8. Stage'
    BY <2>1, <2>3, <2>7, Zenon DEF Stage, Trying
  <2>9. dir' \in Dirs /\ past' \in SUBSET Dirs /\ dir' \in past' /\ \A e \in past' : Consistent(e)'
    BY <2>1, <2>5, <2>6, BecomesStep
  <2>10. pc /= "idle" /\ pc' \in Places
    BY <2>1, <2>2, <2>3 DEF Places
  <2>11. config' \in Configurations \cup {None}
    BY <1>a, <2>1
  <2> QED
    BY <1>a, <2>1, <2>8, <2>9, <2>10, <2>11, CallStep
<1>15. CASE GivesUp
  <2>1. /\ pc \in DOMAIN Handler \cup {"return"} /\ troubles' = troubles + 1
        /\ pc' = "idle" /\ config' = None
        /\ UNCHANGED <<dataset, dir, past, rebuilt, exports, returned, calls>>
    BY <1>15 DEF GivesUp, Trouble
  <2>2. pc /= "idle" /\ pc' \in Places
    BY <2>1 DEF Handler, Places
  <2>3. \A d \in past' : Consistent(d)'
    BY <1>b, <2>1
  <2>4. config' \in Configurations \cup {None} /\ troubles' \in Nat
    BY <1>a, <2>1
  <2> QED
    BY <1>a, <2>1, <2>2, <2>3, <2>4, IdleStage, CallStep
<1>16. CASE Kill
  <2>1. /\ troubles' = troubles + 1 /\ pc' = "idle" /\ config' = None
        /\ dataset' = Loaded(dataset.paths)
        /\ UNCHANGED <<dir, past, rebuilt, exports, returned, calls>>
    BY <1>16 DEF Kill, Trouble
  <2>2. dataset.paths \in PathLists
    BY <1>a DEF Datasets
  <2>3. dataset' \in Datasets
    BY <2>1, <2>2, LoadedType
  <2>4. Held(dir)' = Held(dir) /\ \A d \in past' : Consistent(d)'
    BY <1>b, <2>1 DEF Held
  <2>5. returned' /= None => dir'["config"] /= NoFile /\ Held(dir)' = returned'
    BY <2>1, <2>4 DEF Inv
  <2>6. RebuildsExport'
    BY <2>1 DEF Inv, RebuildsExport
  <2>7. TypeOK'
    BY <1>a, <2>1, <2>3 DEF TypeOK, Places
  <2> QED
    BY <1>a, <2>1, <2>4, <2>5, <2>6, <2>7, IdleStage DEF Inv
<1>17. CASE PowerLoss
  <2>1. /\ troubles' = troubles + 1 /\ pc' = "idle" /\ config' = None
        /\ dataset' = Loaded(dataset.paths) /\ past' = {dir'} /\ returned' = None
        /\ UNCHANGED <<rebuilt, exports, calls>>
    BY <1>17 DEF PowerLoss, Trouble
  <2>2. dataset.paths \in PathLists
    BY <1>a DEF Datasets
  <2>3. dataset' \in Datasets
    BY <2>1, <2>2, LoadedType
  <2> PICK d \in past, torn \in SUBSET Files :
        dir' = [f \in Files |-> IF f \in torn /\ d[f] /= NoFile /\ ~d[f].synced
                                  THEN [d[f] EXCEPT !.data = Torn] ELSE d[f]]
    BY <1>17, Zenon DEF PowerLoss
  <2>4. d \in Dirs /\ Consistent(d) /\ Consistent(d)'
    BY <1>a, <1>b, <2>1 DEF Inv
  <2>5. dir' \in Dirs
    BY <2>4 DEF Dirs, Contents
  <2>6. Consistent(dir)'
    <3>1. CASE d["config"] = NoFile
      BY <3>1 DEF Consistent, Files
    <3>2. CASE d["config"] /= NoFile
      <4>1. d["config"].synced /\ d["metadata"].synced
        BY <2>4, <3>2 DEF Consistent
      <4>2. dir'["config"] = d["config"] /\ dir'["metadata"] = d["metadata"]
        BY <4>1 DEF Files
      <4> QED
        BY <2>4, <4>2, Zenon DEF Consistent, Held
    <3> QED
      BY <3>1, <3>2
  <2>7. \A e \in past' : Consistent(e)'
    BY <2>1, <2>6, Zenon DEF Consistent, Held
  <2>8. RebuildsExport'
    BY <2>1 DEF Inv, RebuildsExport
  <2>9. past' \in SUBSET Dirs /\ dir' \in past' /\ troubles' \in Nat
    BY <1>a, <2>1, <2>5
  <2>10. TypeOK'
    BY <1>a, <2>1, <2>3, <2>5, <2>9 DEF TypeOK, Places
  <2> QED
    BY <2>1, <2>7, <2>8, <2>9, <2>10, IdleStage DEF Inv
<1>18. CASE FromConfig
  <2>1. /\ pc = "idle" /\ Reconstructed(dir) /= None /\ dataset' = Reconstructed(dir)
        /\ rebuilt' = Snapshot(dataset')
        /\ UNCHANGED <<pc, config, dir, past, exports, returned, calls, troubles>>
    BY <1>18 DEF FromConfig
  <2>2. Consistent(dir)
    BY <1>a DEF Inv
  <2>3. /\ dir["config"] /= NoFile /\ Reconstructed(dir) \in Datasets
        /\ Snapshot(Reconstructed(dir)) = Held(dir)
    BY <1>a, <2>1, <2>2, ConsistentRebuilds
  <2>4. Held(dir) \in exports
    BY <2>2, <2>3 DEF Consistent
  <2>5. dataset' \in Datasets /\ rebuilt' = Held(dir)
    BY <2>1, <2>3 DEF Snapshot
  <2>6. Held(dir)' = Held(dir) /\ \A d \in past' : Consistent(d)'
    BY <1>b, <2>1 DEF Held
  <2>7. returned' /= None => dir'["config"] /= NoFile /\ Held(dir)' = returned'
    BY <2>1, <2>6 DEF Inv
  <2>8. RebuildsExport'
    BY <2>1, <2>4, <2>5 DEF RebuildsExport
  <2>9. TypeOK'
    BY <1>a, <2>1, <2>5 DEF TypeOK, Places
  <2> QED
    BY <1>a, <2>1, <2>6, <2>7, <2>8, <2>9, IdleStage DEF Inv
<1>19. CASE UNCHANGED vars
  <2>1. UNCHANGED <<dataset, pc, config, dir, past, rebuilt, exports, returned, calls, troubles>>
    BY <1>19 DEF vars
  <2>2. Stage'
    BY <2>1, Zenon DEF Inv, Stage, Held, Snapshot
  <2>3. TypeOK' /\ RebuildsExport'
    BY <2>1 DEF Inv, TypeOK, RebuildsExport
  <2>4. Held(dir)' = Held(dir) /\ \A d \in past' : Consistent(d)'
    BY <1>b, <2>1 DEF Held
  <2> QED
    BY <2>1, <2>2, <2>3, <2>4 DEF Inv
<1> QED
  BY <1>1, <1>2, <1>3, <1>4, <1>5, <1>6, <1>7, <1>8, <1>9, <1>10, <1>11, <1>12, <1>13, <1>14,
     <1>15, <1>16, <1>17, <1>18, <1>19 DEF Next, DumpStep

\* The invariant of dump_configuration and from_config.
THEOREM ExportInvariant == Spec => []Inv
  BY InvInit, InvStep, PTL DEF Spec

\* from_config rebuilds exactly what one call of dump_config was asked to save,
\* or nothing, whatever was interrupted, killed or lost on the way.
THEOREM RebuildsWhatWasSaved == Spec => []RebuildsExport
<1>1. Inv => RebuildsExport
  BY DEF Inv
<1> QED
  BY <1>1, ExportInvariant, PTL

\* After dump_config has returned, from_config always makes what it saved.
THEOREM ReturnedExportStays == Spec => []ReturnedStays
<1>1. Inv => ReturnedStays
  <2> SUFFICES ASSUME Inv, returned /= None
               PROVE  Reconstructed(dir) /= None /\ Snapshot(Reconstructed(dir)) = returned
    BY DEF ReturnedStays
  <2>1. dir \in Dirs /\ Consistent(dir) /\ dir["config"] /= NoFile /\ Held(dir) = returned
    BY DEF Inv, TypeOK
  <2> QED
    BY <2>1, ConsistentLoads
<1> QED
  BY <1>1, ExportInvariant, PTL

=============================================================================
