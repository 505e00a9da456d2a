--------------------------- MODULE DatasetExport ---------------------------
(***************************************************************************)
(* The Python face of a dataset: the native state with the recipe kept     *)
(* beside it, dump_config into a directory and from_config out of it.      *)
(*                                                                         *)
(* An export writes two files under temporary names, syncs each and        *)
(* renames the metadata first and the configuration last.  It may be       *)
(* interrupted or fail at any step, its process may be killed, and power   *)
(* may fail: the directory is never synced, so afterwards it is what it    *)
(* was at some earlier moment (directory operations are assumed to reach   *)
(* the disk in order), and a file that was not synced may be torn.  As     *)
(* dump_config demands, nobody else writes into the directory, and it is   *)
(* read only while no export is running in it.  One thread uses the        *)
(* dataset: no update comes between the table that dump_configuration      *)
(* exports and the recipe and epoch length that it reads afterwards.       *)
(***************************************************************************)
EXTENDS Integers

CONSTANTS
  Tables,       \* metadata tables
  Original,     \* the table of the caches as they were written
  Torn,         \* what a file with lost blocks reads as
  Rows,         \* the number of rows of each table
  EpochLens,    \* lengths passed to set_epoch_len
  PathLists,    \* what the public list cache_paths may be edited to
  None,
  MaxCalls,     \* bound: calls of dump_config
  MaxTroubles   \* bound: failures, interrupts, kills and power losses

\* DatasetConfiguration.
Configurations == [paths : PathLists, epochLen : Nat, rows : Nat]

\* A CachedDataset; paths and sampleCount are those of its recipe.
Datasets == [listed : PathLists, paths : PathLists, table : Tables, epochLen : Nat,
             sampleCount : Nat]

ASSUME ExportAssumption ==
  /\ Original \in Tables /\ None /= Torn
  /\ {None, Torn} \cap Tables = {}
  /\ None \notin Configurations \cup Datasets /\ Torn \notin Configurations
  /\ Rows \in [Tables \cup {Torn} -> Nat \ {0}]
  /\ EpochLens \subseteq Int

VARIABLES
  dataset,    \* native state (table, epochLen), recipe (paths, sampleCount), listed
  pc,         \* where dump_configuration is; "idle" outside of it
  config,     \* the DatasetConfiguration being exported
  dir,        \* the four files of the directory
  past,       \* the directory after each operation, all that power loss can leave
  rebuilt,    \* the last dataset from_config has made
  \* history and budgets
  exports,    \* what the calls of dump_config were asked to save
  returned,   \* what the call that returned has saved
  calls, troubles

vars == <<dataset, pc, config, dir, past, rebuilt, exports, returned, calls, troubles>>

-----------------------------------------------------------------------------
(* The dataset and its recipe *)

\* CachedDataset._load: the table as written; the recipe freezes the paths.
Loaded(paths) ==
  [listed |-> paths, paths |-> paths, table |-> Original, epochLen |-> Rows[Original],
   sampleCount |-> Rows[Original]]

\* update_metadata_arrow replaces table and epoch length; _restore_metadata
\* brings the recipe up to date afterwards.
NativeUpdated(d, table) == [d EXCEPT !.table = table, !.epochLen = Rows[table]]

RecipeUpdated(d) == [d EXCEPT !.sampleCount = d.epochLen]

Restored(d, table) == RecipeUpdated(NativeUpdated(d, table))

\* set_epoch_len; a length below one is refused.
WithEpochLen(d, n) == RecipeUpdated([d EXCEPT !.epochLen = n])

\* What a configuration has to preserve.
Snapshot(d) == [paths |-> d.paths, table |-> d.table, epochLen |-> d.epochLen]

-----------------------------------------------------------------------------
(* Files *)

Files == {"config", "metadata", "pendingConfig", "pendingMetadata"}

NoFile == [call |-> 0, data |-> None, synced |-> FALSE]

\* A file just written by the current call.
Fresh(data) == [call |-> calls, data |-> data, synced |-> FALSE]

EmptyDir == [f \in Files |-> NoFile]

\* One directory operation.
Becomes(d) == dir' = d /\ past' = past \cup {d}

Renamed(from, to) == [dir EXCEPT ![to] = dir[from], ![from] = NoFile]

\* _sync_file: the blocks of the file are safe, under whatever name it is found.
Sync(f) ==
  LET safe(d) == IF d[f] = dir[f] THEN [d EXCEPT ![f].synced = TRUE] ELSE d IN
  dir' = safe(dir) /\ past' = {safe(d) : d \in past}

Init ==
  /\ \E paths \in PathLists : dataset = Loaded(paths)
  /\ pc = "idle" /\ config = None
  /\ dir = EmptyDir /\ past = {EmptyDir}
  /\ rebuilt = None /\ exports = {} /\ returned = None
  /\ calls = 0 /\ troubles = 0

-----------------------------------------------------------------------------
(* Clients of the dataset *)

UpdateMetadata(table) ==
  /\ pc = "idle"
  /\ dataset' = Restored(dataset, table)
  /\ UNCHANGED <<pc, config, dir, past, rebuilt, exports, returned, calls, troubles>>

SetEpochLen(n) ==
  /\ pc = "idle" /\ n >= 1
  /\ dataset' = WithEpochLen(dataset, n)
  /\ UNCHANGED <<pc, config, dir, past, rebuilt, exports, returned, calls, troubles>>

Trouble == troubles < MaxTroubles /\ troubles' = troubles + 1

\* An interrupt between the native update and the recipe's.
UpdateInterrupted(table) ==
  /\ pc = "idle" /\ Trouble
  /\ dataset' = NativeUpdated(dataset, table)
  /\ UNCHANGED <<pc, config, dir, past, rebuilt, exports, returned, calls>>

\* cache_paths is a public list.
EditPaths(paths) ==
  /\ pc = "idle"
  /\ dataset' = [dataset EXCEPT !.listed = paths]
  /\ UNCHANGED <<pc, config, dir, past, rebuilt, exports, returned, calls, troubles>>

-----------------------------------------------------------------------------
(* dump_configuration *)

\* A variant of Dump that overwrites what it finds.
DumpOver ==
  /\ pc = "idle" /\ calls < MaxCalls
  /\ calls' = calls + 1
  /\ pc' = "export" /\ exports' = exports \cup {Snapshot(dataset)}
  /\ UNCHANGED <<dataset, config, dir, past, rebuilt, returned, troubles>>

\* Any of the four files refuses the call.
Dump ==
  /\ pc = "idle" /\ calls < MaxCalls
  /\ calls' = calls + 1
  /\ IF \E f \in Files : dir[f] /= NoFile
       THEN UNCHANGED <<pc, exports>>
       ELSE pc' = "export" /\ exports' = exports \cup {Snapshot(dataset)}
  /\ UNCHANGED <<dataset, config, dir, past, rebuilt, returned, troubles>>

Goes(from, to) == pc = from /\ pc' = to

ExportMetadata ==
  /\ Goes("export", "build")
  /\ Becomes([dir EXCEPT !["pendingMetadata"] = Fresh(dataset.table)])
  /\ UNCHANGED <<dataset, config, rebuilt, exports, returned, calls, troubles>>

\* A variant of BuildConfig that takes the epoch length from the recipe.
BuildConfigFromRecipe ==
  /\ Goes("build", "syncMetadata")
  /\ config' = [paths |-> dataset.paths, epochLen |-> dataset.sampleCount,
                rows |-> Rows[dir["pendingMetadata"].data]]
  /\ UNCHANGED <<dataset, dir, past, rebuilt, exports, returned, calls, troubles>>

\* DatasetConfiguration: frozen paths, the native epoch length, exported rows.
BuildConfig ==
  /\ Goes("build", "syncMetadata")
  /\ config' = [paths |-> dataset.paths, epochLen |-> dataset.epochLen,
                rows |-> Rows[dir["pendingMetadata"].data]]
  /\ UNCHANGED <<dataset, dir, past, rebuilt, exports, returned, calls, troubles>>

SyncMetadata ==
  /\ Goes("syncMetadata", "writeConfig") /\ Sync("pendingMetadata")
  /\ UNCHANGED <<dataset, config, rebuilt, exports, returned, calls, troubles>>

WriteConfig ==
  /\ Goes("writeConfig", "syncConfig")
  /\ Becomes([dir EXCEPT !["pendingConfig"] = Fresh(config)])
  /\ UNCHANGED <<dataset, config, rebuilt, exports, returned, calls, troubles>>

SyncConfig ==
  /\ Goes("syncConfig", "renameMetadata") /\ Sync("pendingConfig")
  /\ UNCHANGED <<dataset, config, rebuilt, exports, returned, calls, troubles>>

RenameMetadata ==
  /\ Goes("renameMetadata", "renameConfig")
  /\ Becomes(Renamed("pendingMetadata", "metadata"))
  /\ UNCHANGED <<dataset, config, rebuilt, exports, returned, calls, troubles>>

RenameConfig ==
  /\ Goes("renameConfig", "return")
  /\ Becomes(Renamed("pendingConfig", "config"))
  /\ UNCHANGED <<dataset, config, rebuilt, exports, returned, calls, troubles>>

Return ==
  /\ Goes("return", "idle")
  /\ returned' = Snapshot(dataset)
  /\ config' = None
  /\ UNCHANGED <<dataset, dir, past, rebuilt, exports, calls, troubles>>

-----------------------------------------------------------------------------
(* What goes wrong *)

Trying == {"export", "build", "syncMetadata", "writeConfig", "syncConfig", "renameMetadata",
           "renameConfig"}

Pending == IF pc = "export" THEN "pendingMetadata" ELSE "pendingConfig"

\* A step of the try block fails or is interrupted, or an interrupt comes after
\* the last rename and before the block is left; a file half written stays.
\* The handler goes on to remove the files.
Fails ==
  /\ pc \in Trying \cup {"return"} /\ Trouble
  /\ pc' = "unlink1"
  /\ \/ UNCHANGED <<dir, past>>
     \/ pc \in {"export", "writeConfig"} /\ Becomes([dir EXCEPT ![Pending] = Fresh(Torn)])
  /\ UNCHANGED <<dataset, config, rebuilt, exports, returned, calls>>

\* The handler's loop over the targets: the file to remove and where to go on.
Handler ==
  [unlink1 |-> [file |-> "config", then |-> "unlink2"],
   unlink2 |-> [file |-> "metadata", then |-> "unlink3"],
   unlink3 |-> [file |-> "pendingConfig", then |-> "unlink4"],
   unlink4 |-> [file |-> "pendingMetadata", then |-> "idle"]]

Unlink ==
  /\ pc \in DOMAIN Handler
  /\ Becomes([dir EXCEPT ![Handler[pc].file] = NoFile])
  /\ pc' = Handler[pc].then
  /\ config' = IF pc' = "idle" THEN None ELSE config
  /\ UNCHANGED <<dataset, rebuilt, exports, returned, calls, troubles>>

\* The call ends without the rest of its handler or with an export it has
\* published: an unlink fails or is interrupted, or validating the published
\* path is.
GivesUp ==
  /\ pc \in DOMAIN Handler \cup {"return"} /\ Trouble
  /\ pc' = "idle" /\ config' = None
  /\ UNCHANGED <<dataset, dir, past, rebuilt, exports, returned, calls>>

\* The process is killed; the next one opens the caches again.
Kill ==
  /\ Trouble
  /\ pc' = "idle" /\ config' = None /\ dataset' = Loaded(dataset.paths)
  /\ UNCHANGED <<dir, past, rebuilt, exports, returned, calls>>

\* Power fails: an earlier directory, and files that were not synced torn.
PowerLoss ==
  /\ Trouble
  /\ \E d \in past, torn \in SUBSET Files :
       dir' = [f \in Files |-> IF f \in torn /\ d[f] /= NoFile /\ ~d[f].synced
                                 THEN [d[f] EXCEPT !.data = Torn] ELSE d[f]]
  /\ past' = {dir'}
  /\ pc' = "idle" /\ config' = None /\ dataset' = Loaded(dataset.paths)
  /\ returned' = None
  /\ UNCHANGED <<rebuilt, exports, calls>>

-----------------------------------------------------------------------------
(* from_config *)

\* load_configuration: a missing or torn file is refused.
LoadConfiguration(d) == IF d["config"].data \in {None, Torn} THEN None ELSE d["config"].data

\* load_metadata: the file beside the configuration, with as many rows as that
\* says; lost blocks in the middle of an Arrow file go unnoticed.
LoadMetadata(d, c) ==
  LET table == d["metadata"].data IN
  IF table = None THEN None ELSE IF Rows[table] /= c.rows THEN None ELSE table

\* _from_configuration: open the caches, restore the table, then the length.
FromConfiguration(c, table) == WithEpochLen(Restored(Loaded(c.paths), table), c.epochLen)

\* What from_config makes of a directory, None for an exception.
Reconstructed(d) ==
  LET c == LoadConfiguration(d) IN
  IF c = None THEN None
  ELSE LET table == LoadMetadata(d, c) IN
       IF table = None THEN None ELSE FromConfiguration(c, table)

\* The client goes on with the dataset it has rebuilt.
FromConfig ==
  /\ pc = "idle" /\ Reconstructed(dir) /= None
  /\ dataset' = Reconstructed(dir)
  /\ rebuilt' = Snapshot(dataset')
  /\ UNCHANGED <<pc, config, dir, past, exports, returned, calls, troubles>>

DumpStep ==
  \/ ExportMetadata \/ BuildConfig \/ SyncMetadata \/ WriteConfig \/ SyncConfig
  \/ RenameMetadata \/ RenameConfig \/ Return \/ Unlink

Next ==
  \/ \E t \in Tables : UpdateMetadata(t) \/ UpdateInterrupted(t)
  \/ \E n \in EpochLens : SetEpochLen(n)
  \/ \E p \in PathLists : EditPaths(p)
  \/ Dump \/ DumpStep \/ Fails \/ GivesUp \/ Kill \/ PowerLoss \/ FromConfig

Spec == Init /\ [][Next]_vars

-----------------------------------------------------------------------------
(* Properties *)

\* from_config fails or rebuilds exactly what one call of dump_config was asked
\* to save: its table, its epoch length and the paths the dataset was opened
\* with.  Never a mixture of two exports, half a table, or the epoch length of
\* a stale recipe, whatever was interrupted, killed or lost, and wherever.
RebuildsExport == rebuilt /= None => rebuilt \in exports

\* Once dump_config has returned, from_config makes the dataset it saved: later
\* calls on the same directory, however they end, change nothing.
ReturnedStays ==
  returned /= None /\ pc = "idle" =>
    Reconstructed(dir) /= None /\ Snapshot(Reconstructed(dir)) = returned

=============================================================================
