--------------------------- MODULE CachedDataset ---------------------------
(***************************************************************************)
(* A dataset from end to end: caches are built, a dataset is opened over   *)
(* some of them, and its clients change the active metadata table and the  *)
(* epoch length and consume iterators, several at a time.                  *)
(*                                                                         *)
(* The state of PyCachedDataset is what its mutex guards (active,          *)
(* epochLen, sequentialOffset, shuffledDrawOffset); an iterator is the     *)
(* Python generator of CachedDataset.__iter__ with the plan the native     *)
(* iterator holds.  The order in which a native iterator emits its plan is *)
(* the subject of ReaderRuntime; here it emits the plan's samples in turn. *)
(*                                                                         *)
(* History variables: pushed and disk[c].samples are the samples a caller  *)
(* wrote; issued counts the samples handed to windows since the table was  *)
(* last replaced; an iterator's promised is what it has to deliver, its    *)
(* created what the dataset was like when Python called iter(), and kept   *)
(* says that it still was like that when the window was taken.             *)
(***************************************************************************)
EXTENDS EpochPlan, CacheStorage, Functions, FiniteSetsExt

CONSTANTS
  NumCaches,    \* caches written
  MaxSamples,   \* samples of one cache
  Kinds,        \* the samples a source may yield, without their identity
  Tables,       \* the metadata tables a client passes to update_metadata
  EpochLens,    \* the lengths a client passes to set_epoch_len
  NumIters,     \* iterators a client creates
  ValidateCache \* ReaderConfig.validate_cache

\* A stored record is never empty: encode_sample_record puts the length of the
\* metadata and its JSON before the payload.
ASSUME DatasetAssumption ==
  /\ Kinds \subseteq [id : Nat, size : Nat \ {0}, columns : {kind.columns : kind \in Kinds},
                      floats : {"exact", "inexact", "nonfinite"}]
  /\ Tables \subseteq Seq([cache : Nat, sample : Nat, weight : Int])
  /\ EpochLens \subseteq Int
  /\ ValidateCache \in BOOLEAN

VARIABLES
  builder, pushed, disk,
  paths, shuffle, active, epochLen, sequentialOffset, shuffledDrawOffset, issued,
  iterators

storageVars == <<builder, pushed, disk>>
stateVars   == <<paths, shuffle, active, epochLen, sequentialOffset, shuffledDrawOffset, issued>>
vars        == <<storageVars, stateVars, iterators>>

NoPlan == [shuffled |-> FALSE, start |-> 0, populationLen |-> 1, physicalIndices |-> <<0>>,
           len |-> 0]

NewIterator ==
  [status |-> "none", plan |-> NoPlan, out |-> <<>>, promised |-> <<>>, created |-> <<>>,
   kept |-> TRUE]

Init ==
  /\ builder = EmptyBuilder /\ pushed = <<>> /\ disk = <<>>
  /\ paths = <<>> /\ shuffle = FALSE /\ active = <<>> /\ epochLen = 1
  /\ sequentialOffset = 0 /\ shuffledDrawOffset = 0 /\ issued = 0
  /\ iterators = [i \in 1..NumIters |-> NewIterator]

-----------------------------------------------------------------------------
(* Writing caches *)

\* One sample of a source reaches CacheBuilder.  A sample whose metadata does
\* not fit fails the source and its unpublished files are discarded.
Push(kind) ==
  /\ paths = <<>> /\ Len(disk) < NumCaches /\ Len(pushed) < MaxSamples
  /\ LET s == [kind EXCEPT !.id = 10 * (Len(disk) + 1) + Len(pushed)] IN
     IF Accepts(builder, s)
       THEN builder' = Pushed(builder, s) /\ pushed' = Append(pushed, s)
       ELSE builder' = EmptyBuilder /\ pushed' = <<>>
  /\ UNCHANGED <<disk, stateVars, iterators>>

\* The source is exhausted.
Finish ==
  /\ paths = <<>> /\ pushed /= <<>>
  /\ disk' = IF Finishable(builder)
               THEN Append(disk, [files |-> Finished(builder), samples |-> pushed]) ELSE disk
  /\ builder' = EmptyBuilder /\ pushed' = <<>>
  /\ UNCHANGED <<stateVars, iterators>>

-----------------------------------------------------------------------------
(* The physical index space: caches in the order of the paths *)

SampleCount(c) == Len(disk[c].files.index)

\* cache_offsets, its running total: how many samples the first p paths have.
NextOffset(ps) ==
  LET nextOffset[p \in 0..Len(ps)] ==
        IF p = 0 THEN 0 ELSE nextOffset[p - 1] + SampleCount(ps[p])
  IN nextOffset

\* cache_offsets: the first physical index of each path's cache.
CacheOffsets(ps) == [p \in DOMAIN ps |-> NextOffset(ps)[p - 1]]

TotalSamples(ps) == NextOffset(ps)[Len(ps)]

\* A variant of LocatePhysicalSample whose partition point is one too low at
\* the first sample of a cache.
LocateBelowOffset(index) ==
  LET offsets == CacheOffsets(paths)
      p == Max({q \in DOMAIN paths : offsets[q] < index \/ q = 1})
  IN <<paths[p], index - offsets[p]>>

\* locate_physical_sample: the last path whose offset is not above the index.
LocatePhysicalSample(index) ==
  LET offsets == CacheOffsets(paths)
      p == Max({q \in DOMAIN paths : offsets[q] <= index})
  IN <<paths[p], index - offsets[p]>>

\* load_planned_sample.
LoadPlanned(index) ==
  LET at == LocatePhysicalSample(index) IN
  IF at[2] >= SampleCount(at[1]) THEN ReadError ELSE ReadSample(disk[at[1]].files, at[2], ValidateCache)

\* physical_index: the index of a row's (cache_id, sample_id).
KnownRow(row) == row.cache \in {paths[p] : p \in DOMAIN paths} /\ row.sample < SampleCount(row.cache)

PhysicalIndex(row) ==
  CacheOffsets(paths)[CHOOSE p \in DOMAIN paths : paths[p] = row.cache] + row.sample

IndexError == "IndexError"

\* get_item and load_sample_by_identity: a physical sample, whatever the active
\* table, cursors and iterators are.
GetItem(cache, sample) ==
  IF ~(cache >= 0 /\ sample >= 0 /\ KnownRow([cache |-> cache, sample |-> sample]))
    THEN IndexError
    ELSE ReadSample(disk[cache].files, sample, ValidateCache)

\* load: every cache passes load_cache, no cache appears twice, all have the
\* same columns, and the number of samples is a positive machine word.
Opens(ps) ==
  /\ ps /= <<>>
  /\ \A p \in DOMAIN ps : Loads(disk[ps[p]].files, ValidateCache)
  /\ \A p, q \in DOMAIN ps : p /= q => ps[p] /= ps[q]
  /\ \A p, q \in DOMAIN ps : disk[ps[p]].files.columns = disk[ps[q]].files.columns
  /\ TotalSamples(ps) \in Nat \ {0}

Open(ps, shuffled) ==
  /\ paths = <<>> /\ pushed = <<>> /\ Opens(ps)
  /\ paths' = ps /\ shuffle' = shuffled
  /\ active' = [k \in 1..TotalSamples(ps) |-> k - 1]
  /\ epochLen' = TotalSamples(ps)
  /\ UNCHANGED <<storageVars, sequentialOffset, shuffledDrawOffset, issued, iterators>>

-----------------------------------------------------------------------------
(* The mutable state of the dataset *)

\* extract_metadata_arrow and extract_metadata_ipc: at least one row, each one
\* known and with a positive weight; rows may repeat.
Acceptable(table) ==
  table /= <<>> /\ \A k \in DOMAIN table : KnownRow(table[k]) /\ table[k].weight > 0

\* update_metadata_arrow / update_metadata_ipc with replace_active: the whole
\* table is validated before anything changes.
UpdateMetadata(table) ==
  /\ paths /= <<>> /\ Acceptable(table)
  /\ active' = [k \in DOMAIN table |-> PhysicalIndex(table[k])]
  /\ epochLen' = Len(table)
  /\ sequentialOffset' = 0 /\ shuffledDrawOffset' = 0 /\ issued' = 0
  /\ UNCHANGED <<storageVars, paths, shuffle, iterators>>

SetEpochLen(n) ==
  /\ paths /= <<>> /\ n >= 1
  /\ epochLen' = n
  /\ UNCHANGED <<storageVars, paths, shuffle, active, sequentialOffset, shuffledDrawOffset,
                 issued, iterators>>

-----------------------------------------------------------------------------
(* Iterators *)

\* The sample a caller wrote behind a physical index: the samples of all caches
\* stand one after another, in the order of the paths.
Written(index) ==
  LET joined[p \in 0..Len(paths)] ==
        IF p = 0 THEN <<>> ELSE joined[p - 1] \o disk[paths[p]].samples
  IN joined[Len(paths)][index + 1]

\* What a caller gets for a sample it wrote.  Metadata whose floats JSON keeps
\* comes back as it was.  A float that JSON moves makes validate_cache refuse the
\* sample, and without validate_cache the sample comes back with it.  A sample
\* with a float that is not finite is refused.
Returned(s, validate) ==
  CASE s.floats = "exact"                -> s
    [] s.floats = "inexact" /\ ~validate -> [s EXCEPT !.floats = "moved"]
    [] OTHER                             -> ReadError

\* What the next iterator has to deliver: the samples after the issued ones,
\* of the cyclic order of the rows or of the stream of draws.
NextWindow ==
  [k \in 1..epochLen |->
     LET position == issued + k - 1
         row == (IF shuffle THEN Draws[position] ELSE position) % Len(active)
     IN Returned(Written(active[row + 1]), ValidateCache)]

\* iter(dataset): Python only creates the generator.
Iter(i) ==
  /\ paths /= <<>> /\ iterators[i].status = "none"
  /\ \A j \in 1..(i - 1) : iterators[j].status /= "none"
  /\ iterators' = [iterators EXCEPT ![i].status = "created", ![i].created = <<active, epochLen>>]
  /\ UNCHANGED <<storageVars, stateVars>>

\* The first next(): start_iterator snapshots the state into a plan and moves
\* the cursor past the window.
Begin(i) ==
  /\ paths /= <<>> /\ iterators[i].status = "created"
  /\ LET start == IF shuffle THEN shuffledDrawOffset ELSE sequentialOffset
         next == IF shuffle THEN AdvanceDrawOffset(start, epochLen)
                            ELSE AdvanceCyclicOffset(start, epochLen, Len(active))
     IN IF next = Overflow
          THEN /\ iterators' = [iterators EXCEPT ![i].status = "refused"]
               /\ UNCHANGED stateVars
          ELSE /\ iterators' = [iterators EXCEPT
                    ![i].status = "open",
                    ![i].plan = [shuffled |-> shuffle, start |-> start,
                                 populationLen |-> Len(active), physicalIndices |-> active,
                                 len |-> epochLen],
                    ![i].promised = NextWindow,
                    ![i].kept = iterators[i].created = <<active, epochLen>>,
                    ![i].created = <<>>]
               /\ sequentialOffset' = IF shuffle THEN sequentialOffset ELSE next
               /\ shuffledDrawOffset' = IF shuffle THEN next ELSE shuffledDrawOffset
               /\ issued' = issued + epochLen
               /\ UNCHANGED <<paths, shuffle, active, epochLen>>
  /\ UNCHANGED storageVars

\* next(): the sample of the plan's next position, an error when it cannot be
\* read, StopIteration after the last position.
Next_(i) ==
  /\ iterators[i].status = "open"
  /\ LET plan == iterators[i].plan
         sequence == Len(iterators[i].out)
         sample == LoadPlanned(plan.physicalIndices[PlannedRow(plan, sequence) + 1])
     IN iterators' =
          IF sequence >= plan.len THEN [iterators EXCEPT ![i].status = "ended"]
          ELSE IF sample = ReadError THEN [iterators EXCEPT ![i].status = "failed"]
          ELSE [iterators EXCEPT ![i].out = Append(@, sample)]
  /\ UNCHANGED <<storageVars, stateVars>>

Next ==
  \/ \E kind \in Kinds : Push(kind)
  \/ Finish
  \/ \E n \in 1..NumCaches, shuffled \in BOOLEAN :
       \E ps \in [1..n -> 1..Len(disk)] : Open(ps, shuffled)
  \/ \E table \in Tables : UpdateMetadata(table)
  \/ \E n \in EpochLens : SetEpochLen(n)
  \/ \E i \in 1..NumIters : Iter(i) \/ Begin(i) \/ Next_(i)

Spec == Init /\ [][Next]_vars

-----------------------------------------------------------------------------
(* Properties *)

\* What was written can be read, and where it cannot, exactly then: every cache
\* that finish() published passes load_cache, and each of its records, found
\* through the index across shard rotations, gives the sample that was pushed if
\* its floats survive JSON.  A sample with a float that is not finite is refused.
\* One with a finite float that JSON moves is refused under validate_cache; without
\* it the payload comes back with that other float.  In an open dataset get_item
\* finds each sample by its identity and nothing else, whatever the order of the
\* paths and the active table.
ReadsBack ==
  /\ \A c \in DOMAIN disk, validate \in BOOLEAN :
       /\ Loads(disk[c].files, validate) /\ SampleCount(c) = Len(disk[c].samples)
       /\ \A k \in DOMAIN disk[c].samples :
            ReadSample(disk[c].files, k - 1, validate) = Returned(disk[c].samples[k], validate)
  /\ paths /= <<>> => \A c \in 1..NumCaches, k \in -1..MaxSamples :
       GetItem(c, k) =
         IF c \in Range(paths) /\ k + 1 \in DOMAIN disk[c].samples
           THEN Returned(disk[c].samples[k + 1], ValidateCache)
           ELSE IndexError

\* The cursors agree with history: the sequential cursor stands at the row, the
\* draw offset at the draw, to which the samples handed out since the last
\* replacement of the table lead.
CursorContinues ==
  paths /= <<>> => IF shuffle THEN shuffledDrawOffset = issued
                              ELSE sequentialOffset = issued % Len(active)

\* The windows of the iterators tile one sequence.  However iterators,
\* update_metadata and set_epoch_len interleave, an iterator yields exactly the
\* samples that follow the windows handed out since the table was replaced, in
\* the cyclic order of its rows or in the order of the draws, as they were when
\* its window was taken.  It stops early only at a sample that is refused (its
\* floats do not survive JSON), and only the draw counter of a shuffled dataset can refuse it.
WindowsTile ==
  /\ CursorContinues
  /\ \A i \in 1..NumIters :
    LET it == iterators[i] IN
    /\ Len(it.out) <= Len(it.promised) /\ it.out = SubSeq(it.promised, 1, Len(it.out))
    /\ it.status = "ended" => it.out = it.promised
    /\ it.status = "failed" => it.promised[Len(it.out) + 1] = ReadError
    /\ it.status = "refused" => shuffle

\* "Iterator construction snapshots Rust runtime state.  Later set_epoch_len or
\* update_metadata calls affect future iterators, not this iterator."
SnapshotAtConstruction ==
  \A i \in 1..NumIters :
    iterators[i].status = "open" => iterators[i].kept

=============================================================================
