--------------------------- MODULE CacheStorage ---------------------------
(***************************************************************************)
(* The contents of a cache directory: how CacheBuilder lays the records of *)
(* samples out in shard files, what it writes into the index and the       *)
(* metadata file, what load_cache verifies and how a sample is read back.  *)
(*                                                                         *)
(* A sample has an identity (its payload), the length of its stored record *)
(* and metadata: the set of its columns with their kinds, and what JSON    *)
(* does to its floats.  "exact" floats are read as they were written;      *)
(* "inexact" ones are finite but one of them is read as a neighbouring     *)
(* float, and is "moved" then (serde_json is built without its             *)
(* float_roundtrip feature); one of "nonfinite" floats is an infinity or   *)
(* not a number, and written as null.  A shard file is a sequence of       *)
(* bytes; byte k of the record of sample s is <<s, k>>, so a read at a     *)
(* wrong offset or length yields something that is not a record.           *)
(***************************************************************************)
EXTENDS Integers, Sequences

CONSTANTS
  MaxShardBytes,   \* WriterConfig.max_shard_bytes
  NoColumns        \* the empty metadata dict

ASSUME StorageAssumption == MaxShardBytes \in Nat \ {0}

ReadError == [id |-> 0]

\* encode_stored_record and encode_sample_record: the metadata as JSON and the
\* payload, compressed or not.
Record(s) == [k \in 1..s.size |-> <<s, k>>]

-----------------------------------------------------------------------------
(* Writing: CacheBuilder *)

EmptyBuilder ==
  [columns |-> NoColumns, rows |-> <<>>, index |-> <<>>, shards |-> <<>>, current |-> <<>>]

\* validate_metadata: the first sample that has metadata fixes the columns.
Accepts(b, s) == b.columns = NoColumns \/ s.columns = b.columns

\* rotate_shard_if_needed: a record that does not fit opens the next shard,
\* unless the current one is empty.
Rotated(b, size) ==
  IF b.current = <<>> \/ size <= MaxShardBytes - Len(b.current)
    THEN b
    ELSE [b EXCEPT !.shards = Append(@, b.current), !.current = <<>>]

\* A variant of Entry with the offset of the shard before the rotation.
EntryBeforeRotation(b, r, s) ==
  [shard |-> Len(r.shards), offset |-> Len(b.current), len |-> s.size]

\* OpenShard::write_payload: where the record of s goes; b is the builder that
\* accepted the sample, r the builder after a rotation.
Entry(b, r, s) == [shard |-> Len(r.shards), offset |-> Len(r.current), len |-> s.size]

\* push_sample: rotate, append the record, remember where it is.
Pushed(b, s) ==
  LET r == Rotated(b, s.size) IN
  [r EXCEPT !.columns = s.columns,
            !.current = @ \o Record(s),
            !.index = Append(@, Entry(b, r, s)),
            !.rows = Append(@, s)]

\* write_metadata_file: a table without columns, or with a row that lacks one of
\* them, cannot be written.
MetadataWritable(b) ==
  b.columns /= NoColumns /\ \A k \in DOMAIN b.rows : b.rows[k].columns = b.columns

\* finish succeeds.
Finishable(b) == b.index /= <<>> /\ MetadataWritable(b)

\* What finish leaves on disk: the shards with the open one, metadata, index,
\* and the manifest with the sample count and the shard lengths.
Finished(b) ==
  LET files == Append(b.shards, b.current) IN
  [shards |-> files, rows |-> b.rows, index |-> b.index, columns |-> b.columns,
   manifest |-> [count |-> Len(b.index), lengths |-> [k \in DOMAIN files |-> Len(files[k])]]]

-----------------------------------------------------------------------------
(* Reading: load_cache and read_sample_with_cache *)

\* verify_shards: the files have the lengths the manifest records.
ShardsVerified(cache) ==
  \A k \in DOMAIN cache.manifest.lengths : Len(cache.shards[k]) = cache.manifest.lengths[k]

\* validate_loaded_shapes: row counts and shard numbers agree.
ShapesAgree(cache, validate) ==
  /\ validate => Len(cache.rows) = cache.manifest.count
  /\ Len(cache.index) = cache.manifest.count
  /\ \A k \in DOMAIN cache.index : cache.index[k].shard < Len(cache.manifest.lengths)

\* load_cache.
Loads(cache, validate) == ShardsVerified(cache) /\ ShapesAgree(cache, validate)

\* split_sample_record on the record of s: its JSON has null in the place of a
\* float that is not finite, and null is no metadata value.
SplitRecord(s) ==
  CASE s.floats = "nonfinite" -> ReadError
    [] s.floats = "inexact"   -> [s EXCEPT !.floats = "moved"]
    [] OTHER                  -> s

\* decode_stored_record on the bytes read: they must be one whole record.
Decoded(bytes) ==
  IF bytes /= <<>> /\ bytes = Record(bytes[1][1]) THEN SplitRecord(bytes[1][1]) ELSE ReadError

\* MappedIndex::get and read_metadata_file: the entry and the metadata row of
\* sample `position` (from 0).
IndexEntry(cache, position) == cache.index[position + 1]
MetadataRow(cache, position) == cache.rows[position + 1]

\* read_sample_with_cache: sample `position` (from 0), checked against the
\* shard length and, on request, against its row of the metadata file.
ReadSample(cache, position, validate) ==
  LET entry == IndexEntry(cache, position)
      end == entry.offset + entry.len
      sample == Decoded(SubSeq(cache.shards[entry.shard + 1], entry.offset + 1, end))
  IN IF \/ end > cache.manifest.lengths[entry.shard + 1]
        \/ validate /\ sample /= MetadataRow(cache, position)
       THEN ReadError ELSE sample

=============================================================================
