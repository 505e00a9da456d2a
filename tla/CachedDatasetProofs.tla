------------------------ MODULE CachedDatasetProofs ------------------------
(***************************************************************************)
(* A dataset for every number of caches, samples and iterators, every      *)
(* table, epoch length and shard limit: its cursors stand where the        *)
(* samples handed out lead, what was written can be read back, and the     *)
(* iterators yield the windows of one sequence.                            *)
(***************************************************************************)
EXTENDS CachedDataset, WellFoundedInduction, TLAPS

-----------------------------------------------------------------------------
(* Cyclic arithmetic: windows taken one after another continue one cycle *)

\* Quotient and remainder of the integers.
LEMMA DivMod ==
  ASSUME NEW x \in Int, NEW n \in Nat \ {0}
  PROVE  /\ x % n \in 0..(n - 1)
         /\ x \div n \in Int
         /\ x = n * (x \div n) + (x % n)
OBVIOUS

\* A remainder is determined by any decomposition.
LEMMA ModUnique ==
  ASSUME NEW x \in Int, NEW n \in Nat \ {0}, NEW r \in 0..(n - 1),
         \E q \in Int : x = n * q + r
  PROVE  x % n = r
OBVIOUS

\* advance_cyclic_offset and wrapping_add_mod compute (start + step) % population
\* although neither ever forms that sum, and their subtraction does not underflow.
THEOREM AdvanceIsCyclicAddition ==
  ASSUME NEW n \in Nat \ {0}, NEW start \in 0..(n - 1), NEW step \in Nat
  PROVE  AdvanceCyclicOffset(start, step, n) = (start + step) % n
<1> DEFINE s == step % n
           d == step \div n
<1>1. s \in 0..(n - 1) /\ d \in Int /\ step = n * d + s
  BY DivMod
<1>2. CASE start >= n - s
  <2>1. start - (n - s) \in 0..(n - 1)
    BY <1>1, <1>2
  <2>2. start + step = n * (d + 1) + (start - (n - s))
    BY <1>1
  <2>3. (start + step) % n = start - (n - s)
    <3> HIDE DEF s, d
    <3>1. d + 1 \in Int /\ start + step \in Int
      BY <1>1
    <3>2. \E q \in Int : start + step = n * q + (start - (n - s))
      BY <2>2, <3>1
    <3> QED BY <2>1, <3>1, <3>2, ModUnique
  <2> QED BY <1>2, <2>3 DEF AdvanceCyclicOffset
<1>3. CASE ~(start >= n - s)
  <2>1. start + s \in 0..(n - 1)
    BY <1>1, <1>3
  <2>2. start + step = n * d + (start + s)
    BY <1>1
  <2>3. (start + step) % n = start + s
    <3> HIDE DEF s, d
    <3>1. \E q \in Int : start + step = n * q + (start + s)
      BY <2>2, <1>1
    <3>2. start + step \in Int
      OBVIOUS
    <3> QED BY <2>1, <3>1, <3>2, ModUnique
  <2> QED BY <1>3, <2>3 DEF AdvanceCyclicOffset
<1> QED BY <1>2, <1>3

\* Adding to a remainder is adding to what it is the remainder of.
LEMMA ModAbsorbs ==
  ASSUME NEW n \in Nat \ {0}, NEW a \in Nat, NEW b \in Nat
  PROVE  ((a % n) + b) % n = (a + b) % n
<1> DEFINE r == a % n
           q == a \div n
           t == (r + b) % n
           p == (r + b) \div n
<1>1. r \in 0..(n - 1) /\ q \in Int /\ a = n * q + r
  BY DivMod
<1>2. t \in 0..(n - 1) /\ p \in Int /\ r + b = n * p + t
  BY <1>1, DivMod
<1>3. a + b = n * (q + p) + t
  <2> HIDE DEF r, q, t, p
  <2> QED BY <1>1, <1>2
<1>4. (a + b) % n = t
  <2> HIDE DEF r, q, t, p
  <2>1. q + p \in Int /\ a + b \in Int
    BY <1>1, <1>2
  <2>2. \E z \in Int : a + b = n * z + t
    BY <1>3, <2>1
  <2> QED BY <1>2, <2>1, <2>2, ModUnique
<1> QED BY <1>4

\* Windows tile the cycle.  If the cursor stands where `taken` samples of the
\* cycle lead, the sample at position k of the next window is sample taken + k
\* of the cycle, and the cursor moved past the window stands where
\* taken + len samples lead.
THEOREM WindowsContinueTheCycle ==
  ASSUME NEW n \in Nat \ {0}, NEW taken \in Nat, NEW cursor \in 0..(n - 1),
         cursor = taken % n, NEW len \in Nat
  PROVE  /\ AdvanceCyclicOffset(cursor, len, n) = (taken + len) % n
         /\ \A k \in 0..(len - 1) :
              PlannedRow([shuffled |-> FALSE, start |-> cursor, populationLen |-> n], k)
                = (taken + k) % n
<1>1. \A k \in Nat : AdvanceCyclicOffset(cursor, k, n) = (taken + k) % n
  <2> TAKE k \in Nat
  <2>1. AdvanceCyclicOffset(cursor, k, n) = (cursor + k) % n
    BY AdvanceIsCyclicAddition
  <2>2. ((taken % n) + k) % n = (taken + k) % n
    BY ModAbsorbs
  <2> QED BY <2>1, <2>2
<1>2. ASSUME NEW k \in 0..(len - 1)
      PROVE  PlannedRow([shuffled |-> FALSE, start |-> cursor, populationLen |-> n], k)
               = (taken + k) % n
  <2>1. k \in Nat
    OBVIOUS
  <2>2. PlannedRow([shuffled |-> FALSE, start |-> cursor, populationLen |-> n], k)
          = AdvanceCyclicOffset(cursor, k, n)
    BY DEF PlannedRow
  <2> QED BY <1>1, <2>1, <2>2
<1>3. AdvanceCyclicOffset(cursor, len, n) = (taken + len) % n
  BY <1>1
<1> QED BY <1>2, <1>3

-----------------------------------------------------------------------------
(* Cursors, records and windows *)

\* A function on 1..n is a sequence of length n.
LEMMA LenOfFunction ==
  ASSUME NEW n \in Nat, NEW f, f = [k \in 1..n |-> f[k]]
  PROVE  Len(f) = n
<1> DEFINE S == {f[k] : k \in 1..n}
<1>1. f \in [1..n -> S]
  OBVIOUS
<1>2. f \in Seq(S)
  BY <1>1
<1>3. DOMAIN f = 1..Len(f) /\ Len(f) \in Nat
  BY <1>2
<1> QED BY <1>1, <1>3

\* Before a dataset is open nothing was handed out; afterwards the table is not
\* empty, the epoch is positive and the cursors follow the history.
CursorInv ==
  /\ issued \in Nat
  /\ epochLen \in Nat \ {0}
  /\ paths = <<>> => sequentialOffset = 0 /\ shuffledDrawOffset = 0 /\ issued = 0
  /\ paths /= <<>> => Len(active) \in Nat \ {0}
  /\ CursorContinues

\* Before a dataset is opened nothing was handed out.
LEMMA CursorInit == Init => CursorInv
BY DEF Init, CursorInv, CursorContinues

\* Zero is the cursor of a new table.
LEMMA ZeroMod ==
  ASSUME NEW n \in Nat \ {0}
  PROVE  0 % n = 0
OBVIOUS

\* Every step keeps the cursors in agreement with history: starting an iterator
\* moves cursor and history together, replacing the table resets both.
LEMMA CursorStep == CursorInv /\ [Next]_vars => CursorInv'
<1> SUFFICES ASSUME CursorInv, [Next]_vars PROVE CursorInv'
  OBVIOUS
<1>1. ASSUME UNCHANGED stateVars PROVE CursorInv'
  BY <1>1 DEF CursorInv, CursorContinues, stateVars
<1>2. ASSUME NEW kind \in Kinds, Push(kind) PROVE CursorInv'
  BY <1>1, <1>2 DEF Push
<1>3. CASE Finish
  BY <1>1, <1>3 DEF Finish
<1>4. ASSUME NEW ps, NEW shuffled \in BOOLEAN, Open(ps, shuffled) PROVE CursorInv'
  <2> DEFINE n == TotalSamples(ps)
  <2>1. paths = <<>> /\ paths' = ps /\ paths' /= <<>> /\ n \in Nat \ {0}
    BY <1>4 DEF Open, Opens
  <2>2. active' = [k \in 1..n |-> k - 1] /\ epochLen' = n
    BY <1>4 DEF Open
  <2>3. UNCHANGED <<sequentialOffset, shuffledDrawOffset, issued>>
    BY <1>4 DEF Open
  <2> HIDE DEF n
  <2>4. Len(active') = n
    <3>1. active' = [k \in 1..n |-> active'[k]]
      BY <2>2
    <3> QED BY <2>1, <3>1, LenOfFunction
  <2>5. sequentialOffset' = 0 /\ shuffledDrawOffset' = 0 /\ issued' = 0
    BY <2>1, <2>3 DEF CursorInv
  <2>6. 0 % n = 0
    BY <2>1, ZeroMod
  <2> QED BY <2>1, <2>2, <2>4, <2>5, <2>6 DEF CursorInv, CursorContinues
<1>5. ASSUME NEW table \in Tables, UpdateMetadata(table) PROVE CursorInv'
  <2>1. table \in Seq([cache : Nat, sample : Nat, weight : Int]) /\ table /= <<>>
    BY <1>5, DatasetAssumption DEF UpdateMetadata, Acceptable
  <2>2. Len(table) \in Nat \ {0} /\ DOMAIN table = 1..Len(table)
    BY <2>1
  <2>3. active' = [k \in 1..Len(table) |-> active'[k]] /\ epochLen' = Len(table)
    BY <1>5, <2>2 DEF UpdateMetadata
  <2>4. Len(active') = Len(table)
    BY <2>2, <2>3, LenOfFunction
  <2>5. sequentialOffset' = 0 /\ shuffledDrawOffset' = 0 /\ issued' = 0
        /\ paths /= <<>> /\ paths' = paths
    BY <1>5 DEF UpdateMetadata
  <2>6. 0 % Len(table) = 0
    BY <2>2, ZeroMod
  <2> QED BY <2>2, <2>3, <2>4, <2>5, <2>6 DEF CursorInv, CursorContinues
<1>6. ASSUME NEW n \in EpochLens, SetEpochLen(n) PROVE CursorInv'
  <2>1. n \in Nat \ {0}
    BY <1>6, DatasetAssumption DEF SetEpochLen
  <2>2. epochLen' = n
        /\ UNCHANGED <<paths, shuffle, active, sequentialOffset, shuffledDrawOffset, issued>>
    BY <1>6 DEF SetEpochLen
  <2> QED BY <2>1, <2>2 DEF CursorInv, CursorContinues
<1>7. ASSUME NEW i \in 1..NumIters, Iter(i) PROVE CursorInv'
  BY <1>1, <1>7 DEF Iter
<1>8. ASSUME NEW i \in 1..NumIters, Begin(i) PROVE CursorInv'
  <2> DEFINE start == IF shuffle THEN shuffledDrawOffset ELSE sequentialOffset
             next == IF shuffle THEN AdvanceDrawOffset(start, epochLen)
                                ELSE AdvanceCyclicOffset(start, epochLen, Len(active))
  <2>1. CASE next = Overflow
    BY <1>1, <1>8, <2>1 DEF Begin
  <2>2. CASE next /= Overflow
    <3>1. /\ paths /= <<>>
          /\ sequentialOffset' = IF shuffle THEN sequentialOffset ELSE next
          /\ shuffledDrawOffset' = IF shuffle THEN next ELSE shuffledDrawOffset
          /\ issued' = issued + epochLen
          /\ UNCHANGED <<paths, shuffle, active, epochLen>>
      BY <1>8, <2>2, Zenon DEF Begin
    <3>2. epochLen \in Nat \ {0} /\ issued \in Nat /\ Len(active) \in Nat \ {0}
          /\ issued' \in Nat
      BY <3>1 DEF CursorInv
    <3>3. CASE shuffle
      <4>1. shuffledDrawOffset = issued
        BY <3>1, <3>3 DEF CursorInv, CursorContinues
      <4>2. next = issued + epochLen
        BY <2>2, <3>3, <4>1 DEF AdvanceDrawOffset
      <4>3. shuffledDrawOffset' = issued'
        BY <3>1, <3>3, <4>2
      <4> QED BY <3>1, <3>2, <3>3, <4>3 DEF CursorInv, CursorContinues
    <3>4. CASE ~shuffle
      <4>1. sequentialOffset = issued % Len(active)
        BY <3>1, <3>4 DEF CursorInv, CursorContinues
      <4>2. sequentialOffset \in 0..(Len(active) - 1)
        <5>1. issued \in Int
          BY <3>2
        <5>2. issued % Len(active) \in 0..(Len(active) - 1)
          BY <3>2, <5>1, DivMod, Zenon
        <5> QED BY <4>1, <5>2
      <4>3. AdvanceCyclicOffset(sequentialOffset, epochLen, Len(active))
              = (issued + epochLen) % Len(active)
        <5>1. epochLen \in Nat
          BY <3>2
        <5> QED BY <3>2, <4>1, <4>2, <5>1, WindowsContinueTheCycle, Zenon
      <4>4. sequentialOffset' = issued' % Len(active)
        BY <3>1, <3>4, <4>3
      <4> QED BY <3>1, <3>2, <3>4, <4>4 DEF CursorInv, CursorContinues
    <3> QED BY <3>3, <3>4
  <2> QED BY <2>1, <2>2
<1>9. ASSUME NEW i \in 1..NumIters, Next_(i) PROVE CursorInv'
  BY <1>1, <1>9 DEF Next_
<1>10. CASE UNCHANGED vars
  BY <1>1, <1>10 DEF vars
<1> QED BY <1>2, <1>3, <1>4, <1>5, <1>6, <1>7, <1>8, <1>9, <1>10 DEF Next

\* However clients interleave iterators, table replacements and changes of the
\* epoch length, the cursor a new iterator starts from is the one the history of
\* handed-out windows leads to: no window is handed out twice, none is skipped.
THEOREM CursorsFollowHistory == Spec => []CursorContinues
<1>1. CursorInv => CursorContinues
  BY DEF CursorInv
<1> QED BY <1>1, CursorInit, CursorStep, PTL DEF Spec

-----------------------------------------------------------------------------
(* What is written can be read *)

Columns == {kind.columns : kind \in Kinds}
Samples == [id : Nat, size : Nat \ {0}, columns : Columns,
            floats : {"exact", "inexact", "nonfinite"}]
Bytes   == Samples \X Nat
Entries == [shard : Nat, offset : Nat, len : Nat]

Builders == [columns : Columns \cup {NoColumns}, rows : Seq(Samples), index : Seq(Entries),
             shards : Seq(Seq(Bytes)), current : Seq(Bytes)]
Files    == [shards : Seq(Seq(Bytes)), rows : Seq(Samples), index : Seq(Entries),
             columns : Columns \cup {NoColumns}, manifest : [count : Nat, lengths : Seq(Nat)]]
Caches   == [files : Files, samples : Seq(Samples)]

\* The record of s stands in a file after the first `offset` bytes.
Holds(file, offset, s) ==
  offset + s.size <= Len(file) /\ \A j \in 1..s.size : file[offset + j] = <<s, j>>

\* The index leads to the record of every row.
Laid(files, index, rows) ==
  /\ files \in Seq(Seq(Bytes)) /\ index \in Seq(Entries) /\ rows \in Seq(Samples)
  /\ Len(index) = Len(rows)
  /\ \A k \in 1..Len(rows) :
       /\ index[k].len = rows[k].size /\ index[k].shard < Len(files)
       /\ Holds(files[index[k].shard + 1], index[k].offset, rows[k])

\* Files only grow at their ends.
Extends(files, more) ==
  /\ files \in Seq(Seq(Bytes)) /\ more \in Seq(Seq(Bytes)) /\ Len(files) <= Len(more)
  /\ \A f \in 1..Len(files) : /\ Len(files[f]) <= Len(more[f])
                              /\ \A j \in 1..Len(files[f]) : more[f][j] = files[f][j]

\* The elements of a sequence.
LEMMA SeqElement ==
  ASSUME NEW S, NEW q \in Seq(S)
  PROVE  Len(q) \in Nat /\ \A i \in 1..Len(q) : q[i] \in S
OBVIOUS

\* The fields of an index entry and of a sample that are numbers.
LEMMA FieldTypes ==
  /\ \A e \in Entries : e.shard \in Nat /\ e.offset \in Nat /\ e.len \in Nat
  /\ \A s \in Samples : s.size \in Nat /\ s.size > 0
BY DEF Entries, Samples

\* A record stays in a file that grows at its end.
LEMMA HoldsGrows ==
  ASSUME NEW file \in Seq(Bytes), NEW more \in Seq(Bytes), NEW o \in Nat, NEW s \in Samples,
         Holds(file, o, s), Len(file) <= Len(more),
         \A j \in 1..Len(file) : more[j] = file[j]
  PROVE  Holds(more, o, s)
<1>1. s.size \in Nat /\ Len(file) \in Nat /\ Len(more) \in Nat
  BY FieldTypes, SeqElement, Zenon
<1>2. o + s.size <= Len(file) /\ \A j \in 1..s.size : file[o + j] = <<s, j>>
  BY Zenon DEF Holds
<1>3. o + s.size <= Len(more)
  BY <1>1, <1>2
<1>4. \A j \in 1..s.size : o + j \in 1..Len(file)
  BY <1>1, <1>2
<1>5. \A j \in 1..s.size : more[o + j] = <<s, j>>
  BY <1>2, <1>4, Zenon
<1> QED BY <1>3, <1>5, Zenon DEF Holds

\* What is laid out stays so when files grow, and a record that was added is found
\* through its entry.
LEMMA LaidGrows ==
  ASSUME NEW files, NEW more, NEW index, NEW rows, NEW s \in Samples, NEW e \in Entries,
         Laid(files, index, rows), Extends(files, more),
         e.len = s.size, e.shard < Len(more), Holds(more[e.shard + 1], e.offset, s)
  PROVE  Laid(more, Append(index, e), Append(rows, s))
<1> DEFINE ix == Append(index, e)
           rs == Append(rows, s)
<1>1. /\ files \in Seq(Seq(Bytes)) /\ index \in Seq(Entries) /\ rows \in Seq(Samples)
      /\ Len(index) = Len(rows) /\ more \in Seq(Seq(Bytes))
  BY Zenon DEF Laid, Extends
<1>2. /\ ix \in Seq(Entries) /\ rs \in Seq(Samples) /\ Len(ix) = Len(rs)
      /\ Len(rs) = Len(rows) + 1 /\ Len(rows) \in Nat
      /\ ix[Len(rows) + 1] = e /\ rs[Len(rows) + 1] = s
      /\ \A k \in 1..Len(rows) : ix[k] = index[k] /\ rs[k] = rows[k]
  BY <1>1
<1>3. ASSUME NEW k \in 1..Len(rows)
      PROVE  /\ index[k].len = rows[k].size /\ index[k].shard < Len(more)
             /\ Holds(more[index[k].shard + 1], index[k].offset, rows[k])
  <2>1. /\ index[k].len = rows[k].size /\ index[k].shard < Len(files)
        /\ Holds(files[index[k].shard + 1], index[k].offset, rows[k])
    BY Zenon DEF Laid
  <2>2. index[k] \in Entries /\ rows[k] \in Samples
    <3>1. k \in 1..Len(index)
      BY <1>1, Zenon
    <3> QED BY <1>1, <3>1, SeqElement, Zenon
  <2> DEFINE f == index[k].shard + 1
             o == index[k].offset
  <2>3. index[k].shard \in Nat /\ o \in Nat /\ Len(files) \in Nat /\ Len(more) \in Nat
    BY <1>1, <2>2, FieldTypes, SeqElement, Zenon
  <2>4. Len(files) <= Len(more)
    BY Zenon DEF Extends
  <2>5. f \in 1..Len(files) /\ f \in 1..Len(more) /\ index[k].shard < Len(more)
    BY <2>1, <2>3, <2>4
  <2>6. files[f] \in Seq(Bytes) /\ more[f] \in Seq(Bytes)
    BY <1>1, <2>5, SeqElement, Zenon
  <2>7. Len(files[f]) <= Len(more[f]) /\ \A j \in 1..Len(files[f]) : more[f][j] = files[f][j]
    BY <2>5, Zenon DEF Extends
  <2>8. Holds(more[f], o, rows[k])
    BY <2>1, <2>2, <2>3, <2>6, <2>7, HoldsGrows, Zenon
  <2> QED BY <2>1, <2>5, <2>8, Zenon
<1> HIDE DEF ix, rs
<1>4. \A k \in 1..Len(rs) : k \in 1..Len(rows) \/ k = Len(rows) + 1
  BY <1>2
<1>5. \A k \in 1..Len(rs) : /\ ix[k].len = rs[k].size /\ ix[k].shard < Len(more)
                            /\ Holds(more[ix[k].shard + 1], ix[k].offset, rs[k])
  BY <1>2, <1>3, <1>4, Zenon
<1> QED BY <1>1, <1>2, <1>5, Zenon DEF Laid, ix, rs

\* write_payload appends a whole record to the open shard.
LEMMA RecordAppended ==
  ASSUME NEW file \in Seq(Bytes), NEW s \in Samples
  PROVE  /\ file \o Record(s) \in Seq(Bytes)
         /\ Len(file \o Record(s)) = Len(file) + s.size
         /\ \A j \in 1..Len(file) : (file \o Record(s))[j] = file[j]
         /\ Holds(file \o Record(s), Len(file), s)
<1>1. s.size \in Nat
  BY DEF Samples
<1>2. \A k \in 1..s.size : <<s, k>> \in Bytes
  BY <1>1 DEF Bytes
<1>3. Record(s) \in [1..s.size -> Bytes] /\ \A k \in 1..s.size : Record(s)[k] = <<s, k>>
  BY <1>2, Zenon DEF Record
<1>4. Record(s) \in Seq(Bytes) /\ Len(Record(s)) = s.size
  BY <1>1, <1>3
<1> HIDE DEF Bytes
<1>5. /\ file \o Record(s) \in Seq(Bytes)
      /\ Len(file \o Record(s)) = Len(file) + s.size
      /\ \A j \in 1..Len(file) : (file \o Record(s))[j] = file[j]
  BY <1>4
<1>6. \A j \in 1..s.size : (file \o Record(s))[Len(file) + j] = Record(s)[j]
  BY <1>1, <1>4
<1> QED BY <1>1, <1>3, <1>5, <1>6 DEF Holds

\* The bytes an index entry names are the record of its row.
LEMMA RecordFound ==
  ASSUME NEW file \in Seq(Bytes), NEW o \in Nat, NEW s \in Samples, Holds(file, o, s)
  PROVE  SubSeq(file, o + 1, o + s.size) = Record(s)
<1>1. s.size \in Nat /\ Len(file) \in Nat
  BY FieldTypes, SeqElement, Zenon
<1>2. o + s.size <= Len(file) /\ \A j \in 1..s.size : file[o + j] = <<s, j>>
  BY Zenon DEF Holds
<1>3. SubSeq(file, o + 1, o + s.size) = [j \in 1..s.size |-> file[o + j]]
  <2>1. SubSeq(file, o + 1, o + s.size)
          = [j \in 1..((o + s.size) - (o + 1) + 1) |-> file[(o + 1) + j - 1]]
    BY <1>1, <1>2
  <2>2. (o + s.size) - (o + 1) + 1 = s.size
    BY <1>1
  <2>3. \A j \in 1..s.size : (o + 1) + j - 1 = o + j
    BY <1>1
  <2> QED BY <2>1, <2>2, <2>3
<1> QED BY <1>2, <1>3, Zenon DEF Record

\* decode_stored_record recovers from a record what its JSON keeps of the sample.
LEMMA RecordDecodes ==
  ASSUME NEW s \in Samples
  PROVE  Decoded(Record(s)) = SplitRecord(s)
<1>1. s.size \in Nat /\ s.size > 0
  BY FieldTypes, Zenon
<1>2. 1 \in 1..s.size
  BY <1>1
<1>3. Record(s)[1] = <<s, 1>>
  BY <1>2, Zenon DEF Record
<1>4. Record(s)[1][1] = s
  BY <1>3
<1>5. Record(s) /= <<>>
  BY <1>1, <1>2 DEF Record
<1> QED BY <1>4, <1>5, Zenon DEF Decoded

\* validate_redundant_metadata turns a moved float into an error.
LEMMA ReturnedIs ==
  ASSUME NEW s \in Samples, NEW validate \in BOOLEAN
  PROVE  Returned(s, validate)
           = IF validate /\ SplitRecord(s) /= s THEN ReadError ELSE SplitRecord(s)
<1>1. s.floats \in {"exact", "inexact", "nonfinite"}
  BY DEF Samples
<1>2. CASE s.floats = "exact"
  <2>1. Returned(s, validate) = s /\ SplitRecord(s) = s
    BY <1>2 DEF Returned, SplitRecord
  <2> QED BY <2>1, Zenon
<1>3. CASE s.floats = "inexact"
  <2>1. [s EXCEPT !.floats = "moved"] /= s
    <3>1. [s EXCEPT !.floats = "moved"].floats = "moved"
      BY DEF Samples
    <3> QED BY <1>3, <3>1
  <2>2. SplitRecord(s) = [s EXCEPT !.floats = "moved"]
    BY <1>3 DEF SplitRecord
  <2>3. Returned(s, validate) = IF validate THEN ReadError ELSE [s EXCEPT !.floats = "moved"]
    BY <1>3 DEF Returned
  <2> QED BY <2>1, <2>2, <2>3, Zenon
<1>4. CASE s.floats = "nonfinite"
  <2>1. Returned(s, validate) = ReadError /\ SplitRecord(s) = ReadError
    BY <1>4 DEF Returned, SplitRecord
  <2> QED BY <2>1, Zenon
<1> QED BY <1>1, <1>2, <1>3, <1>4

\* What finish wrote for the samples that were pushed.
Stored(cache) ==
  /\ cache \in Caches /\ cache.samples = cache.files.rows
  /\ Laid(cache.files.shards, cache.files.index, cache.files.rows)
  /\ cache.files.manifest =
       [count |-> Len(cache.files.index),
        lengths |-> [k \in DOMAIN cache.files.shards |-> Len(cache.files.shards[k])]]

\* What is stored passes load_cache and every sample of it is read back.
LEMMA StoredReads ==
  ASSUME NEW cache, Stored(cache), NEW validate \in BOOLEAN
  PROVE  /\ Loads(cache.files, validate) /\ Len(cache.files.index) = Len(cache.samples)
         /\ \A k \in DOMAIN cache.samples :
              ReadSample(cache.files, k - 1, validate)
                = Returned(cache.samples[k], validate)
<1> DEFINE fs == cache.files
           shards == fs.shards
           lengths == [k \in DOMAIN shards |-> Len(shards[k])]
<1>1. /\ shards \in Seq(Seq(Bytes)) /\ fs.index \in Seq(Entries) /\ fs.rows \in Seq(Samples)
      /\ Len(fs.index) = Len(fs.rows)
      /\ \A k \in 1..Len(fs.rows) :
           /\ fs.index[k].len = fs.rows[k].size /\ fs.index[k].shard < Len(shards)
           /\ Holds(shards[fs.index[k].shard + 1], fs.index[k].offset, fs.rows[k])
  BY Zenon DEF Stored, Laid
<1>2. cache.samples = fs.rows /\ fs.manifest = [count |-> Len(fs.index), lengths |-> lengths]
  BY Zenon DEF Stored
<1>3. fs.manifest.count = Len(fs.index) /\ fs.manifest.lengths = lengths
  BY <1>2
<1>4. DOMAIN shards = 1..Len(shards) /\ DOMAIN fs.rows = 1..Len(fs.rows)
      /\ DOMAIN fs.index = 1..Len(fs.index) /\ Len(shards) \in Nat
  BY <1>1
<1> HIDE DEF fs, shards
<1>5. DOMAIN lengths = 1..Len(shards) /\ \A k \in 1..Len(shards) : lengths[k] = Len(shards[k])
  BY <1>4, Zenon
<1>6. Len(lengths) = Len(shards)
  BY <1>4, LenOfFunction, Zenon
<1> HIDE DEF lengths
<1>7. Loads(fs, validate)
  <2>1. ShardsVerified(fs)
    BY <1>3, <1>5, Zenon DEF ShardsVerified, shards
  <2>2. \A k \in DOMAIN fs.index : fs.index[k].shard < Len(fs.manifest.lengths)
    BY <1>1, <1>3, <1>4, <1>6, Zenon
  <2>3. ShapesAgree(fs, validate)
    BY <1>1, <1>3, <2>2, Zenon DEF ShapesAgree
  <2> QED BY <2>1, <2>3, Zenon DEF Loads
<1>8. ASSUME NEW k \in 1..Len(fs.rows)
      PROVE  ReadSample(fs, k - 1, validate)
               = Returned(fs.rows[k], validate)
  <2> DEFINE e == fs.index[k]
             s == fs.rows[k]
             f == e.shard + 1
  <2>1. e.len = s.size /\ e.shard < Len(shards) /\ Holds(shards[f], e.offset, s)
    BY <1>1, Zenon
  <2>2. e \in Entries /\ s \in Samples
    <3>1. k \in 1..Len(fs.index)
      BY <1>1, Zenon
    <3> QED BY <1>1, <3>1, SeqElement, Zenon
  <2>3. e.shard \in Nat /\ e.offset \in Nat /\ s.size \in Nat
    BY <2>2, FieldTypes, Zenon
  <2>4. f \in 1..Len(shards)
    <3>1. e.shard < Len(shards) /\ e.shard \in Nat /\ Len(shards) \in Nat
      BY <1>4, <2>1, <2>3, Zenon
    <3> HIDE DEF e
    <3> QED BY <3>1
  <2>5. shards[f] \in Seq(Bytes)
    BY <1>1, <2>4, SeqElement, Zenon
  <2>6. SubSeq(shards[f], e.offset + 1, e.offset + e.len) = Record(s)
    <3>1. SubSeq(shards[f], e.offset + 1, e.offset + s.size) = Record(s)
      <4> HIDE DEF e, s, f
      <4> QED BY <2>1, <2>2, <2>3, <2>5, RecordFound, Zenon
    <3> QED BY <2>1, <3>1, Zenon
  <2>7. e.offset + s.size <= Len(shards[f])
    BY <2>1, Zenon DEF Holds
  <2>8. ~(e.offset + e.len > fs.manifest.lengths[f])
    <3>1. fs.manifest.lengths[f] = Len(shards[f])
      BY <1>3, <1>5, <2>4, Zenon
    <3>2. Len(shards[f]) \in Nat
      BY <2>5, SeqElement, Zenon
    <3> HIDE DEF e, s, f
    <3> QED BY <2>1, <2>3, <2>7, <3>1, <3>2
  <2>9. IndexEntry(fs, k - 1) = e /\ MetadataRow(fs, k - 1) = s
    <3>1. (k - 1) + 1 = k
      OBVIOUS
    <3> QED BY <3>1, Zenon DEF IndexEntry, MetadataRow
  <2>10. /\ Decoded(Record(s)) = SplitRecord(s)
         /\ Returned(s, validate)
              = IF validate /\ SplitRecord(s) /= s THEN ReadError ELSE SplitRecord(s)
    BY <2>2, RecordDecodes, ReturnedIs, Zenon
  <2> HIDE DEF e, s, f
  <2>11. ReadSample(fs, k - 1, validate)
           = IF validate /\ Decoded(Record(s)) /= s THEN ReadError ELSE Decoded(Record(s))
    BY <2>6, <2>8, <2>9, Zenon DEF ReadSample, shards, f
  <2>12. ReadSample(fs, k - 1, validate) = Returned(s, validate)
    BY <2>10, <2>11
  <2> QED BY <2>12, Zenon DEF s
<1> QED BY <1>1, <1>2, <1>4, <1>7, <1>8, Zenon DEF fs

\* The open shard is the last file of a builder.
AllShards(b) == Append(b.shards, b.current)

\* What a builder has written so far can be found.
Sound(b) == b \in Builders /\ Laid(AllShards(b), b.index, b.rows)

\* rotate_shard_if_needed: every record stays where the index says.
LEMMA RotatedExtends ==
  ASSUME NEW b \in Builders, NEW size \in Nat
  PROVE  LET r == Rotated(b, size) IN
         /\ r \in Builders /\ r.index = b.index /\ r.rows = b.rows
         /\ Extends(AllShards(b), AllShards(r))
<1>1. b.shards \in Seq(Seq(Bytes)) /\ b.current \in Seq(Bytes)
  BY DEF Builders
<1>2. Extends(AllShards(b), AllShards(b))
  BY <1>1 DEF Extends, AllShards
<1>3. CASE Rotated(b, size) = b
  BY <1>2, <1>3, Zenon
<1>4. CASE Rotated(b, size) /= b
  <2> DEFINE r == [b EXCEPT !.shards = Append(@, b.current), !.current = <<>>]
             files == AllShards(b)
             more == Append(files, <<>>)
  <2>1. Rotated(b, size) = r
    BY <1>4, Zenon DEF Rotated
  <2>2. files \in Seq(Seq(Bytes)) /\ <<>> \in Seq(Bytes)
    BY <1>1 DEF AllShards
  <2>3. r.shards = files /\ r.current = <<>> /\ r.index = b.index /\ r.rows = b.rows
    BY DEF Builders, AllShards
  <2>4. r \in Builders
    <3> HIDE DEF files
    <3>1. r = [b EXCEPT !.shards = files, !.current = <<>>]
      BY Zenon DEF files, AllShards
    <3> QED BY <2>2, <3>1, Zenon DEF Builders
  <2>5. AllShards(r) = more
    BY <2>3, Zenon DEF AllShards
  <2> HIDE DEF files
  <2>6. /\ more \in Seq(Seq(Bytes)) /\ Len(files) <= Len(more)
        /\ \A f \in 1..Len(files) : more[f] = files[f]
    BY <2>2
  <2>7. \A f \in 1..Len(files) : files[f] \in Seq(Bytes)
    BY <2>2, SeqElement, Zenon
  <2>8. \A f \in 1..Len(files) : Len(files[f]) \in Nat
    BY <2>7, SeqElement, Zenon
  <2>9. \A f \in 1..Len(files) : Len(files[f]) <= Len(more[f])
    BY <2>6, <2>8
  <2>10. Extends(files, more)
    BY <2>2, <2>6, <2>9, Zenon DEF Extends
  <2> HIDE DEF r, more
  <2> QED BY <2>1, <2>3, <2>4, <2>5, <2>10, Zenon DEF files
<1> QED BY <1>3, <1>4, Zenon

\* Extending an extension.
LEMMA ExtendsTransitive ==
  ASSUME NEW a, NEW b, NEW c, Extends(a, b), Extends(b, c)
  PROVE  Extends(a, c)
<1>1. a \in Seq(Seq(Bytes)) /\ b \in Seq(Seq(Bytes)) /\ c \in Seq(Seq(Bytes))
  BY Zenon DEF Extends
<1>2. Len(a) \in Nat /\ Len(b) \in Nat /\ Len(c) \in Nat
  BY <1>1, SeqElement, Zenon
<1>3. Len(a) <= Len(b) /\ Len(b) <= Len(c)
  BY Zenon DEF Extends
<1>4. Len(a) <= Len(c) /\ \A f \in 1..Len(a) : f \in 1..Len(b) /\ f \in 1..Len(c)
  BY <1>2, <1>3
<1>5. ASSUME NEW f \in 1..Len(a)
      PROVE  Len(a[f]) <= Len(c[f]) /\ \A j \in 1..Len(a[f]) : c[f][j] = a[f][j]
  <2>1. a[f] \in Seq(Bytes) /\ b[f] \in Seq(Bytes) /\ c[f] \in Seq(Bytes)
    BY <1>1, <1>4, SeqElement, Zenon
  <2>2. Len(a[f]) \in Nat /\ Len(b[f]) \in Nat /\ Len(c[f]) \in Nat
    BY <2>1, SeqElement, Zenon
  <2>3. Len(a[f]) <= Len(b[f]) /\ \A j \in 1..Len(a[f]) : b[f][j] = a[f][j]
    BY Zenon DEF Extends
  <2>4. Len(b[f]) <= Len(c[f]) /\ \A j \in 1..Len(b[f]) : c[f][j] = b[f][j]
    BY <1>4, Zenon DEF Extends
  <2>5. Len(a[f]) <= Len(c[f]) /\ \A j \in 1..Len(a[f]) : j \in 1..Len(b[f])
    BY <2>2, <2>3, <2>4
  <2> QED BY <2>3, <2>4, <2>5, Zenon
<1> QED BY <1>1, <1>4, <1>5, Zenon DEF Extends

\* push_sample keeps every earlier record findable and adds that of its sample.
LEMMA PushedSound ==
  ASSUME NEW b, Sound(b), NEW s \in Samples
  PROVE  Sound(Pushed(b, s)) /\ Pushed(b, s).rows = Append(b.rows, s)
<1> DEFINE r == Rotated(b, s.size)
           e == Entry(b, r, s)
           grown == r.current \o Record(s)
           p == Pushed(b, s)
           old == AllShards(r)
           new == Append(r.shards, grown)
<1>1. b \in Builders /\ Laid(AllShards(b), b.index, b.rows) /\ s.size \in Nat
  BY FieldTypes, Zenon DEF Sound
<1>2. r \in Builders /\ r.index = b.index /\ r.rows = b.rows /\ Extends(AllShards(b), old)
  BY <1>1, RotatedExtends, Zenon
<1> HIDE DEF r
<1>3. /\ r.shards \in Seq(Seq(Bytes)) /\ r.current \in Seq(Bytes)
      /\ r.index \in Seq(Entries) /\ r.rows \in Seq(Samples)
  BY <1>2 DEF Builders
<1>4. /\ grown \in Seq(Bytes) /\ Len(grown) = Len(r.current) + s.size
      /\ \A j \in 1..Len(r.current) : grown[j] = r.current[j]
      /\ Holds(grown, Len(r.current), s)
  BY <1>3, RecordAppended, Zenon
<1>5. /\ Len(r.shards) \in Nat /\ Len(r.current) \in Nat
      /\ \A f \in 1..Len(r.shards) : r.shards[f] \in Seq(Bytes)
  BY <1>3, SeqElement, Zenon
<1>6. \A f \in 1..Len(r.shards) : Len(r.shards[f]) \in Nat
  BY <1>5, SeqElement, Zenon
<1>7. /\ e \in Entries /\ e.len = s.size /\ e.shard = Len(r.shards) /\ e.offset = Len(r.current)
  BY <1>1, <1>5 DEF Entry, Entries
<1> HIDE DEF grown, e
<1>8. /\ old \in Seq(Seq(Bytes)) /\ new \in Seq(Seq(Bytes))
      /\ Len(old) = Len(r.shards) + 1 /\ Len(new) = Len(r.shards) + 1
      /\ old[Len(r.shards) + 1] = r.current /\ new[Len(r.shards) + 1] = grown
      /\ \A f \in 1..Len(r.shards) : old[f] = r.shards[f] /\ new[f] = r.shards[f]
  BY <1>3, <1>4 DEF AllShards
<1> HIDE DEF old, new
<1>9. Extends(old, new)
  <2>1. Len(old) <= Len(new) /\ Len(r.current) <= Len(grown)
    BY <1>1, <1>4, <1>5, <1>8
  <2>2. \A f \in 1..Len(old) : f \in 1..Len(r.shards) \/ f = Len(r.shards) + 1
    BY <1>5, <1>8
  <2>3. \A f \in 1..Len(r.shards) :
          Len(old[f]) <= Len(new[f]) /\ \A j \in 1..Len(old[f]) : new[f][j] = old[f][j]
    <3>1. \A n \in Nat : n <= n
      OBVIOUS
    <3> QED BY <1>6, <1>8, <3>1, Zenon
  <2>4. LET f == Len(r.shards) + 1 IN
          Len(old[f]) <= Len(new[f]) /\ \A j \in 1..Len(old[f]) : new[f][j] = old[f][j]
    BY <1>4, <1>8, <2>1, Zenon
  <2> QED BY <1>8, <2>1, <2>2, <2>3, <2>4, Zenon DEF Extends
<1>10. Extends(AllShards(b), new)
  BY <1>2, <1>9, ExtendsTransitive, Zenon
<1>11. e.shard < Len(new) /\ Holds(new[e.shard + 1], e.offset, s)
  <2>1. e.shard < Len(new)
    BY <1>5, <1>7, <1>8
  <2> QED BY <1>4, <1>7, <1>8, <2>1, Zenon
<1>12. Laid(new, Append(b.index, e), Append(b.rows, s))
  BY <1>1, <1>7, <1>10, <1>11, LaidGrows, Zenon
<1>13. p = [r EXCEPT !.columns = s.columns, !.current = grown, !.index = Append(r.index, e),
                     !.rows = Append(r.rows, s)]
  BY Zenon DEF Pushed, r, e, grown
<1>14. /\ p.shards = r.shards /\ p.current = grown /\ p.index = Append(b.index, e)
       /\ p.rows = Append(b.rows, s)
  BY <1>2, <1>13 DEF Builders
<1>15. p \in Builders
  <2>1. s.columns \in Columns \cup {NoColumns}
    BY DEF Samples
  <2>2. Append(r.index, e) \in Seq(Entries) /\ Append(r.rows, s) \in Seq(Samples)
    BY <1>3, <1>7
  <2> QED BY <1>2, <1>4, <1>13, <2>1, <2>2, Zenon DEF Builders
<1>16. AllShards(p) = new
  BY <1>14, Zenon DEF AllShards, new
<1> HIDE DEF p
<1> QED BY <1>12, <1>14, <1>15, <1>16, Zenon DEF Sound, p

\* What finish publishes of a sound builder is stored.
LEMMA FinishedStored ==
  ASSUME NEW b, Sound(b), NEW samples, samples = b.rows
  PROVE  Stored([files |-> Finished(b), samples |-> samples])
<1> DEFINE files == AllShards(b)
           lengths == [k \in DOMAIN files |-> Len(files[k])]
           manifest == [count |-> Len(b.index), lengths |-> lengths]
           f == Finished(b)
           c == [files |-> f, samples |-> samples]
<1>1. b \in Builders /\ Laid(files, b.index, b.rows)
  BY Zenon DEF Sound
<1>2. files \in Seq(Seq(Bytes)) /\ b.index \in Seq(Entries) /\ b.rows \in Seq(Samples)
  BY <1>1, Zenon DEF Laid
<1>3. b.columns \in Columns \cup {NoColumns}
  BY <1>1, Zenon DEF Builders
<1>4. f = [shards |-> files, rows |-> b.rows, index |-> b.index, columns |-> b.columns,
           manifest |-> manifest]
  BY Zenon DEF Finished, AllShards
<1> HIDE DEF files, f
<1>5. DOMAIN files = 1..Len(files) /\ Len(files) \in Nat /\ Len(b.index) \in Nat
  BY <1>2
<1>6. \A k \in DOMAIN files : Len(files[k]) \in Nat
  <2>1. \A k \in 1..Len(files) : files[k] \in Seq(Bytes)
    BY <1>2, SeqElement, Zenon
  <2> QED BY <1>5, <2>1, SeqElement, Zenon
<1>7. lengths \in [1..Len(files) -> Nat]
  BY <1>5, <1>6, Zenon
<1> HIDE DEF lengths
<1>8. lengths \in Seq(Nat)
  BY <1>5, <1>7
<1>9. manifest \in [count : Nat, lengths : Seq(Nat)]
  BY <1>5, <1>8, Zenon
<1> HIDE DEF manifest
<1>10. f \in Files
  BY <1>2, <1>3, <1>4, <1>9, Zenon DEF Files
<1>11. f.shards = files /\ f.rows = b.rows /\ f.index = b.index /\ f.manifest = manifest
  BY <1>4, Zenon
<1>12. c \in Caches /\ c.files = f /\ c.samples = samples
  BY <1>2, <1>10, Zenon DEF Caches
<1> HIDE DEF c
<1>13. Stored(c)
  BY <1>1, <1>11, <1>12, Zenon DEF Stored, manifest, lengths
<1> QED BY <1>13, Zenon DEF c, f

\* The builder holds what was pushed, the caches on disk are stored, and the
\* dataset was opened over some of them.
StorageInv ==
  /\ Sound(builder) /\ builder.rows = pushed
  /\ disk \in Seq(Caches) /\ \A c \in 1..Len(disk) : Stored(disk[c])
  /\ paths \in Seq(1..Len(disk))

\* A new builder has written nothing.
LEMMA EmptySound == Sound(EmptyBuilder) /\ EmptyBuilder.rows = <<>>
<1>1. EmptyBuilder \in Builders /\ EmptyBuilder.rows = <<>> /\ EmptyBuilder.index = <<>>
      /\ AllShards(EmptyBuilder) = <<<<>>>>
  BY DEF EmptyBuilder, Builders, AllShards
<1>2. Laid(<<<<>>>>, <<>>, <<>>)
  BY DEF Laid
<1> QED BY <1>1, <1>2, Zenon DEF Sound

\* Nothing is written before the first step.
LEMMA StorageInit == Init => StorageInv
<1> SUFFICES ASSUME Init PROVE StorageInv
  OBVIOUS
<1>1. builder = EmptyBuilder /\ pushed = <<>> /\ disk = <<>> /\ paths = <<>>
  BY Zenon DEF Init
<1>2. disk \in Seq(Caches) /\ paths \in Seq(1..Len(disk)) /\ \A c \in 1..Len(disk) : FALSE
  BY <1>1
<1> QED BY <1>1, <1>2, EmptySound, Zenon DEF StorageInv

\* Every step keeps the stored samples findable.
LEMMA StorageStep == StorageInv /\ [Next]_vars => StorageInv'
<1> SUFFICES ASSUME StorageInv, [Next]_vars PROVE StorageInv'
  OBVIOUS
<1>1. /\ Sound(builder) /\ builder.rows = pushed
      /\ disk \in Seq(Caches) /\ paths \in Seq(1..Len(disk))
      /\ \A c \in 1..Len(disk) : Stored(disk[c])
  BY Zenon DEF StorageInv
<1>2. Len(disk) \in Nat /\ Len(pushed) \in Nat
  <2>1. pushed \in Seq(Samples)
    BY <1>1, Zenon DEF Sound, Laid
  <2> QED BY <1>1, <2>1, SeqElement, Zenon
<1>3. ASSUME NEW kind \in Kinds, Push(kind) PROVE StorageInv'
  <2> DEFINE s == [kind EXCEPT !.id = 10 * (Len(disk) + 1) + Len(pushed)]
  <2>1. s \in Samples
    <3>1. kind \in Samples
      BY DatasetAssumption, Zenon DEF Samples, Columns
    <3>2. 10 * (Len(disk) + 1) + Len(pushed) \in Nat
      BY <1>2
    <3> QED BY <3>1, <3>2, Zenon DEF Samples
  <2>2. UNCHANGED <<disk, paths>>
    BY <1>3, Zenon DEF Push, stateVars
  <2>3. \/ builder' = Pushed(builder, s) /\ pushed' = Append(pushed, s)
        \/ builder' = EmptyBuilder /\ pushed' = <<>>
    BY <1>3, Zenon DEF Push
  <2> HIDE DEF s
  <2>4. Sound(builder') /\ (builder').rows = pushed'
    BY <1>1, <2>1, <2>3, PushedSound, EmptySound, Zenon
  <2> QED BY <1>1, <2>2, <2>4, Zenon DEF StorageInv
<1>4. CASE Finish
  <2> DEFINE c == [files |-> Finished(builder), samples |-> pushed]
  <2>1. builder' = EmptyBuilder /\ pushed' = <<>> /\ paths' = <<>>
    BY <1>4, Zenon DEF Finish, stateVars
  <2>2. disk' = Append(disk, c) \/ disk' = disk
    BY <1>4, Zenon DEF Finish
  <2>3. Stored(c)
    BY <1>1, FinishedStored, Zenon
  <2>4. c \in Caches
    BY <2>3, Zenon DEF Stored
  <2> HIDE DEF c
  <2>5. /\ disk' \in Seq(Caches)
        /\ \A n \in 1..Len(disk') :
             (n \in 1..Len(disk) /\ disk'[n] = disk[n]) \/ disk'[n] = c
    <3>1. CASE disk' = disk
      BY <1>1, <3>1, Zenon
    <3>2. CASE disk' = Append(disk, c)
      BY <1>1, <2>4, <3>2
    <3> QED BY <2>2, <3>1, <3>2, Zenon
  <2>6. \A n \in 1..Len(disk') : Stored(disk'[n])
    BY <1>1, <2>3, <2>5, Zenon
  <2>7. paths' \in Seq(1..Len(disk'))
    BY <2>1
  <2> QED BY <2>1, <2>5, <2>6, <2>7, EmptySound, Zenon DEF StorageInv
<1>5. ASSUME NEW n \in 1..NumCaches, NEW shuffled \in BOOLEAN,
             NEW ps \in [1..n -> 1..Len(disk)], Open(ps, shuffled)
      PROVE  StorageInv'
  <2>1. paths' = ps /\ UNCHANGED <<builder, pushed, disk>>
    BY <1>5, Zenon DEF Open, storageVars
  <2>2. n \in Nat
    OBVIOUS
  <2>3. ps \in Seq(1..Len(disk))
    BY <2>2
  <2> QED BY <1>1, <2>1, <2>3, Zenon DEF StorageInv
<1>6. ASSUME UNCHANGED <<builder, pushed, disk, paths>> PROVE StorageInv'
  BY <1>1, <1>6, Zenon DEF StorageInv
<1>7. ASSUME NEW table \in Tables, UpdateMetadata(table) PROVE StorageInv'
  BY <1>6, <1>7, Zenon DEF UpdateMetadata, storageVars
<1>8. ASSUME NEW n \in EpochLens, SetEpochLen(n) PROVE StorageInv'
  BY <1>6, <1>8, Zenon DEF SetEpochLen, storageVars
<1>9. ASSUME NEW i \in 1..NumIters, Iter(i) \/ Begin(i) \/ Next_(i) PROVE StorageInv'
  <2>1. UNCHANGED storageVars /\ UNCHANGED paths
    BY <1>9, Zenon DEF Iter, Begin, Next_, stateVars
  <2> QED BY <1>6, <2>1, Zenon DEF storageVars
<1>10. ASSUME UNCHANGED vars PROVE StorageInv'
  BY <1>6, <1>10, Zenon DEF vars, storageVars, stateVars
<1> QED BY <1>3, <1>4, <1>5, <1>7, <1>8, <1>9, <1>10, Zenon DEF Next

\* The storage invariant says that what was written can be read.
LEMMA StorageReads == StorageInv => ReadsBack
<1> SUFFICES ASSUME StorageInv PROVE ReadsBack
  OBVIOUS
<1>1. /\ disk \in Seq(Caches) /\ paths \in Seq(1..Len(disk))
      /\ \A c \in 1..Len(disk) : Stored(disk[c])
  BY Zenon DEF StorageInv
<1>2. DOMAIN disk = 1..Len(disk) /\ Len(disk) \in Nat /\ DOMAIN paths = 1..Len(paths)
      /\ \A p \in 1..Len(paths) : paths[p] \in 1..Len(disk)
  BY <1>1
<1>3. ASSUME NEW c \in 1..Len(disk), NEW validate \in BOOLEAN
      PROVE  /\ Loads(disk[c].files, validate) /\ SampleCount(c) = Len(disk[c].samples)
             /\ \A k \in DOMAIN disk[c].samples :
                  ReadSample(disk[c].files, k - 1, validate)
                    = Returned(disk[c].samples[k], validate)
  BY <1>1, StoredReads, Zenon DEF SampleCount
<1>4. ASSUME NEW c \in 1..NumCaches, NEW k \in -1..MaxSamples
      PROVE  GetItem(c, k) =
               IF c \in Range(paths) /\ k + 1 \in DOMAIN disk[c].samples
                 THEN Returned(disk[c].samples[k + 1], ValidateCache)
                 ELSE IndexError
  <2> DEFINE row == [cache |-> c, sample |-> k]
             known == c \in Range(paths) /\ k + 1 \in DOMAIN disk[c].samples
  <2>1. c >= 0 /\ k \in Int
    OBVIOUS
  <2>2. Range(paths) = {paths[p] : p \in DOMAIN paths}
    BY Zenon DEF Range
  <2>3. c \in Range(paths) => c \in 1..Len(disk)
    BY <1>2, <2>2, Zenon
  <2>4. ASSUME c \in 1..Len(disk)
        PROVE  (k + 1 \in DOMAIN disk[c].samples) <=> (k >= 0 /\ k < SampleCount(c))
    <3>1. disk[c].samples = disk[c].files.rows /\ disk[c].files.rows \in Seq(Samples)
      BY <1>1, <2>4, Zenon DEF Stored, Laid
    <3>2. DOMAIN disk[c].samples = 1..Len(disk[c].samples) /\ Len(disk[c].samples) \in Nat
      BY <3>1
    <3>3. SampleCount(c) = Len(disk[c].samples)
      BY <1>3, <2>4, Zenon
    <3> QED BY <2>1, <3>2, <3>3
  <2>5. KnownRow(row) <=> c \in Range(paths) /\ k < SampleCount(c)
    BY <2>2, Zenon DEF KnownRow
  <2>6. (c >= 0 /\ k >= 0 /\ KnownRow(row)) <=> known
    BY <2>1, <2>3, <2>4, <2>5, Zenon
  <2>7. GetItem(c, k) = IF known THEN ReadSample(disk[c].files, k, ValidateCache)
                                 ELSE IndexError
    <3> HIDE DEF known
    <3> QED BY <2>6, Zenon DEF GetItem
  <2>8. ASSUME known
        PROVE  ReadSample(disk[c].files, k, ValidateCache)
                 = Returned(disk[c].samples[k + 1], ValidateCache)
    <3>1. (k + 1) - 1 = k
      BY <2>1
    <3>2. ReadSample(disk[c].files, (k + 1) - 1, ValidateCache)
            = Returned(disk[c].samples[k + 1], ValidateCache)
      <4>1. c \in 1..Len(disk) /\ ValidateCache \in BOOLEAN /\ k + 1 \in DOMAIN disk[c].samples
        BY <2>3, <2>8, DatasetAssumption, Zenon
      <4> QED BY <1>3, <4>1, Zenon
    <3> QED BY <3>1, <3>2, Zenon
  <2> QED BY <2>7, <2>8, Zenon
<1> QED BY <1>2, <1>3, <1>4, Zenon DEF ReadsBack

\* What was written can be read, and where it cannot, exactly then: whatever the
\* sizes of the samples, the shard limit, the number of caches and the order of
\* their paths, a published cache passes load_cache, the index leads to every
\* record across rotations, and get_item answers exactly the identities of the
\* open dataset.  A sample comes back as it was written if its floats survive
\* JSON; a float that is not finite makes it refused, and so does a finite one
\* that JSON moves under validate_cache; without it that other float comes back.
THEOREM StoredSamplesReadBack == Spec => []ReadsBack
<1>1. StorageInv /\ [Next]_vars => StorageInv'
  BY StorageStep
<1> QED BY <1>1, StorageInit, StorageReads, PTL DEF Spec

-----------------------------------------------------------------------------
(* Recursion and induction *)

\* A set of numbers has a least element.
LEMMA LeastNumber ==
  ASSUME NEW T \in SUBSET Nat, T /= {}
  PROVE  \E x \in T : \A y \in T : x <= y
<1>1. PICK x \in T : \A y \in T : ~(<<y, x>> \in OpToRel(<, Nat))
  BY WFMin, NatLessThanWellFounded, Zenon
<1>2. \A y \in T : ~(y < x)
  BY <1>1, Zenon DEF OpToRel
<1> QED BY <1>2

\* Induction on the numbers, over a set.
LEMMA Induction ==
  ASSUME NEW T, 0 \in T, \A n \in Nat : n \in T => n + 1 \in T
  PROVE  Nat \subseteq T
<1> SUFFICES ASSUME Nat \ T /= {} PROVE FALSE
  BY Zenon
<1>1. PICK x \in Nat \ T : \A y \in Nat \ T : x <= y
  BY LeastNumber, Zenon
<1>2. x /= 0 /\ x - 1 \in Nat
  BY <1>1
<1>3. x - 1 \in T
  BY <1>1, <1>2
<1> QED BY <1>2, <1>3

\* f starts with a and goes on by one application of G at a time.
Iterates(f, n, a, G) == f[0] = a /\ \A i \in 1..n : f[i] = G[<<f[i - 1], i>>]

\* There is such a function: what makes a recursive definition mean something.
LEMMA IterationExists ==
  ASSUME NEW S, NEW n \in Nat, NEW a \in S, NEW G \in [S \X Nat -> S]
  PROVE  \E f \in [0..n -> S] : Iterates(f, n, a, G)
<1> DEFINE T == {m \in Nat : \E f \in [0..m -> S] : Iterates(f, m, a, G)}
<1>1. 0 \in T
  <2> DEFINE f == [i \in 0..0 |-> a]
  <2>1. f \in [0..0 -> S] /\ f[0] = a /\ \A i \in 1..0 : FALSE
    OBVIOUS
  <2> HIDE DEF f
  <2>2. Iterates(f, 0, a, G)
    BY <2>1, Zenon DEF Iterates
  <2> QED BY <2>1, <2>2
<1>2. ASSUME NEW m \in Nat, m \in T PROVE m + 1 \in T
  <2>1. PICK f \in [0..m -> S] : Iterates(f, m, a, G)
    BY <1>2, Zenon
  <2> DEFINE g == [i \in 0..(m + 1) |-> IF i = m + 1 THEN G[<<f[m], m + 1>>] ELSE f[i]]
  <2>2. f[0] = a /\ \A i \in 1..m : f[i] = G[<<f[i - 1], i>>]
    BY <2>1, Zenon DEF Iterates
  <2>3. /\ g[m + 1] = G[<<f[m], m + 1>>]
        /\ \A i \in 0..m : g[i] = f[i]
    OBVIOUS
  <2>4. /\ \A i \in 0..(m + 1) : i = m + 1 \/ i \in 0..m
        /\ \A i \in 1..(m + 1) : i = m + 1 \/ i \in 1..m
        /\ \A i \in 1..m : i \in 0..m /\ i - 1 \in 0..m
        /\ m \in 0..m /\ 0 \in 0..m /\ (m + 1) - 1 = m /\ m + 1 \in Nat
    OBVIOUS
  <2>5. g \in [0..(m + 1) -> S]
    <3>1. f[m] \in S /\ \A i \in 0..m : f[i] \in S
      BY <2>4, Zenon
    <3>2. <<f[m], m + 1>> \in S \X Nat
      BY <2>4, <3>1
    <3>3. G[<<f[m], m + 1>>] \in S
      BY <3>2, Zenon
    <3> QED BY <2>4, <3>1, <3>3, Zenon
  <2> HIDE DEF g
  <2>6. \A i \in 1..(m + 1) : g[i] = G[<<g[i - 1], i>>]
    <3>1. ASSUME NEW i \in 1..m PROVE g[i] = G[<<g[i - 1], i>>]
      BY <2>2, <2>3, <2>4, Zenon
    <3>2. g[m + 1] = G[<<g[(m + 1) - 1], m + 1>>]
      BY <2>3, <2>4, Zenon
    <3> QED BY <2>4, <3>1, <3>2, Zenon
  <2>7. g[0] = a
    BY <2>2, <2>3, <2>4, Zenon
  <2>8. Iterates(g, m + 1, a, G)
    BY <2>6, <2>7, Zenon DEF Iterates
  <2> QED BY <2>4, <2>5, <2>8, Zenon
<1> HIDE DEF T
<1>3. n \in T
  BY <1>1, <1>2, Induction, Zenon
<1> QED BY <1>3, Zenon DEF T

-----------------------------------------------------------------------------
(* The physical index space *)

\* n sequences over S.
Listed(seqs, n, S) == n \in Nat /\ seqs \in [1..n -> Seq(S)]

\* The running total of the lengths of sequences.
Totals(t, seqs, n) ==
  t[0] = 0 /\ \A p \in 1..n : t[p] = t[p - 1] + Len(seqs[p])

\* The concatenation of the first p of n sequences, for every p.
Joins(f, seqs, n) ==
  f[0] = <<>> /\ \A p \in 1..n : f[p] = f[p - 1] \o seqs[p]

\* Element k of sequence p stands where the total of the sequences before leads.
StandAt(f, t, seqs, n) ==
  \A p \in 1..n : \A k \in 1..Len(seqs[p]) : f[n][t[p - 1] + k] = seqs[p][k]

\* Sequence p has the element at a position of the concatenation.
Covers(p, index, t, seqs, n) ==
  p \in 1..n /\ t[p - 1] <= index /\ index - t[p - 1] < Len(seqs[p])

\* Totals are numbers and do not fall.
LEMMA TotalsRise ==
  ASSUME NEW S, NEW n, NEW seqs, Listed(seqs, n, S), NEW t, Totals(t, seqs, n)
  PROVE  /\ \A p \in 0..n : t[p] \in Nat
         /\ \A p, q \in 0..n : p <= q => t[p] <= t[q]
<1> n \in Nat /\ seqs \in [1..n -> Seq(S)]
  BY Zenon DEF Listed
<1>1. \A p \in 1..n : Len(seqs[p]) \in Nat
  BY SeqElement, Zenon
<1> DEFINE T == {m \in Nat : m <= n => \A p \in 0..m : t[p] \in Nat /\ t[p] <= t[m]}
<1>2. 0 \in T
  BY DEF Totals
<1>3. ASSUME NEW m \in Nat, m \in T PROVE m + 1 \in T
  <2> SUFFICES ASSUME m + 1 <= n
               PROVE  \A p \in 0..(m + 1) : t[p] \in Nat /\ t[p] <= t[m + 1]
    OBVIOUS
  <2>1. m <= n /\ m + 1 \in 1..n /\ (m + 1) - 1 = m /\ m \in 0..m
    OBVIOUS
  <2>2. \A p \in 0..m : t[p] \in Nat /\ t[p] <= t[m]
    BY <1>3, <2>1
  <2>3. t[m + 1] = t[m] + Len(seqs[m + 1]) /\ Len(seqs[m + 1]) \in Nat
    BY <1>1, <2>1, Zenon DEF Totals
  <2>4. t[m] \in Nat /\ t[m + 1] \in Nat /\ t[m] <= t[m + 1] /\ t[m + 1] <= t[m + 1]
    BY <2>1, <2>2, <2>3
  <2>5. \A p \in 0..(m + 1) : p = m + 1 \/ p \in 0..m
    OBVIOUS
  <2>6. \A p \in 0..m : t[p] <= t[m + 1]
    BY <2>2, <2>4
  <2> QED BY <2>2, <2>4, <2>5, <2>6, Zenon
<1> HIDE DEF T
<1>4. Nat \subseteq T
  BY <1>2, <1>3, Induction, Zenon
<1>5. \A q \in 0..n : q \in Nat /\ q <= n /\ q \in 0..q
  OBVIOUS
<1>6. \A q \in 0..n : \A p \in 0..q : t[p] \in Nat /\ t[p] <= t[q]
  BY <1>4, <1>5, Zenon DEF T
<1>7. \A p, q \in 0..n : p <= q => p \in 0..q
  OBVIOUS
<1> QED BY <1>5, <1>6, <1>7, Zenon

\* The elements of a concatenation.
LEMMA Concatenated ==
  ASSUME NEW S, NEW x \in Seq(S), NEW y \in Seq(S)
  PROVE  /\ x \o y \in Seq(S) /\ Len(x \o y) = Len(x) + Len(y)
         /\ \A k \in 1..Len(x) : (x \o y)[k] = x[k]
         /\ \A k \in 1..Len(y) : (x \o y)[Len(x) + k] = y[k]
OBVIOUS

\* The concatenation is as long as the totals say and has every element in its place.
LEMMA JoinedAt ==
  ASSUME NEW S, NEW n, NEW seqs, Listed(seqs, n, S),
         NEW t, Totals(t, seqs, n), NEW f, Joins(f, seqs, n)
  PROVE  f[n] \in Seq(S) /\ Len(f[n]) = t[n] /\ StandAt(f, t, seqs, n)
<1> n \in Nat /\ seqs \in [1..n -> Seq(S)]
  BY Zenon DEF Listed
<1> DEFINE At(m) ==
             /\ f[m] \in Seq(S) /\ Len(f[m]) = t[m]
             /\ \A p \in 1..m : \A k \in 1..Len(seqs[p]) : f[m][t[p - 1] + k] = seqs[p][k]
           T == {m \in Nat : m <= n => At(m)}
<1>1. /\ \A p \in 0..n : t[p] \in Nat
      /\ \A p, q \in 0..n : p <= q => t[p] <= t[q]
  BY TotalsRise, Zenon
<1>2. /\ t[0] = 0 /\ \A p \in 1..n : t[p] = t[p - 1] + Len(seqs[p])
      /\ f[0] = <<>> /\ \A p \in 1..n : f[p] = f[p - 1] \o seqs[p]
  BY Zenon DEF Totals, Joins
<1>3. 0 \in T
  <2>1. At(0)
    <3>1. <<>> \in Seq(S) /\ Len(<<>>) = 0 /\ \A p \in 1..0 : FALSE
      OBVIOUS
    <3> QED BY <1>2, <3>1, Zenon
  <2> QED BY <2>1
<1>4. ASSUME NEW m \in Nat, m \in T PROVE m + 1 \in T
  <2> SUFFICES ASSUME m + 1 <= n PROVE At(m + 1)
    OBVIOUS
  <2>1. /\ m <= n /\ m + 1 \in 1..n /\ (m + 1) - 1 = m /\ m \in 0..n
        /\ \A p \in 1..(m + 1) : p = m + 1 \/ p \in 1..m
        /\ \A p \in 1..m : p \in 1..n /\ p \in 0..n /\ p - 1 \in 0..n /\ p <= m
    OBVIOUS
  <2>2. At(m)
    BY <1>4, <2>1
  <2> DEFINE x == f[m]
             y == seqs[m + 1]
  <2>3. x \in Seq(S) /\ y \in Seq(S) /\ Len(x) = t[m] /\ f[m + 1] = x \o y
    BY <1>2, <2>1, <2>2, Zenon
  <2>4. t[m + 1] = t[m] + Len(y)
    BY <1>2, <2>1, Zenon
  <2>5. /\ x \o y \in Seq(S) /\ Len(x \o y) = Len(x) + Len(y)
        /\ \A k \in 1..Len(x) : (x \o y)[k] = x[k]
        /\ \A k \in 1..Len(y) : (x \o y)[Len(x) + k] = y[k]
    <3>1. x \in Seq(S) /\ y \in Seq(S)
      BY <2>3, Zenon
    <3> HIDE DEF x, y
    <3> QED BY <3>1, Concatenated
  <2>6. ASSUME NEW p \in 1..m, NEW k \in 1..Len(seqs[p])
        PROVE  f[m + 1][t[p - 1] + k] = seqs[p][k]
    <3>1. x[t[p - 1] + k] = seqs[p][k]
      BY <2>2, Zenon
    <3>2. t[p] = t[p - 1] + Len(seqs[p]) /\ t[p - 1] \in Nat /\ t[p] <= t[m] /\ t[m] \in Nat
      BY <1>1, <1>2, <2>1, Zenon
    <3>3. Len(seqs[p]) \in Nat
      BY <2>1, SeqElement, Zenon
    <3>4. \A i, l, j \in Nat : i + l <= j => \A d \in 1..l : i + d \in 1..j
      OBVIOUS
    <3>5. t[p - 1] + k \in 1..Len(x)
      BY <2>3, <3>2, <3>3, <3>4, Zenon
    <3> QED BY <2>3, <2>5, <3>1, <3>5, Zenon
  <2>7. ASSUME NEW k \in 1..Len(y) PROVE f[m + 1][t[m] + k] = y[k]
    BY <2>3, <2>5, Zenon
  <2>8. f[m + 1] \in Seq(S) /\ Len(f[m + 1]) = t[m + 1]
    BY <2>3, <2>4, <2>5, Zenon
  <2> QED BY <2>1, <2>6, <2>7, <2>8, Zenon
<1> HIDE DEF T, At
<1>5. n \in T
  BY <1>3, <1>4, Induction, Zenon
<1>6. n <= n
  OBVIOUS
<1>7. At(n)
  BY <1>5, <1>6, Zenon DEF T
<1> QED BY <1>7, Zenon DEF At, StandAt

\* The sequence that covers a position of the concatenation: the last one that
\* starts at or before it.
LEMMA SequenceFound ==
  ASSUME NEW S, NEW n, NEW seqs, Listed(seqs, n, S),
         NEW t, Totals(t, seqs, n), NEW index \in Nat, index < t[n],
         NEW p, p = Max({q \in 1..n : t[q - 1] <= index})
  PROVE  Covers(p, index, t, seqs, n)
<1> n \in Nat /\ seqs \in [1..n -> Seq(S)]
  BY Zenon DEF Listed
<1>1. /\ \A q \in 0..n : t[q] \in Nat
      /\ \A q, r \in 0..n : q <= r => t[q] <= t[r]
  BY TotalsRise, Zenon
<1>2. t[0] = 0 /\ \A q \in 1..n : t[q] = t[q - 1] + Len(seqs[q])
  BY Zenon DEF Totals
<1> DEFINE Above == {q \in 0..n : t[q] > index}
           Below == {q \in 1..n : t[q - 1] <= index}
<1>3. PICK x \in Above : \A y \in Above : x <= y
  <2>1. Above \in SUBSET Nat /\ n \in Above
    BY <1>1
  <2> HIDE DEF Above
  <2> QED BY <2>1, LeastNumber, Zenon
<1>4. x \in 1..n /\ x - 1 \in 0..n /\ x - 1 \notin Above
  BY <1>2, <1>3
<1>5. x \in Below
  BY <1>1, <1>4
<1>6. ASSUME NEW y \in Below PROVE x >= y
  <2> SUFFICES ASSUME x < y PROVE FALSE
    BY <1>4
  <2>1. x <= y - 1 /\ y - 1 \in 0..n /\ x \in 0..n
    BY <1>4
  <2>2. t[x] <= t[y - 1] /\ t[x] \in Nat /\ t[y - 1] \in Nat
    BY <1>1, <2>1, Zenon
  <2> QED BY <1>3, <2>2
<1>7. Max(Below) = x
  <2>1. \A y \in Below : (\A z \in Below : y >= z) => y = x
    BY <1>4, <1>5, <1>6
  <2> HIDE DEF Below
  <2> QED BY <1>5, <1>6, <2>1, Zenon DEF Max
<1>8. t[x] = t[x - 1] + Len(seqs[x]) /\ t[x] > index /\ t[x - 1] <= index /\ t[x - 1] \in Nat
  BY <1>1, <1>2, <1>3, <1>4, <1>5, Zenon
<1>9. Len(seqs[x]) \in Nat
  BY <1>4, SeqElement, Zenon
<1>10. index - t[x - 1] < Len(seqs[x])
  BY <1>8, <1>9
<1> QED BY <1>4, <1>7, <1>8, <1>10, Zenon DEF Covers

\* The samples of the caches behind some paths.
SamplesOf(ps) == [p \in 1..Len(ps) |-> disk[ps[p]].samples]

\* What the caches on disk hold.
LEMMA StoredCounts ==
  ASSUME StorageInv, NEW ps \in Seq(1..Len(disk))
  PROVE  /\ Len(ps) \in Nat /\ DOMAIN ps = 1..Len(ps)
         /\ Listed(SamplesOf(ps), Len(ps), Samples)
         /\ \A p \in 1..Len(ps) : /\ ps[p] \in 1..Len(disk)
                                  /\ SamplesOf(ps)[p] = disk[ps[p]].samples
                                  /\ SampleCount(ps[p]) = Len(SamplesOf(ps)[p])
                                  /\ SampleCount(ps[p]) \in Nat
<1>1. Len(ps) \in Nat /\ DOMAIN ps = 1..Len(ps) /\ \A p \in 1..Len(ps) : ps[p] \in 1..Len(disk)
  OBVIOUS
<1>2. ASSUME NEW c \in 1..Len(disk)
      PROVE  disk[c].samples \in Seq(Samples) /\ SampleCount(c) = Len(disk[c].samples)
  <2>1. Stored(disk[c])
    BY Zenon DEF StorageInv
  <2>2. disk[c].samples = disk[c].files.rows /\ disk[c].files.rows \in Seq(Samples)
        /\ Len(disk[c].files.index) = Len(disk[c].files.rows)
    BY <2>1, Zenon DEF Stored, Laid
  <2> QED BY <2>2, Zenon DEF SampleCount
<1>3. \A c \in 1..Len(disk) : Len(disk[c].samples) \in Nat
  BY <1>2, SeqElement, Zenon
<1>4. \A p \in 1..Len(ps) : SamplesOf(ps)[p] = disk[ps[p]].samples
  BY Zenon DEF SamplesOf
<1>5. SamplesOf(ps) \in [1..Len(ps) -> Seq(Samples)]
  BY <1>1, <1>2, Zenon DEF SamplesOf
<1> QED BY <1>1, <1>2, <1>3, <1>4, <1>5, Zenon DEF Listed

\* The running total of cache_offsets is the total of the samples.
LEMMA OffsetsAreTotals ==
  ASSUME StorageInv, NEW ps \in Seq(1..Len(disk))
  PROVE  Totals(NextOffset(ps), SamplesOf(ps), Len(ps))
<1> DEFINE n == Len(ps)
           count == [p \in Nat |-> IF p \in 1..n THEN SampleCount(ps[p]) ELSE 0]
           G == [z \in Nat \X Nat |-> z[1] + count[z[2]]]
           Is(f) == f = [p \in 0..n |-> IF p = 0 THEN 0 ELSE f[p - 1] + SampleCount(ps[p])]
<1>1. /\ n \in Nat
      /\ \A p \in 1..n : /\ SampleCount(ps[p]) = Len(SamplesOf(ps)[p])
                         /\ SampleCount(ps[p]) \in Nat
  BY StoredCounts, Zenon
<1> HIDE DEF n
<1>2. count \in [Nat -> Nat] /\ \A p \in 1..n : p \in Nat /\ count[p] = SampleCount(ps[p])
  BY <1>1
<1> HIDE DEF count
<1>3. G \in [Nat \X Nat -> Nat]
  <2>1. \A z \in Nat \X Nat : z[1] \in Nat /\ z[2] \in Nat
    OBVIOUS
  <2>2. \A x, y \in Nat : x + y \in Nat
    OBVIOUS
  <2>3. \A z \in Nat \X Nat : count[z[2]] \in Nat
    BY <1>2, <2>1, Zenon
  <2> QED BY <2>1, <2>2, <2>3, Zenon
<1>4. \A x, p \in Nat : G[<<x, p>>] = x + count[p]
  BY Zenon
<1> HIDE DEF G
<1>5. PICK f \in [0..n -> Nat] : Iterates(f, n, 0, G)
  <2>1. 0 \in Nat
    OBVIOUS
  <2> QED BY <1>1, <1>3, <2>1, IterationExists, Zenon
<1>6. f[0] = 0 /\ \A p \in 1..n : f[p] = G[<<f[p - 1], p>>]
  BY <1>5, Zenon DEF Iterates
<1>7. \A p \in 1..n : p - 1 \in 0..n /\ p \in Nat
  BY <1>1
<1>8. \A p \in 1..n : f[p] = f[p - 1] + SampleCount(ps[p])
  <2> TAKE p \in 1..n
  <2>1. f[p - 1] \in Nat /\ p \in Nat
    BY <1>7, Zenon
  <2>2. G[<<f[p - 1], p>>] = f[p - 1] + count[p]
    BY <1>4, <2>1, Zenon
  <2> QED BY <1>2, <1>6, <2>2, Zenon
<1>9. \A p \in 0..n : p = 0 \/ p \in 1..n
  BY <1>1
<1>10. Is(f)
  BY <1>6, <1>8, <1>9, Zenon
<1>11. NextOffset(ps) = CHOOSE g : Is(g)
  BY DEF NextOffset, n
<1>12. Is(NextOffset(ps))
  BY <1>10, <1>11, Zenon
<1> DEFINE t == NextOffset(ps)
<1> HIDE DEF t
<1>13. t = [p \in 0..n |-> IF p = 0 THEN 0 ELSE t[p - 1] + SampleCount(ps[p])]
  BY <1>12, Zenon DEF t
<1>14. t[0] = 0 /\ \A p \in 1..n : t[p] = t[p - 1] + SampleCount(ps[p])
  <2>1. 0 \in 0..n /\ \A p \in 1..n : p \in 0..n /\ p /= 0
    BY <1>1
  <2> QED BY <1>13, <2>1, Zenon
<1>15. Totals(t, SamplesOf(ps), n)
  BY <1>1, <1>14, Zenon DEF Totals
<1> QED BY <1>15, Zenon DEF t, n

\* The samples of all caches, one after another.
LEMMA WrittenIsJoined ==
  ASSUME StorageInv
  PROVE  \E f : /\ Joins(f, SamplesOf(paths), Len(paths))
                /\ \A index : Written(index) = f[Len(paths)][index + 1]
<1> DEFINE n == Len(paths)
           S == SamplesOf(paths)
           G == [z \in Seq(Samples) \X Nat |-> IF z[2] \in 1..n THEN z[1] \o S[z[2]] ELSE <<>>]
           Is(f) == f = [p \in 0..n |-> IF p = 0 THEN <<>> ELSE f[p - 1] \o disk[paths[p]].samples]
<1>1. n \in Nat /\ \A p \in 1..n : S[p] \in Seq(Samples) /\ S[p] = disk[paths[p]].samples
  <2>1. paths \in Seq(1..Len(disk))
    BY Zenon DEF StorageInv
  <2> QED BY <2>1, StoredCounts, Zenon DEF Listed
<1> HIDE DEF n, S
<1>2. \A x \in Seq(Samples), p \in 1..n : x \o S[p] \in Seq(Samples)
  BY <1>1, Concatenated, Zenon
<1>3. <<>> \in Seq(Samples)
  OBVIOUS
<1>4. G \in [Seq(Samples) \X Nat -> Seq(Samples)]
  <2>1. ASSUME NEW z \in Seq(Samples) \X Nat
        PROVE  (IF z[2] \in 1..n THEN z[1] \o S[z[2]] ELSE <<>>) \in Seq(Samples)
    <3>1. z[1] \in Seq(Samples)
      BY <2>1
    <3> QED BY <1>2, <1>3, <3>1, Zenon
  <2> QED BY <2>1, Zenon
<1>5. \A x \in Seq(Samples), p \in 1..n : G[<<x, p>>] = x \o S[p]
  <2> SUFFICES ASSUME NEW x \in Seq(Samples), NEW p \in 1..n PROVE G[<<x, p>>] = x \o S[p]
    BY Zenon
  <2> DEFINE z == <<x, p>>
  <2>1. z \in Seq(Samples) \X Nat /\ z[1] = x /\ z[2] = p
    BY <1>1
  <2> HIDE DEF z
  <2>2. G[z] = IF z[2] \in 1..n THEN z[1] \o S[z[2]] ELSE <<>>
    BY <2>1, Zenon
  <2>3. G[z] = x \o S[p]
    BY <2>1, <2>2, Zenon
  <2> QED BY <2>3, Zenon DEF z
<1> HIDE DEF G
<1>6. PICK f \in [0..n -> Seq(Samples)] : Iterates(f, n, <<>>, G)
  BY <1>1, <1>3, <1>4, IterationExists, Zenon
<1>7. f[0] = <<>> /\ \A p \in 1..n : f[p] = G[<<f[p - 1], p>>]
  BY <1>6, Zenon DEF Iterates
<1>8. \A p \in 1..n : p - 1 \in 0..n
  BY <1>1
<1>9. \A p \in 1..n : f[p] = f[p - 1] \o disk[paths[p]].samples
  <2> SUFFICES ASSUME NEW p \in 1..n PROVE f[p] = f[p - 1] \o disk[paths[p]].samples
    BY Zenon
  <2>1. f[p - 1] \in Seq(Samples)
    BY <1>8, Zenon
  <2>2. G[<<f[p - 1], p>>] = f[p - 1] \o S[p]
    BY <1>5, <2>1, Zenon
  <2> QED BY <1>1, <1>7, <2>2, Zenon
<1>10. \A p \in 0..n : p = 0 \/ p \in 1..n
  BY <1>1
<1>11. Is(f)
  BY <1>7, <1>9, <1>10, Zenon
<1> DEFINE g == CHOOSE h : Is(h)
<1>12. Is(g)
  BY <1>11, Zenon
<1>13. \A index : Written(index) = g[n][index + 1]
  BY DEF Written, n
<1> HIDE DEF g
<1>14. g = [p \in 0..n |-> IF p = 0 THEN <<>> ELSE g[p - 1] \o disk[paths[p]].samples]
  BY <1>12, Zenon
<1>15. g[0] = <<>> /\ \A p \in 1..n : g[p] = g[p - 1] \o disk[paths[p]].samples
  <2>1. 0 \in 0..n /\ \A p \in 1..n : p \in 0..n /\ p /= 0
    BY <1>1
  <2> QED BY <1>14, <2>1, Zenon
<1>16. Joins(g, S, n)
  BY <1>1, <1>15, Zenon DEF Joins
<1> QED BY <1>13, <1>16, Zenon DEF n, S

\* locate_physical_sample and load_planned_sample find the sample that was written
\* behind a physical index, in whatever order the caches were opened.
LEMMA LoadsWritten ==
  ASSUME StorageInv, NEW index \in Nat, index < TotalSamples(paths)
  PROVE  /\ Written(index) \in Samples
         /\ LoadPlanned(index) = Returned(Written(index), ValidateCache)
<1> DEFINE n == Len(paths)
           seqs == SamplesOf(paths)
           t == NextOffset(paths)
           offsets == CacheOffsets(paths)
           p == Max({q \in 1..n : t[q - 1] <= index})
           k == (index - t[p - 1]) + 1
<1>1. paths \in Seq(1..Len(disk))
  BY Zenon DEF StorageInv
<1>2. /\ n \in Nat /\ DOMAIN paths = 1..n /\ Listed(seqs, n, Samples)
      /\ \A q \in 1..n : /\ paths[q] \in 1..Len(disk) /\ seqs[q] = disk[paths[q]].samples
                         /\ SampleCount(paths[q]) = Len(seqs[q])
  BY <1>1, StoredCounts, Zenon
<1>3. Totals(t, seqs, n) /\ index < t[n]
  BY <1>1, OffsetsAreTotals, Zenon DEF TotalSamples
<1>4. PICK f : Joins(f, seqs, n) /\ \A x : Written(x) = f[n][x + 1]
  BY WrittenIsJoined, Zenon
<1>5. offsets = [q \in 1..n |-> t[q - 1]]
  BY <1>2, Zenon DEF CacheOffsets
<1>6. \A q \in 0..n : t[q] \in Nat
  <2> HIDE DEF n, seqs, t
  <2> QED BY <1>2, <1>3, TotalsRise, Zenon
<1>7. p \in 1..n /\ t[p - 1] <= index /\ index - t[p - 1] < Len(seqs[p])
  <2>1. p = Max({q \in 1..n : t[q - 1] <= index})
    BY Zenon
  <2> HIDE DEF n, seqs, t, p
  <2>2. Covers(p, index, t, seqs, n)
    BY <1>2, <1>3, <2>1, SequenceFound, Zenon
  <2> QED BY <2>2, Zenon DEF Covers
<1>8. Max({q \in DOMAIN paths : offsets[q] <= index}) = p
  <2>1. {q \in DOMAIN paths : offsets[q] <= index} = {q \in 1..n : t[q - 1] <= index}
    <3> HIDE DEF t, offsets, n
    <3> QED BY <1>2, <1>5, Zenon
  <2> QED BY <2>1, Zenon
<1> HIDE DEF t, n, seqs, offsets, p
<1>9. LocatePhysicalSample(index) = <<paths[p], index - t[p - 1]>>
  <2>1. LocatePhysicalSample(index) = <<paths[p], index - offsets[p]>>
    BY <1>8, Zenon DEF LocatePhysicalSample, offsets
  <2>2. offsets[p] = t[p - 1]
    BY <1>5, <1>7, Zenon
  <2> QED BY <2>1, <2>2, Zenon
<1>10. t[p - 1] \in Nat /\ Len(seqs[p]) \in Nat
  <2>1. p - 1 \in 0..n
    BY <1>2, <1>7
  <2> QED BY <1>2, <1>6, <1>7, <2>1, SeqElement, Zenon DEF Listed
<1>11. /\ k \in 1..Len(seqs[p]) /\ k - 1 = index - t[p - 1] /\ t[p - 1] + k = index + 1
       /\ ~(index - t[p - 1] >= Len(seqs[p]))
  BY <1>7, <1>10
<1> HIDE DEF k
<1>12. Written(index) = seqs[p][k]
  <2>1. Listed(seqs, n, Samples) /\ Totals(t, seqs, n) /\ Joins(f, seqs, n)
    BY <1>2, <1>3, <1>4, Zenon
  <2>2. StandAt(f, t, seqs, n)
    BY <2>1, JoinedAt, Zenon
  <2>3. f[n][t[p - 1] + k] = seqs[p][k]
    BY <1>7, <1>11, <2>2, Zenon DEF StandAt
  <2> QED BY <1>4, <1>11, <2>3, Zenon
<1>13. seqs[p] \in Seq(Samples) /\ seqs[p] = disk[paths[p]].samples
       /\ paths[p] \in 1..Len(disk) /\ SampleCount(paths[p]) = Len(seqs[p])
  BY <1>2, <1>7, Zenon DEF Listed
<1>14. seqs[p][k] \in Samples /\ k \in DOMAIN seqs[p]
  BY <1>11, <1>13
<1>15. LoadPlanned(index) = ReadSample(disk[paths[p]].files, k - 1, ValidateCache)
  <2> DEFINE at == <<paths[p], index - t[p - 1]>>
  <2>1. at[1] = paths[p] /\ at[2] = k - 1
    BY <1>11
  <2>2. ~(k - 1 >= SampleCount(paths[p]))
    BY <1>11, <1>13, Zenon
  <2> HIDE DEF at
  <2>3. LocatePhysicalSample(index) = at
    BY <1>9, Zenon DEF at
  <2> QED BY <2>1, <2>2, <2>3, Zenon DEF LoadPlanned
<1>16. ReadSample(disk[paths[p]].files, k - 1, ValidateCache)
         = Returned(seqs[p][k], ValidateCache)
  <2>1. Stored(disk[paths[p]])
    BY <1>13, Zenon DEF StorageInv
  <2>2. k \in DOMAIN disk[paths[p]].samples /\ ValidateCache \in BOOLEAN
    BY <1>13, <1>14, DatasetAssumption, Zenon
  <2> QED BY <1>13, <2>1, <2>2, StoredReads, Zenon
<1> QED BY <1>12, <1>14, <1>15, <1>16, Zenon

\* physical_index: a row that is known has a physical index of the dataset.
LEMMA KnownInRange ==
  ASSUME StorageInv, NEW row, row.sample \in Nat, KnownRow(row)
  PROVE  PhysicalIndex(row) \in Nat /\ PhysicalIndex(row) < TotalSamples(paths)
<1> DEFINE n == Len(paths)
           seqs == SamplesOf(paths)
           t == NextOffset(paths)
           p == CHOOSE q \in DOMAIN paths : paths[q] = row.cache
<1>1. paths \in Seq(1..Len(disk))
  BY Zenon DEF StorageInv
<1>2. /\ n \in Nat /\ DOMAIN paths = 1..n /\ Listed(seqs, n, Samples)
      /\ \A q \in 1..n : SampleCount(paths[q]) = Len(seqs[q]) /\ SampleCount(paths[q]) \in Nat
  BY <1>1, StoredCounts, Zenon
<1>3. Totals(t, seqs, n)
  BY <1>1, OffsetsAreTotals, Zenon
<1>4. p \in DOMAIN paths /\ paths[p] = row.cache /\ row.sample < SampleCount(row.cache)
  BY Zenon DEF KnownRow
<1>5. PhysicalIndex(row) = t[p - 1] + row.sample /\ TotalSamples(paths) = t[n]
  BY <1>4, Zenon DEF PhysicalIndex, CacheOffsets, TotalSamples
<1> HIDE DEF n, seqs, t, p
<1>6. /\ \A q \in 0..n : t[q] \in Nat
      /\ \A q, r \in 0..n : q <= r => t[q] <= t[r]
  BY <1>2, <1>3, TotalsRise, Zenon
<1>7. p \in 1..n /\ p \in 0..n /\ p - 1 \in 0..n /\ n \in 0..n /\ p <= n
  BY <1>2, <1>4
<1>8. t[p - 1] \in Nat /\ t[p] <= t[n] /\ t[p] = t[p - 1] + Len(seqs[p]) /\ t[n] \in Nat
  BY <1>3, <1>6, <1>7, Zenon DEF Totals
<1>9. row.sample < Len(seqs[p]) /\ Len(seqs[p]) \in Nat
  BY <1>2, <1>4, <1>7, Zenon
<1>10. t[p - 1] + row.sample \in Nat /\ t[p - 1] + row.sample < t[n]
  BY <1>8, <1>9
<1> QED BY <1>5, <1>10, Zenon

-----------------------------------------------------------------------------
(* Iterators deliver their windows *)

\* What a caller may get, and iterators with their plans.
Results   == Samples \cup {[s EXCEPT !.floats = "moved"] : s \in Samples} \cup {ReadError}
Plans     == [shuffled : BOOLEAN, start : Nat, populationLen : Nat,
              physicalIndices : Seq(Nat), len : Nat]
Statuses  == {"none", "created", "refused", "open", "ended", "failed"}
Iterators == [status : Statuses, plan : Plans, out : Seq(Results), promised : Seq(Results),
              created : {<<>>} \union (Seq(Nat) \X Nat), kept : BOOLEAN]

\* What the physical indices of the open dataset give.
AllReturned ==
  [index \in 0..(TotalSamples(paths) - 1) |-> Returned(Written(index), ValidateCache)]

\* Position k of a plan leads to the sample promised there.
Leads(it, written, k) ==
  LET index == it.plan.physicalIndices[PlannedRow(it.plan, k) + 1] IN
  index \in DOMAIN written /\ it.promised[k + 1] = written[index]

\* What was promised is what the plan leads to; what came out is its beginning.
Delivers(it, written) ==
  /\ Len(it.promised) = it.plan.len
  /\ \A k \in 0..(it.plan.len - 1) : Leads(it, written, k)
  /\ Len(it.out) <= it.plan.len
  /\ \A k \in 1..Len(it.out) : it.out[k] = it.promised[k]

\* An iterator in each of its stations.
Iterating(it, written, drawn) ==
  /\ it.status \in {"none", "created", "refused"} => it.out = <<>> /\ it.promised = <<>>
  /\ it.status \in {"open", "ended", "failed"} => Delivers(it, written)
  /\ it.status = "ended" => Len(it.out) = it.plan.len
  /\ it.status = "failed" => Len(it.out) < it.plan.len /\ it.promised[Len(it.out) + 1] = ReadError
  /\ it.status = "refused" => drawn

\* The rows of a table are physical indices.
Rows(table, written) ==
  table \in Seq(Nat) /\ \A k \in 1..Len(table) : table[k] \in DOMAIN written

\* The rows of an open dataset are physical indices, and each iterator delivers
\* the samples behind its own.
IterInv ==
  /\ shuffle \in BOOLEAN /\ iterators \in [1..NumIters -> Iterators]
  /\ paths /= <<>> => Rows(active, AllReturned)
  /\ paths = <<>> => \A i \in 1..NumIters : iterators[i].status = "none"
  /\ \A i \in 1..NumIters : Iterating(iterators[i], AllReturned, shuffle)

\* A sample that was written gives a result.
LEMMA ReturnedType ==
  ASSUME NEW s \in Samples, NEW validate
  PROVE  Returned(s, validate) \in Results
BY DEF Returned, Results

\* What the physical indices give is what load_planned_sample finds.
LEMMA AllReturnedLoads ==
  ASSUME StorageInv
  PROVE  /\ TotalSamples(paths) \in Nat
         /\ DOMAIN AllReturned = 0..(TotalSamples(paths) - 1)
         /\ \A index \in DOMAIN AllReturned :
              /\ index \in Nat /\ AllReturned[index] = Returned(Written(index), ValidateCache)
              /\ AllReturned[index] \in Results
              /\ LoadPlanned(index) = AllReturned[index]
<1>1. TotalSamples(paths) \in Nat
  <2>1. paths \in Seq(1..Len(disk))
    BY Zenon DEF StorageInv
  <2>2. /\ Len(paths) \in Nat /\ Listed(SamplesOf(paths), Len(paths), Samples)
        /\ Totals(NextOffset(paths), SamplesOf(paths), Len(paths))
    BY <2>1, StoredCounts, OffsetsAreTotals, Zenon
  <2>3. Len(paths) \in 0..Len(paths)
    BY <2>2
  <2> QED BY <2>2, <2>3, TotalsRise, Zenon DEF TotalSamples
<1> DEFINE total == TotalSamples(paths)
<1>2. DOMAIN AllReturned = 0..(total - 1)
      /\ \A index \in 0..(total - 1) :
           AllReturned[index] = Returned(Written(index), ValidateCache)
  BY Zenon DEF AllReturned
<1>3. \A index \in 0..(total - 1) : index \in Nat /\ index < total
  <2>1. total \in Nat
    BY <1>1, Zenon
  <2> HIDE DEF total
  <2> QED BY <2>1
<1>4. \A index \in 0..(total - 1) :
        /\ Returned(Written(index), ValidateCache) \in Results
        /\ LoadPlanned(index) = Returned(Written(index), ValidateCache)
  BY <1>3, LoadsWritten, ReturnedType, Zenon
<1> QED BY <1>1, <1>2, <1>3, <1>4, Zenon

\* A step that leaves the caches and the paths alone leaves the index space alone.
LEMMA SameTotal ==
  ASSUME UNCHANGED disk, NEW ps
  PROVE  TotalSamples(ps)' = TotalSamples(ps)
BY SMT DEF TotalSamples, NextOffset, SampleCount

\* The same for what was written.
LEMMA SameWritten ==
  ASSUME UNCHANGED <<disk, paths>>
  PROVE  AllReturned' = AllReturned
BY SMT DEF AllReturned, Returned, Written, TotalSamples, NextOffset, SampleCount

\* No iterator has begun at the start.
LEMMA IterInit == Init => IterInv
<1> SUFFICES ASSUME Init PROVE IterInv
  OBVIOUS
<1>1. /\ paths = <<>> /\ shuffle \in BOOLEAN
      /\ iterators = [i \in 1..NumIters |-> NewIterator]
  BY Zenon DEF Init
<1>2. NewIterator \in Iterators /\ NewIterator.status = "none"
      /\ NewIterator.out = <<>> /\ NewIterator.promised = <<>>
  BY DEF NewIterator, NoPlan, Iterators, Plans, Statuses
<1>3. iterators \in [1..NumIters -> Iterators]
      /\ \A i \in 1..NumIters : iterators[i] = NewIterator
  BY <1>1, <1>2, Zenon
<1>4. Iterating(NewIterator, AllReturned, shuffle)
  BY <1>2 DEF Iterating
<1> QED BY <1>1, <1>2, <1>3, <1>4, Zenon DEF IterInv

\* Before the dataset is open there is nothing an iterator depends on.
LEMMA IterIdle ==
  ASSUME IterInv, paths = <<>>, UNCHANGED iterators, shuffle' \in BOOLEAN,
         paths' /= <<>> => Rows(active, AllReturned)'
  PROVE  IterInv'
<1>1. ASSUME NEW i \in 1..NumIters
      PROVE  iterators[i].status = "none" /\ iterators[i].out = <<>>
             /\ iterators[i].promised = <<>>
  BY Zenon DEF IterInv, Iterating
<1>2. ASSUME NEW i \in 1..NumIters PROVE Iterating(iterators[i], AllReturned, shuffle)'
  BY <1>1 DEF Iterating
<1> QED BY <1>1, <1>2, Zenon DEF IterInv

\* A step that changes one iterator, and at most the table.
LEMMA IterMoved ==
  ASSUME IterInv, UNCHANGED <<disk, paths, shuffle>>, paths /= <<>>,
         Rows(active', AllReturned),
         NEW i \in 1..NumIters, NEW it \in Iterators,
         iterators' = [iterators EXCEPT ![i] = it],
         Iterating(it, AllReturned, shuffle)
  PROVE  IterInv'
<1>1. AllReturned' = AllReturned
  BY SameWritten, Zenon
<1>2. iterators' \in [1..NumIters -> Iterators]
      /\ \A j \in 1..NumIters : iterators'[j] = IF j = i THEN it ELSE iterators[j]
  BY Zenon DEF IterInv
<1>3. ASSUME NEW j \in 1..NumIters PROVE Iterating(iterators'[j], AllReturned, shuffle)
  BY <1>2, Zenon DEF IterInv
<1>4. \A j \in 1..NumIters : Iterating(iterators'[j], AllReturned', shuffle')
  BY <1>1, <1>3, Zenon
<1>5. Rows(active', AllReturned')
  BY <1>1, Zenon
<1> QED BY <1>2, <1>4, <1>5, Zenon DEF IterInv

\* A step that changes no iterator, and at most the table.
LEMMA IterKept ==
  ASSUME IterInv, UNCHANGED <<disk, paths, shuffle, iterators>>,
         paths /= <<>> => Rows(active', AllReturned)
  PROVE  IterInv'
<1>1. AllReturned' = AllReturned
  BY SameWritten, Zenon
<1>2. \A j \in 1..NumIters : Iterating(iterators'[j], AllReturned', shuffle')
  BY <1>1, Zenon DEF IterInv
<1>3. paths' /= <<>> => Rows(active', AllReturned')
  BY <1>1, Zenon
<1> QED BY <1>2, <1>3, Zenon DEF IterInv

\* load makes every physical index a row.
LEMMA IterOpen ==
  ASSUME StorageInv', IterInv, NEW ps, NEW shuffled \in BOOLEAN, Open(ps, shuffled)
  PROVE  IterInv'
<1> DEFINE n == TotalSamples(ps)
<1>1. /\ paths = <<>> /\ paths' = ps /\ n \in Nat \ {0} /\ shuffle' = shuffled
      /\ active' = [k \in 1..n |-> k - 1] /\ UNCHANGED disk /\ UNCHANGED iterators
  BY DEF Open, Opens, storageVars
<1>2. DOMAIN AllReturned' = 0..(n - 1)
  <2>1. DOMAIN AllReturned' = 0..(TotalSamples(paths)' - 1)
    BY Zenon DEF AllReturned
  <2>2. TotalSamples(paths)' = TotalSamples(ps)'
    <3>1. paths' = ps
      BY <1>1
    <3> QED BY <3>1 DEF TotalSamples, NextOffset, SampleCount
  <2>3. TotalSamples(ps)' = n
    BY <1>1, SameTotal, Zenon
  <2> QED BY <2>1, <2>2, <2>3, Zenon
<1> HIDE DEF n
<1>3. active' \in Seq(Nat) /\ Len(active') = n
      /\ \A k \in 1..n : active'[k] \in 0..(n - 1)
  BY <1>1
<1>4. Rows(active, AllReturned)'
  BY <1>2, <1>3, Zenon DEF Rows
<1> QED BY <1>1, <1>4, IterIdle, Zenon

\* update_metadata accepts only rows with a physical index.
LEMMA IterUpdate ==
  ASSUME StorageInv, IterInv, NEW table \in Tables, UpdateMetadata(table)
  PROVE  IterInv'
<1>1. /\ table \in Seq([cache : Nat, sample : Nat, weight : Int])
      /\ \A k \in DOMAIN table : KnownRow(table[k])
      /\ active' = [k \in DOMAIN table |-> PhysicalIndex(table[k])]
      /\ UNCHANGED <<disk, paths, shuffle, iterators>>
  BY DatasetAssumption, Zenon DEF UpdateMetadata, Acceptable, storageVars
<1> DEFINE n == Len(table)
<1>2. n \in Nat /\ DOMAIN table = 1..n /\ \A k \in 1..n : table[k].sample \in Nat
  <2> DEFINE R == [cache : Nat, sample : Nat, weight : Int]
  <2>1. \A row \in R : row.sample \in Nat
    OBVIOUS
  <2> HIDE DEF R
  <2>2. table \in Seq(R)
    BY <1>1, Zenon DEF R
  <2>3. n \in Nat /\ DOMAIN table = 1..n /\ \A k \in 1..n : table[k] \in R
    BY <2>2
  <2> QED BY <2>1, <2>3, Zenon
<1>3. \A k \in 1..n : PhysicalIndex(table[k]) \in Nat
                      /\ PhysicalIndex(table[k]) < TotalSamples(paths)
  BY <1>1, <1>2, KnownInRange, Zenon
<1>4. DOMAIN AllReturned = 0..(TotalSamples(paths) - 1) /\ TotalSamples(paths) \in Nat
  BY AllReturnedLoads, Zenon
<1>5. \A t \in Nat : \A x \in Nat : x < t => x \in 0..(t - 1)
  OBVIOUS
<1>6. \A k \in 1..n : PhysicalIndex(table[k]) \in DOMAIN AllReturned
  BY <1>3, <1>4, <1>5, Zenon
<1> HIDE DEF n
<1>7. active' \in [1..n -> Nat] /\ \A k \in 1..n : active'[k] = PhysicalIndex(table[k])
  BY <1>1, <1>2, <1>3, Zenon
<1>8. active' \in Seq(Nat) /\ Len(active') = n
  BY <1>2, <1>7
<1>9. Rows(active', AllReturned)
  BY <1>6, <1>7, <1>8, Zenon DEF Rows
<1> QED BY <1>1, <1>9, IterKept, Zenon

\* What an iterator becomes when it is created, refused, opened, ended, failed, and
\* when it yields a sample.
Created(it, now) == [it EXCEPT !.status = "created", !.created = now]
Refused(it) == [it EXCEPT !.status = "refused"]
Opened(it, plan, window, now) ==
  [it EXCEPT !.status = "open", !.plan = plan, !.promised = window,
             !.kept = (it.created = now), !.created = <<>>]
Ended(it) == [it EXCEPT !.status = "ended"]
Failed(it) == [it EXCEPT !.status = "failed"]
Yielded(it, sample) == [it EXCEPT !.out = Append(@, sample)]

\* They are iterators and keep what they do not mention: one that was created.
LEMMA CreatedStation ==
  ASSUME NEW it \in Iterators, NEW now \in Seq(Nat) \X Nat
  PROVE  LET new == Created(it, now) IN
         /\ new \in Iterators /\ new.status = "created"
         /\ new.out = it.out /\ new.promised = it.promised
BY Zenon DEF Created, Iterators, Statuses

\* One that was refused.
LEMMA RefusedStation ==
  ASSUME NEW it \in Iterators
  PROVE  LET new == Refused(it) IN
         /\ new \in Iterators /\ new.status = "refused"
         /\ new.out = it.out /\ new.promised = it.promised
BY DEF Refused, Iterators, Statuses

\* One that ended.
LEMMA EndedStation ==
  ASSUME NEW it \in Iterators
  PROVE  LET new == Ended(it) IN
         /\ new \in Iterators /\ new.status = "ended" /\ new.plan = it.plan
         /\ new.out = it.out /\ new.promised = it.promised
BY DEF Ended, Iterators, Statuses

\* One that failed.
LEMMA FailedStation ==
  ASSUME NEW it \in Iterators
  PROVE  LET new == Failed(it) IN
         /\ new \in Iterators /\ new.status = "failed" /\ new.plan = it.plan
         /\ new.out = it.out /\ new.promised = it.promised
BY DEF Failed, Iterators, Statuses

\* One that was opened.
LEMMA OpenedStation ==
  ASSUME NEW it \in Iterators, NEW plan \in Plans, NEW window \in Seq(Results), NEW now
  PROVE  LET new == Opened(it, plan, window, now) IN
         /\ new \in Iterators /\ new.status = "open" /\ new.plan = plan
         /\ new.promised = window /\ new.out = it.out
<1> DEFINE kept == it.created = now
<1>1. kept \in BOOLEAN
  OBVIOUS
<1> HIDE DEF kept
<1>2. Opened(it, plan, window, now)
        = [it EXCEPT !.status = "open", !.plan = plan, !.promised = window,
                     !.kept = kept, !.created = <<>>]
  BY Zenon DEF Opened, kept
<1> QED BY <1>1, <1>2, Zenon DEF Iterators, Statuses

\* One that yielded a sample.
LEMMA YieldedStation ==
  ASSUME NEW it \in Iterators, NEW sample \in Results
  PROVE  LET new == Yielded(it, sample) IN
         /\ new \in Iterators /\ new.status = it.status /\ new.plan = it.plan
         /\ new.promised = it.promised /\ new.out = Append(it.out, sample)
<1>1. it.out \in Seq(Results)
  BY DEF Iterators
<1>2. Append(it.out, sample) \in Seq(Results)
  BY <1>1
<1> QED BY <1>2, Zenon DEF Yielded, Iterators

\* iter() only creates the generator.
LEMMA IterCreate ==
  ASSUME CursorInv, IterInv, NEW i \in 1..NumIters, Iter(i)
  PROVE  IterInv'
<1>1. PICK it : it = Created(iterators[i], <<active, epochLen>>)
  BY Zenon
<1>2. /\ paths /= <<>> /\ iterators[i].status = "none" /\ iterators[i] \in Iterators
      /\ UNCHANGED <<disk, paths, shuffle, active>>
  BY Zenon DEF Iter, IterInv, storageVars, stateVars
<1>3. iterators' = [iterators EXCEPT ![i] = it]
  BY <1>1, Zenon DEF Iter, Created
<1>4. Rows(active, AllReturned) /\ active \in Seq(Nat)
  BY <1>2, Zenon DEF IterInv, Rows
<1>5. <<active, epochLen>> \in Seq(Nat) \X Nat
  BY <1>4 DEF CursorInv
<1>6. /\ it \in Iterators /\ it.status = "created"
      /\ it.out = iterators[i].out /\ it.promised = iterators[i].promised
  BY <1>1, <1>2, <1>5, CreatedStation, Zenon
<1>7. iterators[i].out = <<>> /\ iterators[i].promised = <<>>
  BY <1>2, Zenon DEF IterInv, Iterating
<1>8. Iterating(it, AllReturned, shuffle)
  BY <1>6, <1>7 DEF Iterating
<1>9. Rows(active', AllReturned)
  BY <1>2, <1>4, Zenon
<1> QED BY <1>2, <1>3, <1>6, <1>8, <1>9, IterMoved, Zenon

\* The plan start_iterator makes.
NewPlan(start) ==
  [shuffled |-> shuffle, start |-> start, populationLen |-> Len(active),
   physicalIndices |-> active, len |-> epochLen]

\* Where the window of the next iterator starts.
WindowStart == IF shuffle THEN shuffledDrawOffset ELSE sequentialOffset

\* Where the cursor moves.
WindowEnd ==
  IF shuffle THEN AdvanceDrawOffset(WindowStart, epochLen)
             ELSE AdvanceCyclicOffset(WindowStart, epochLen, Len(active))

\* The row of position k of the next window, counted in the history.
HistoryRow(k) == (IF shuffle THEN Draws[issued + k] ELSE issued + k) % Len(active)

\* The window of the next iterator goes on where the windows before it ended, in
\* the order of the rows and in that of the draws.
LEMMA WindowContinues ==
  ASSUME CursorInv, shuffle \in BOOLEAN, paths /= <<>>
  PROVE  /\ WindowStart \in Nat
         /\ ~shuffle => WindowEnd /= Overflow
         /\ WindowEnd /= Overflow => \A k \in 0..(epochLen - 1) :
              /\ HistoryRow(k) \in 0..(Len(active) - 1)
              /\ PlannedRow(NewPlan(WindowStart), k) = HistoryRow(k)
<1> DEFINE n == Len(active)
           start == WindowStart
           plan == NewPlan(start)
<1>1. n \in Nat \ {0} /\ issued \in Nat /\ epochLen \in Nat \ {0}
  BY DEF CursorInv
<1>2. plan.shuffled = shuffle /\ plan.start = start /\ plan.populationLen = n
  BY DEF NewPlan
<1>3. CASE shuffle
  <2>1. start = issued
    BY <1>3, Zenon DEF WindowStart, CursorInv, CursorContinues
  <2>2. WindowEnd = AdvanceDrawOffset(issued, epochLen)
    BY <1>3, <2>1, Zenon DEF WindowEnd
  <2>3. ASSUME WindowEnd /= Overflow, NEW k \in 0..(epochLen - 1)
        PROVE  HistoryRow(k) \in 0..(n - 1) /\ PlannedRow(plan, k) = HistoryRow(k)
    <3>1. ~(issued + epochLen > MaxDraw)
      BY <2>2, <2>3, Zenon DEF AdvanceDrawOffset
    <3>2. issued + k \in 0..MaxDraw
      <4>1. \A i, l, m \in Nat : ~(i + l > m) => \A j \in 0..(l - 1) : i + j \in 0..m
        OBVIOUS
      <4>2. epochLen \in Nat /\ MaxDraw \in Nat
        BY <1>1, EpochPlanAssumption
      <4> QED BY <1>1, <3>1, <4>1, <4>2, Zenon
    <3>3. Draws[issued + k] \in Nat
      BY <3>2, EpochPlanAssumption, Zenon
    <3>4. Draws[issued + k] % n \in 0..(n - 1)
      <4>1. \A x \in Nat : x \in Int
        OBVIOUS
      <4> QED BY <1>1, <3>3, <4>1, DivMod, Zenon
    <3>5. PlannedRow(plan, k) = Draws[issued + k] % n
      <4> HIDE DEF plan
      <4> QED BY <1>2, <1>3, <2>1, Zenon DEF PlannedRow, Sampled
    <3>6. HistoryRow(k) = Draws[issued + k] % n
      BY <1>3, Zenon DEF HistoryRow
    <3> QED BY <3>4, <3>5, <3>6, Zenon
  <2> QED BY <1>1, <1>3, <2>1, <2>3, Zenon
<1>4. CASE ~shuffle
  <2>1. start = issued % n
    BY <1>4, Zenon DEF WindowStart, CursorInv, CursorContinues
  <2> HIDE DEF n, plan, start
  <2>2. start \in 0..(n - 1) /\ start \in Nat
    BY <1>1, <2>1, DivMod
  <2>3. ASSUME NEW k \in Nat
        PROVE  /\ AdvanceCyclicOffset(start, k, n) = (issued + k) % n
               /\ (issued + k) % n \in 0..(n - 1)
    <3>1. AdvanceCyclicOffset(start, k, n) = (start + k) % n
      BY <1>1, <2>2, AdvanceIsCyclicAddition, Zenon
    <3>2. ((issued % n) + k) % n = (issued + k) % n
      BY <1>1, ModAbsorbs, Zenon
    <3>3. issued + k \in Int
      BY <1>1
    <3> QED BY <1>1, <2>1, <3>1, <3>2, <3>3, DivMod, Zenon
  <2>4. WindowEnd = AdvanceCyclicOffset(start, epochLen, n)
    BY <1>4, Zenon DEF WindowEnd, start, n
  <2>5. WindowEnd /= Overflow
    <3>1. epochLen \in Nat
      BY <1>1
    <3>2. WindowEnd \in 0..(n - 1)
      BY <2>3, <2>4, <3>1, Zenon
    <3> QED BY <1>1, <3>2 DEF Overflow
  <2>6. ASSUME NEW k \in 0..(epochLen - 1)
        PROVE  HistoryRow(k) \in 0..(n - 1) /\ PlannedRow(plan, k) = HistoryRow(k)
    <3>1. k \in Nat
      BY <1>1
    <3>2. PlannedRow(plan, k) = AdvanceCyclicOffset(start, k, n)
      BY <1>2, <1>4, Zenon DEF PlannedRow
    <3>3. HistoryRow(k) = (issued + k) % n
      BY <1>4, Zenon DEF HistoryRow, n
    <3> QED BY <2>3, <3>1, <3>2, <3>3, Zenon
  <2> QED BY <1>4, <2>2, <2>5, <2>6, Zenon DEF n, plan, start
<1> QED BY <1>3, <1>4, Zenon

\* The next window: its samples are the ones the new plan leads to.
LEMMA WindowPromised ==
  ASSUME StorageInv, CursorInv, IterInv, paths /= <<>>, WindowEnd /= Overflow
  PROVE  /\ NextWindow \in Seq(Results) /\ Len(NextWindow) = epochLen
         /\ \A k \in 0..(epochLen - 1) :
              LET index == active[PlannedRow(NewPlan(WindowStart), k) + 1] IN
              index \in DOMAIN AllReturned /\ NextWindow[k + 1] = AllReturned[index]
<1> DEFINE n == Len(active)
<1>1. n \in Nat \ {0} /\ issued \in Nat /\ epochLen \in Nat \ {0} /\ epochLen \in Nat
  BY DEF CursorInv
<1>2. \A k \in 0..(epochLen - 1) : HistoryRow(k) \in 0..(n - 1)
                                   /\ PlannedRow(NewPlan(WindowStart), k) = HistoryRow(k)
  BY WindowContinues, Zenon DEF IterInv
<1>3. \A k \in 1..n : active[k] \in DOMAIN AllReturned
  BY Zenon DEF IterInv, Rows
<1>4. \A index \in DOMAIN AllReturned :
        /\ AllReturned[index] = Returned(Written(index), ValidateCache)
        /\ AllReturned[index] \in Results
  BY AllReturnedLoads, Zenon
<1>5. \A k \in 1..epochLen :
        NextWindow[k] = Returned(Written(active[HistoryRow(k - 1) + 1]), ValidateCache)
  <2>1. ASSUME NEW k \in 1..epochLen PROVE issued + k - 1 = issued + (k - 1)
    BY <1>1
  <2> QED BY <2>1, Zenon DEF NextWindow, HistoryRow
<1> HIDE DEF n
<1>6. \A x \in 0..(n - 1) : x + 1 \in 1..n
  BY <1>1
<1>7. /\ \A k \in 0..(epochLen - 1) : k + 1 \in 1..epochLen /\ (k + 1) - 1 = k
      /\ \A k \in 1..epochLen : k - 1 \in 0..(epochLen - 1)
  BY <1>1
<1>8. ASSUME NEW k \in 1..epochLen
      PROVE  /\ active[HistoryRow(k - 1) + 1] \in DOMAIN AllReturned
             /\ NextWindow[k] = AllReturned[active[HistoryRow(k - 1) + 1]]
             /\ NextWindow[k] \in Results
  <2>1. HistoryRow(k - 1) + 1 \in 1..n
    BY <1>2, <1>6, <1>7, Zenon
  <2>2. active[HistoryRow(k - 1) + 1] \in DOMAIN AllReturned
    BY <1>3, <2>1, Zenon
  <2> QED BY <1>4, <1>5, <2>2, Zenon
<1>9. NextWindow \in [1..epochLen -> Results]
  <2>1. NextWindow = [k \in 1..epochLen |-> NextWindow[k]]
    BY Zenon DEF NextWindow
  <2> QED BY <1>8, <2>1, Zenon
<1>10. NextWindow \in Seq(Results) /\ Len(NextWindow) = epochLen
  BY <1>1, <1>9
<1>11. ASSUME NEW k \in 0..(epochLen - 1)
       PROVE  LET index == active[PlannedRow(NewPlan(WindowStart), k) + 1] IN
              index \in DOMAIN AllReturned /\ NextWindow[k + 1] = AllReturned[index]
  <2>1. PlannedRow(NewPlan(WindowStart), k) = HistoryRow((k + 1) - 1) /\ k + 1 \in 1..epochLen
    BY <1>2, <1>7, Zenon
  <2> QED BY <1>8, <2>1, Zenon
<1> QED BY <1>10, <1>11, Zenon

\* start_iterator: the new window is what the iterator will deliver.
LEMMA IterBegin ==
  ASSUME StorageInv, CursorInv, IterInv, NEW i \in 1..NumIters, Begin(i)
  PROVE  IterInv'
<1> DEFINE old == iterators[i]
           plan == NewPlan(WindowStart)
<1>1. /\ paths /= <<>> /\ old.status = "created" /\ old \in Iterators
      /\ old.out = <<>> /\ old.promised = <<>> /\ shuffle \in BOOLEAN
  BY Zenon DEF Begin, IterInv, Iterating
<1>2. Rows(active, AllReturned) /\ active \in Seq(Nat)
  BY <1>1, Zenon DEF IterInv, Rows
<1>3. WindowStart \in Nat /\ (~shuffle => WindowEnd /= Overflow)
  BY <1>1, WindowContinues, Zenon
<1> HIDE DEF old, plan
<1>4. CASE WindowEnd = Overflow
  <2>1. PICK it : it = Refused(old)
    BY Zenon
  <2>2. iterators' = [iterators EXCEPT ![i] = it] /\ UNCHANGED <<disk, paths, shuffle, active>>
    BY <1>4, <2>1 DEF Begin, WindowEnd, WindowStart, Refused, old, storageVars, stateVars
  <2>3. it \in Iterators /\ it.status = "refused" /\ it.out = <<>> /\ it.promised = <<>>
    BY <1>1, <2>1, RefusedStation, Zenon
  <2>4. Iterating(it, AllReturned, shuffle)
    BY <1>3, <1>4, <2>3 DEF Iterating
  <2> QED BY <1>1, <1>2, <2>2, <2>3, <2>4, IterMoved, Zenon
<1>5. CASE WindowEnd /= Overflow
  <2>1. PICK it : it = Opened(old, plan, NextWindow, <<active, epochLen>>)
    BY Zenon
  <2>2. iterators' = [iterators EXCEPT ![i] = it] /\ UNCHANGED <<disk, paths, shuffle, active>>
    BY <1>5, <2>1, Zenon DEF Begin, WindowEnd, WindowStart, NewPlan, Opened, old, plan, storageVars
  <2>3. /\ NextWindow \in Seq(Results) /\ Len(NextWindow) = epochLen
        /\ \A k \in 0..(epochLen - 1) :
             /\ active[PlannedRow(plan, k) + 1] \in DOMAIN AllReturned
             /\ NextWindow[k + 1] = AllReturned[active[PlannedRow(plan, k) + 1]]
    BY <1>1, <1>5, WindowPromised, Zenon DEF plan
  <2>4. plan \in Plans /\ plan.physicalIndices = active /\ plan.len = epochLen
    BY <1>1, <1>2, <1>3 DEF NewPlan, Plans, CursorInv, plan
  <2>5. /\ it \in Iterators /\ it.status = "open" /\ it.plan = plan
        /\ it.promised = NextWindow /\ it.out = <<>>
    <3> DEFINE window == NextWindow
               now == <<active, epochLen>>
    <3>1. window \in Seq(Results) /\ it = Opened(old, plan, window, now)
      BY <2>1, <2>3, Zenon
    <3> HIDE DEF window, now
    <3>2. /\ it \in Iterators /\ it.status = "open" /\ it.plan = plan
          /\ it.promised = window /\ it.out = old.out
      <4>1. old \in Iterators /\ plan \in Plans
        BY <1>1, <2>4, Zenon
      <4> QED BY <3>1, <4>1, OpenedStation
    <3> QED BY <1>1, <3>2, Zenon DEF window
  <2>6. \A k \in 0..(it.plan.len - 1) : Leads(it, AllReturned, k)
    BY <2>3, <2>4, <2>5, Zenon DEF Leads
  <2>7. Delivers(it, AllReturned)
    <3>1. epochLen \in Nat /\ Len(<<>>) = 0 /\ \A k \in 1..0 : FALSE
      BY DEF CursorInv
    <3>2. \A m \in Nat : 0 <= m
      OBVIOUS
    <3> QED BY <2>3, <2>4, <2>5, <2>6, <3>1, <3>2, Zenon DEF Delivers
  <2>8. Iterating(it, AllReturned, shuffle)
    BY <2>5, <2>7 DEF Iterating
  <2> QED BY <1>1, <1>2, <2>2, <2>5, <2>8, IterMoved, Zenon
<1> QED BY <1>4, <1>5, Zenon

\* One more element.
LEMMA Appended ==
  ASSUME NEW S, NEW x \in Seq(S), NEW e \in S
  PROVE  /\ Len(x) \in Nat /\ Len(Append(x, e)) = Len(x) + 1
         /\ Append(x, e)[Len(x) + 1] = e
         /\ \A k \in 1..Len(x) : Append(x, e)[k] = x[k]
OBVIOUS

\* next(): what comes out is what was promised, and only a sample that cannot be
\* decoded fails the iterator.
LEMMA IterNext ==
  ASSUME StorageInv, IterInv, NEW i \in 1..NumIters, Next_(i)
  PROVE  IterInv'
<1> DEFINE old == iterators[i]
           sequence == Len(old.out)
           index == old.plan.physicalIndices[PlannedRow(old.plan, sequence) + 1]
           sample == LoadPlanned(index)
<1>1. /\ old.status = "open" /\ old \in Iterators /\ Delivers(old, AllReturned)
      /\ UNCHANGED <<disk, paths, shuffle, active>>
  BY Zenon DEF Next_, IterInv, Iterating, storageVars, stateVars
<1>2. paths /= <<>> /\ Rows(active', AllReturned)
  <2>1. "open" /= "none"
    OBVIOUS
  <2>2. paths /= <<>>
    BY <1>1, <2>1, Zenon DEF IterInv
  <2> QED BY <1>1, <2>2, Zenon DEF IterInv
<1>3. iterators' = IF sequence >= old.plan.len THEN [iterators EXCEPT ![i].status = "ended"]
                   ELSE IF sample = ReadError THEN [iterators EXCEPT ![i].status = "failed"]
                   ELSE [iterators EXCEPT ![i].out = Append(@, sample)]
  BY Zenon DEF Next_
<1>4. iterators' = IF sequence >= old.plan.len THEN [iterators EXCEPT ![i] = Ended(old)]
                   ELSE IF sample = ReadError THEN [iterators EXCEPT ![i] = Failed(old)]
                   ELSE [iterators EXCEPT ![i] = Yielded(old, sample)]
  BY <1>3, Zenon DEF Ended, Failed, Yielded
<1>5. old.plan.len \in Nat /\ old.out \in Seq(Results)
  BY <1>1 DEF Iterators, Plans
<1> HIDE DEF old
<1>6. sequence \in Nat /\ sequence <= old.plan.len
  <2>1. sequence <= old.plan.len
    BY <1>1, Zenon DEF Delivers
  <2> QED BY <1>5, <2>1, SeqElement, Zenon
<1> HIDE DEF sequence, index, sample
<1>7. CASE sequence >= old.plan.len
  <2>1. PICK it : it = Ended(old)
    BY Zenon
  <2>2. /\ it \in Iterators /\ it.status = "ended" /\ it.plan = old.plan
        /\ it.out = old.out /\ it.promised = old.promised
    BY <1>1, <2>1, EndedStation, Zenon
  <2>3. Len(it.out) = it.plan.len
    <3>1. sequence = old.plan.len
      BY <1>5, <1>6, <1>7
    <3> QED BY <2>2, <3>1, Zenon DEF sequence
  <2>4. Delivers(it, AllReturned)
    BY <1>1, <2>2, Zenon DEF Delivers, Leads
  <2>5. Iterating(it, AllReturned, shuffle)
    BY <2>2, <2>3, <2>4 DEF Iterating
  <2>6. iterators' = [iterators EXCEPT ![i] = it]
    BY <1>4, <1>7, <2>1, Zenon
  <2> QED BY <1>1, <1>2, <2>2, <2>5, <2>6, IterMoved, Zenon
<1>8. CASE ~(sequence >= old.plan.len)
  <2>1. sequence \in 0..(old.plan.len - 1) /\ sequence < old.plan.len
        /\ sequence + 1 <= old.plan.len
    BY <1>5, <1>6, <1>8
  <2>2. index \in DOMAIN AllReturned /\ old.promised[sequence + 1] = AllReturned[index]
    BY <1>1, <2>1, Zenon DEF Delivers, Leads, index
  <2> DEFINE written == old.promised[sequence + 1]
  <2>3. written \in Results /\ sample = written
    BY <2>2, AllReturnedLoads, Zenon DEF sample
  <2> HIDE DEF written
  <2>4. CASE sample = ReadError
    <3>1. PICK it : it = Failed(old)
      BY Zenon
    <3>2. /\ it \in Iterators /\ it.status = "failed" /\ it.plan = old.plan
          /\ it.out = old.out /\ it.promised = old.promised
      BY <1>1, <3>1, FailedStation, Zenon
    <3>3. written = ReadError
      BY <2>3, <2>4, Zenon
    <3>4. Len(it.out) < it.plan.len /\ it.promised[Len(it.out) + 1] = ReadError
      BY <2>1, <3>2, <3>3, Zenon DEF sequence, written
    <3>5. Delivers(it, AllReturned)
      BY <1>1, <3>2, Zenon DEF Delivers, Leads
    <3>6. Iterating(it, AllReturned, shuffle)
      BY <3>2, <3>4, <3>5 DEF Iterating
    <3>7. iterators' = [iterators EXCEPT ![i] = it]
      BY <1>4, <1>8, <2>4, <3>1, Zenon
    <3> QED BY <1>1, <1>2, <3>2, <3>6, <3>7, IterMoved, Zenon
  <2>5. CASE sample /= ReadError
    <3>1. PICK it : it = Yielded(old, sample)
      BY Zenon
    <3>2. sample = written /\ sample \in Results
      BY <2>3, <2>5, Zenon
    <3>3. /\ it \in Iterators /\ it.status = "open" /\ it.plan = old.plan
          /\ it.promised = old.promised /\ it.out = Append(old.out, sample)
      BY <1>1, <3>1, <3>2, YieldedStation, Zenon
    <3>4. /\ Len(it.out) = sequence + 1 /\ it.out[sequence + 1] = sample
          /\ \A k \in 1..sequence : it.out[k] = old.out[k]
      <4> DEFINE out == old.out
      <4>1. out \in Seq(Results) /\ sample \in Results
        BY <1>5, <3>2, Zenon
      <4> HIDE DEF out
      <4>2. /\ Len(Append(out, sample)) = Len(out) + 1
            /\ Append(out, sample)[Len(out) + 1] = sample
            /\ \A k \in 1..Len(out) : Append(out, sample)[k] = out[k]
        BY <4>1, Appended
      <4> QED BY <3>3, <4>2, Zenon DEF sequence, out
    <3>5. \A k \in 1..(sequence + 1) : k = sequence + 1 \/ k \in 1..sequence
      BY <1>6
    <3>6. \A k \in 1..sequence : old.out[k] = old.promised[k]
      BY <1>1, Zenon DEF Delivers, sequence
    <3>7. \A k \in 1..(sequence + 1) : it.out[k] = it.promised[k]
      BY <3>2, <3>3, <3>4, <3>5, <3>6, Zenon DEF written
    <3>8. Delivers(it, AllReturned)
      BY <1>1, <2>1, <3>3, <3>4, <3>7, Zenon DEF Delivers, Leads
    <3>9. Iterating(it, AllReturned, shuffle)
      BY <3>3, <3>8 DEF Iterating
    <3>10. iterators' = [iterators EXCEPT ![i] = it]
      BY <1>4, <1>8, <2>5, <3>1, Zenon
    <3> QED BY <1>1, <1>2, <3>3, <3>9, <3>10, IterMoved, Zenon
  <2> QED BY <2>4, <2>5, Zenon
<1> QED BY <1>7, <1>8, Zenon

\* Every step keeps the iterators on their promises.
LEMMA IterStep ==
  ASSUME StorageInv, StorageInv', CursorInv, IterInv, [Next]_vars
  PROVE  IterInv'
<1>1. ASSUME UNCHANGED <<disk, paths, shuffle, active, iterators>> PROVE IterInv'
  <2>1. paths /= <<>> => Rows(active', AllReturned)
    BY <1>1, Zenon DEF IterInv
  <2> QED BY <1>1, <2>1, IterKept, Zenon
<1>2. ASSUME NEW kind \in Kinds, Push(kind) PROVE IterInv'
  BY <1>1, <1>2, Zenon DEF Push, stateVars
<1>3. CASE Finish
  <2>1. paths = <<>> /\ UNCHANGED <<paths, shuffle, iterators>>
    BY <1>3, Zenon DEF Finish, stateVars
  <2>2. shuffle' \in BOOLEAN
    BY <2>1, Zenon DEF IterInv
  <2> QED BY <2>1, <2>2, IterIdle, Zenon
<1>4. ASSUME NEW n \in 1..NumCaches, NEW shuffled \in BOOLEAN,
             NEW ps \in [1..n -> 1..Len(disk)], Open(ps, shuffled)
      PROVE  IterInv'
  BY <1>4, IterOpen, Zenon
<1>5. ASSUME NEW table \in Tables, UpdateMetadata(table) PROVE IterInv'
  BY <1>5, IterUpdate, Zenon
<1>6. ASSUME NEW n \in EpochLens, SetEpochLen(n) PROVE IterInv'
  BY <1>1, <1>6, Zenon DEF SetEpochLen, storageVars
<1>7. ASSUME NEW i \in 1..NumIters, Iter(i) PROVE IterInv'
  BY <1>7, IterCreate, Zenon
<1>8. ASSUME NEW i \in 1..NumIters, Begin(i) PROVE IterInv'
  BY <1>8, IterBegin, Zenon
<1>9. ASSUME NEW i \in 1..NumIters, Next_(i) PROVE IterInv'
  BY <1>9, IterNext, Zenon
<1>10. CASE UNCHANGED vars
  BY <1>1, <1>10, Zenon DEF vars, storageVars, stateVars
<1>11. CASE Next
  BY <1>2, <1>3, <1>4, <1>5, <1>6, <1>7, <1>8, <1>9, <1>11, Zenon DEF Next
<1> QED BY <1>10, <1>11, Zenon

\* A sequence that agrees with the beginning of another one is that beginning.
LEMMA PrefixIs ==
  ASSUME NEW S, NEW x \in Seq(S), NEW y \in Seq(S), Len(x) <= Len(y),
         \A k \in 1..Len(x) : x[k] = y[k]
  PROVE  x = SubSeq(y, 1, Len(x)) /\ (Len(x) = Len(y) => x = y)
<1>1. /\ x = [k \in 1..Len(x) |-> x[k]] /\ Len(x) \in Nat
      /\ y = [k \in 1..Len(y) |-> y[k]] /\ Len(y) \in Nat
  OBVIOUS
<1>2. SubSeq(y, 1, Len(x)) \in Seq(S) /\ Len(SubSeq(y, 1, Len(x))) = Len(x)
      /\ \A k \in 1..Len(x) : SubSeq(y, 1, Len(x))[k] = y[k]
  BY <1>1
<1> DEFINE z == SubSeq(y, 1, Len(x))
<1> HIDE DEF z
<1>3. z = [k \in 1..Len(z) |-> z[k]] /\ Len(z) = Len(x)
  BY <1>2 DEF z
<1>4. x = z
  BY <1>1, <1>2, <1>3, Zenon DEF z
<1> QED BY <1>1, <1>4, Zenon DEF z

\* An iterator on its promises yields its window.
LEMMA IterTiles == CursorInv /\ IterInv => WindowsTile
<1> SUFFICES ASSUME CursorInv, IterInv PROVE WindowsTile
  OBVIOUS
<1>1. ASSUME NEW i \in 1..NumIters
      PROVE  LET it == iterators[i] IN
             /\ Len(it.out) <= Len(it.promised) /\ it.out = SubSeq(it.promised, 1, Len(it.out))
             /\ it.status = "ended" => it.out = it.promised
             /\ it.status = "failed" => it.promised[Len(it.out) + 1] = ReadError
             /\ it.status = "refused" => shuffle
  <2> DEFINE it == iterators[i]
  <2>1. it \in Iterators /\ Iterating(it, AllReturned, shuffle)
    BY Zenon DEF IterInv
  <2> HIDE DEF it
  <2>2. it.out \in Seq(Results) /\ it.promised \in Seq(Results) /\ it.status \in Statuses
    BY <2>1, Zenon DEF Iterators
  <2>3. /\ Len(it.out) <= Len(it.promised) /\ \A k \in 1..Len(it.out) : it.out[k] = it.promised[k]
        /\ it.status = "ended" => Len(it.out) = Len(it.promised)
    <3>1. CASE it.status \in {"none", "created", "refused"}
      <4>1. it.out = <<>> /\ it.promised = <<>> /\ it.status /= "ended"
        BY <2>1, <3>1 DEF Iterating
      <4>2. Len(<<>>) = 0 /\ 0 <= 0 /\ \A k \in 1..0 : FALSE
        OBVIOUS
      <4> QED BY <4>1, <4>2, Zenon
    <3>2. CASE it.status \in {"open", "ended", "failed"}
      BY <2>1, <3>2, Zenon DEF Iterating, Delivers
    <3> QED BY <2>2, <3>1, <3>2 DEF Statuses
  <2>4. it.out = SubSeq(it.promised, 1, Len(it.out))
        /\ (Len(it.out) = Len(it.promised) => it.out = it.promised)
    <3> DEFINE x == it.out
               y == it.promised
    <3>1. /\ x \in Seq(Results) /\ y \in Seq(Results) /\ Len(x) <= Len(y)
          /\ \A k \in 1..Len(x) : x[k] = y[k]
      BY <2>2, <2>3, Zenon
    <3> HIDE DEF x, y
    <3>2. x = SubSeq(y, 1, Len(x)) /\ (Len(x) = Len(y) => x = y)
      BY <3>1, PrefixIs
    <3> QED BY <3>2, Zenon DEF x, y
  <2> QED BY <2>1, <2>3, <2>4, Zenon DEF Iterating, it
<1>2. CursorContinues
  BY Zenon DEF CursorInv
<1> QED BY <1>1, <1>2, Zenon DEF WindowsTile

\* The windows of the iterators tile one sequence: however iterators, update_metadata
\* and set_epoch_len interleave, over any caches, tables, epoch lengths and draws, an
\* iterator yields the samples that follow the windows handed out before it, each one
\* the sample a caller wrote, and stops early only at one that reading refuses.
THEOREM IteratorsTile == Spec => []WindowsTile
<1> DEFINE AllInv == StorageInv /\ CursorInv /\ IterInv
<1>1. Init => AllInv
  BY StorageInit, CursorInit, IterInit, Zenon
<1>2. AllInv /\ [Next]_vars => AllInv'
  BY StorageStep, CursorStep, IterStep, Zenon
<1>3. AllInv => WindowsTile
  BY IterTiles, Zenon
<1> QED BY <1>1, <1>2, <1>3, PTL DEF Spec

=============================================================================
