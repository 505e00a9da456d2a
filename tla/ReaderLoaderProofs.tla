------------------------- MODULE ReaderLoaderProofs -------------------------
(***************************************************************************)
(* Proofs for every number of rows, ranks, workers, samples and passes:    *)
(* the plans that the ranks compute on their own fit each other, the       *)
(* batches add up to Torch's length, and one consumer's passes continue    *)
(* one sequence.                                                           *)
(***************************************************************************)
EXTENDS ReaderLoader, WellFoundedInduction, TLAPS

-----------------------------------------------------------------------------
(* Arithmetic *)

\* Quotient and remainder of the integers.
LEMMA DivMod ==
  ASSUME NEW x \in Int, NEW n \in Nat \ {0}
  PROVE  /\ x % n \in 0..(n - 1)
         /\ x \div n \in Int
         /\ x = n * (x \div n) + (x % n)
OBVIOUS

\* A remainder is determined by any decomposition.
LEMMA ModUnique ==
  ASSUME NEW x \in Int, NEW n \in Nat \ {0}, NEW r \in 0..(n - 1),
         \E q \in Int : x = n * q + r
  PROVE  x % n = r
OBVIOUS

\* advance_cyclic_offset and wrapping_add_mod compute (start + step) % population
\* although neither ever forms that sum, and their subtraction does not underflow.
LEMMA AdvanceIsCyclicAddition ==
  ASSUME NEW n \in Nat \ {0}, NEW start \in 0..(n - 1), NEW step \in Nat
  PROVE  AdvanceCyclicOffset(start, step, n) = (start + step) % n
<1> DEFINE s == step % n
           d == step \div n
<1>1. s \in 0..(n - 1) /\ d \in Int /\ step = n * d + s
  BY DivMod
<1>2. CASE start >= n - s
  <2>1. start - (n - s) \in 0..(n - 1)
    BY <1>1, <1>2
  <2>2. start + step = n * (d + 1) + (start - (n - s))
    BY <1>1
  <2>3. (start + step) % n = start - (n - s)
    <3> HIDE DEF s, d
    <3>1. d + 1 \in Int /\ start + step \in Int
      BY <1>1
    <3>2. \E q \in Int : start + step = n * q + (start - (n - s))
      BY <2>2, <3>1
    <3> QED BY <2>1, <3>1, <3>2, ModUnique
  <2> QED BY <1>2, <2>3 DEF AdvanceCyclicOffset
<1>3. CASE ~(start >= n - s)
  <2>1. start + s \in 0..(n - 1)
    BY <1>1, <1>3
  <2>2. start + step = n * d + (start + s)
    BY <1>1
  <2>3. (start + step) % n = start + s
    <3> HIDE DEF s, d
    <3>1. \E q \in Int : start + step = n * q + (start + s)
      BY <2>2, <1>1
    <3>2. start + step \in Int
      OBVIOUS
    <3> QED BY <2>1, <3>1, <3>2, ModUnique
  <2> QED BY <1>3, <2>3 DEF AdvanceCyclicOffset
<1> QED BY <1>2, <1>3

\* Adding to a remainder is adding to what it is the remainder of.
LEMMA ModAbsorbs ==
  ASSUME NEW n \in Nat \ {0}, NEW a \in Nat, NEW b \in Nat
  PROVE  ((a % n) + b) % n = (a + b) % n
<1> DEFINE r == a % n
           q == a \div n
           t == (r + b) % n
           p == (r + b) \div n
<1>1. r \in 0..(n - 1) /\ q \in Int /\ a = n * q + r
  BY DivMod
<1>2. t \in 0..(n - 1) /\ p \in Int /\ r + b = n * p + t
  BY <1>1, DivMod
<1>3. a + b = n * (q + p) + t
  <2> HIDE DEF r, q, t, p
  <2> QED BY <1>1, <1>2
<1>4. (a + b) % n = t
  <2> HIDE DEF r, q, t, p
  <2>1. q + p \in Int /\ a + b \in Int
    BY <1>1, <1>2
  <2>2. \E z \in Int : a + b = n * z + t
    BY <1>3, <2>1
  <2> QED BY <1>2, <2>1, <2>2, ModUnique
<1> QED BY <1>4

\* A set of numbers has a least element.
LEMMA LeastNumber ==
  ASSUME NEW T \in SUBSET Nat, T /= {}
  PROVE  \E x \in T : \A y \in T : x <= y
<1>1. PICK x \in T : \A y \in T : ~(<<y, x>> \in OpToRel(<, Nat))
  BY WFMin, NatLessThanWellFounded, Zenon
<1>2. \A y \in T : ~(y < x)
  BY <1>1, Zenon DEF OpToRel
<1> QED BY <1>2

\* Induction on the numbers, over a set.
LEMMA Induction ==
  ASSUME NEW T, 0 \in T, \A n \in Nat : n \in T => n + 1 \in T
  PROVE  Nat \subseteq T
<1> SUFFICES ASSUME Nat \ T /= {} PROVE FALSE
  BY Zenon
<1>1. PICK x \in Nat \ T : \A y \in Nat \ T : x <= y
  BY LeastNumber, Zenon
<1>2. x /= 0 /\ x - 1 \in Nat
  BY <1>1
<1>3. x - 1 \in T
  BY <1>1, <1>2
<1> QED BY <1>2, <1>3

-----------------------------------------------------------------------------
(* Running sums *)

\* The larger of two numbers.
LEMMA MaxOfTwo ==
  ASSUME NEW a \in Int, NEW b \in Int
  PROVE  Max({a, b}) = IF a >= b THEN a ELSE b
BY DEF Max

\* The smaller of two numbers.
LEMMA MinOfTwo ==
  ASSUME NEW a \in Int, NEW b \in Int
  PROVE  Min({a, b}) = IF a <= b THEN a ELSE b
BY DEF Min

\* The smallest of three numbers.
LEMMA MinOfThree ==
  ASSUME NEW a \in Int, NEW b \in Int, NEW d \in Int
  PROVE  /\ Min({a, b, d}) \in {a, b, d}
         /\ Min({a, b, d}) <= a /\ Min({a, b, d}) <= b /\ Min({a, b, d}) <= d
<1> DEFINE Least(x) == x \in {a, b, d} /\ x <= a /\ x <= b /\ x <= d
<1>1. \E x \in {a, b, d} : \A y \in {a, b, d} : x <= y
  OBVIOUS
<1>2. PICK x \in {a, b, d} : (\A y \in {a, b, d} : x <= y) /\ x = Min({a, b, d})
  BY <1>1, Zenon DEF Min
<1> QED BY <1>2

\* t[k] is the sum of the first k elements of f, for k up to m.
Sums(t, m, f) ==
  /\ t \in [0..m -> Nat] /\ t[0] = 0
  /\ \A k \in 1..m : t[k] = t[k - 1] + f[k - 1]

\* Total computes the running sum that any such t describes.
LEMMA TotalIs ==
  ASSUME NEW f, NEW m \in Nat, NEW t, Sums(t, m, f), NEW n \in 0..m
  PROVE  Total(f, n) = t[n]
<1> DEFINE Fix(g) == g = [k \in 0..n |-> IF k = 0 THEN 0 ELSE g[k - 1] + f[k - 1]]
           h == [k \in 0..n |-> t[k]]
           total == CHOOSE g : Fix(g)
<1>1. t[0] = 0 /\ \A k \in 1..n : t[k] = t[k - 1] + f[k - 1]
  BY DEF Sums
<1>2. Fix(h)
  <2>1. \A k \in 0..n : h[k] = IF k = 0 THEN 0 ELSE h[k - 1] + f[k - 1]
    BY <1>1
  <2> QED BY <2>1
<1>3. Fix(total)
  <2> HIDE DEF Fix, h
  <2> QED BY <1>2, Zenon
<1>4. Total(f, n) = total[n]
  BY Zenon DEF Total
<1> HIDE DEF total
<1>5. total[0] = 0 /\ \A k \in 1..n : total[k] = total[k - 1] + f[k - 1]
  BY <1>3
<1> DEFINE T == {k \in Nat : k \in 0..n => total[k] = t[k]}
<1>6. 0 \in T
  BY <1>1, <1>5
<1>7. ASSUME NEW k \in Nat, k \in T PROVE k + 1 \in T
  <2> SUFFICES ASSUME k + 1 \in 0..n PROVE total[k + 1] = t[k + 1]
    OBVIOUS
  <2>1. k + 1 \in 1..n /\ (k + 1) - 1 = k /\ k \in 0..n
    OBVIOUS
  <2> QED BY <1>1, <1>5, <1>7, <2>1
<1>8. n \in T
  <2>1. Nat \subseteq T
    <3> HIDE DEF T
    <3> QED BY <1>6, <1>7, Induction, Zenon
  <2> QED BY <2>1
<1> QED BY <1>4, <1>8

\* The same for the whole of f.
LEMMA TotalOf ==
  ASSUME NEW f, NEW m \in Nat, NEW x, \E t : Sums(t, m, f) /\ t[m] = x
  PROVE  Total(f, m) = x
<1>1. PICK t : Sums(t, m, f) /\ t[m] = x
  OBVIOUS
<1>2. m \in 0..m
  OBVIOUS
<1> QED BY <1>1, <1>2, TotalIs, Zenon

\* Sums of natural numbers do not decrease.
LEMMA SumsIncrease ==
  ASSUME NEW m \in Nat, NEW t \in [0..m -> Nat], \A k \in 1..m : t[k - 1] <= t[k]
  PROVE  \A j, k \in 0..m : j <= k => t[j] <= t[k]
<1> DEFINE T == {k \in Nat : k \in 0..m => \A j \in 0..k : t[j] <= t[k]}
<1>1. 0 \in T
  <2>1. \A j \in 0..0 : j = 0
    OBVIOUS
  <2> QED BY <2>1
<1>2. ASSUME NEW k \in Nat, k \in T PROVE k + 1 \in T
  <2> SUFFICES ASSUME k + 1 \in 0..m, NEW j \in 0..(k + 1) PROVE t[j] <= t[k + 1]
    OBVIOUS
  <2>1. k \in 0..m /\ k + 1 \in 1..m /\ (k + 1) - 1 = k /\ j \in 0..m
    OBVIOUS
  <2>2. t[k] <= t[k + 1] /\ t[k] \in Nat /\ t[k + 1] \in Nat /\ t[j] \in Nat
    BY <2>1
  <2>3. CASE j = k + 1
    BY <2>2, <2>3
  <2>4. CASE j \in 0..k
    BY <1>2, <2>1, <2>2, <2>4
  <2> QED BY <2>3, <2>4
<1>3. Nat \subseteq T
  <2> HIDE DEF T
  <2> QED BY <1>1, <1>2, Induction, Zenon
<1> QED BY <1>3

\* A number below the last sum lies between two neighbouring ones.
LEMMA SumsLocate ==
  ASSUME NEW m \in Nat, NEW t \in [0..m -> Nat], t[0] = 0, NEW x \in 0..(t[m] - 1)
  PROVE  \E k \in 1..m : t[k - 1] <= x /\ x < t[k]
<1> DEFINE Above == {k \in 0..m : x < t[k]}
<1>1. m \in Above /\ Above \subseteq Nat
  OBVIOUS
<1>2. PICK k \in Above : \A j \in Above : k <= j
  BY <1>1, LeastNumber, Zenon
<1>3. k /= 0
  OBVIOUS
<1>4. k \in 1..m /\ k - 1 \in 0..m /\ k - 1 \notin Above
  BY <1>2, <1>3
<1>5. t[k - 1] <= x /\ x < t[k]
  BY <1>2, <1>4
<1> QED BY <1>4, <1>5

-----------------------------------------------------------------------------
(* partition_rows and worker_budgets *)

\* partition_rows cuts `count` rows into spans that follow each other from 0 to
\* count, none of them empty unless there are fewer rows than parts.
LEMMA PartitionTiles ==
  ASSUME NEW count \in Nat, NEW parts \in Nat \ {0}
  PROVE  /\ PartitionRows(count, parts, 0).offset = 0
         /\ PartitionRows(count, parts, parts).offset = count
         /\ \A k \in 0..parts : PartitionRows(count, parts, k).offset \in Nat
         /\ \A k \in 0..(parts - 1) :
              /\ PartitionRows(count, parts, k).length \in Nat
              /\ PartitionRows(count, parts, k + 1).offset =
                   PartitionRows(count, parts, k).offset + PartitionRows(count, parts, k).length
              /\ count >= parts => PartitionRows(count, parts, k).length > 0
<1> DEFINE size == count \div parts
           extra == count % parts
<1>1. extra \in 0..(parts - 1) /\ size \in Nat /\ count = parts * size + extra
  OBVIOUS
<1>2. count >= parts => size > 0
  BY <1>1
<1>3. \A k \in Nat :
        /\ PartitionRows(count, parts, k).offset = k * size + (IF k <= extra THEN k ELSE extra)
        /\ PartitionRows(count, parts, k).length = IF k < extra THEN size + 1 ELSE size
  <2> TAKE k \in Nat
  <2>1. Min({k, extra}) = IF k <= extra THEN k ELSE extra
    BY <1>1, MinOfTwo
  <2> QED BY <2>1 DEF PartitionRows
<1> HIDE DEF size, extra
<1>4. \A k \in Nat : k * size \in Nat /\ (k + 1) * size = k * size + size
  BY <1>1
<1>5. 0 * size = 0
  BY <1>1
<1>6. PartitionRows(count, parts, 0).offset = 0
  BY <1>1, <1>3, <1>5
<1>7. PartitionRows(count, parts, parts).offset = count
  <2>1. parts \in Nat /\ ~(parts <= extra)
    BY <1>1
  <2>2. PartitionRows(count, parts, parts).offset = parts * size + extra
    BY <1>3, <2>1, Zenon
  <2> QED BY <1>1, <2>2, Zenon
<1>8. \A k \in 0..parts : PartitionRows(count, parts, k).offset \in Nat
  BY <1>1, <1>3, <1>4
<1>9. ASSUME NEW k \in 0..(parts - 1)
      PROVE  /\ PartitionRows(count, parts, k).length \in Nat
             /\ PartitionRows(count, parts, k + 1).offset =
                  PartitionRows(count, parts, k).offset + PartitionRows(count, parts, k).length
             /\ count >= parts => PartitionRows(count, parts, k).length > 0
  <2>1. k \in Nat /\ k + 1 \in Nat
    OBVIOUS
  <2>2. /\ PartitionRows(count, parts, k).offset = k * size + (IF k <= extra THEN k ELSE extra)
        /\ PartitionRows(count, parts, k + 1).offset =
             (k + 1) * size + (IF k + 1 <= extra THEN k + 1 ELSE extra)
        /\ PartitionRows(count, parts, k).length = IF k < extra THEN size + 1 ELSE size
    BY <1>3, <2>1, Zenon
  <2>3. k * size \in Nat /\ (k + 1) * size = k * size + size
    BY <1>4, <2>1, Zenon
  <2>4. \A a, b \in Nat : b = a + size =>
          b + (IF k + 1 <= extra THEN k + 1 ELSE extra) =
            (a + (IF k <= extra THEN k ELSE extra)) + (IF k < extra THEN size + 1 ELSE size)
    BY <1>1, <2>1
  <2>5. (k + 1) * size \in Nat
    BY <1>1, <2>3
  <2>6. /\ (IF k < extra THEN size + 1 ELSE size) \in Nat
        /\ size > 0 => (IF k < extra THEN size + 1 ELSE size) > 0
    BY <1>1
  <2>7. (k + 1) * size + (IF k + 1 <= extra THEN k + 1 ELSE extra) =
          (k * size + (IF k <= extra THEN k ELSE extra)) + (IF k < extra THEN size + 1 ELSE size)
    BY <2>3, <2>4, <2>5, Zenon
  <2>8. PartitionRows(count, parts, k + 1).offset =
          PartitionRows(count, parts, k).offset + PartitionRows(count, parts, k).length
    BY <2>2, <2>7, Zenon
  <2>9. /\ PartitionRows(count, parts, k).length \in Nat
        /\ count >= parts => PartitionRows(count, parts, k).length > 0
    BY <1>2, <2>2, <2>6, Zenon
  <2> QED BY <2>8, <2>9, Zenon
<1> QED BY <1>6, <1>7, <1>8, <1>9

\* Two neighbouring spans.
LEMMA PartitionStep ==
  ASSUME NEW count \in Nat, NEW parts \in Nat \ {0}, NEW k \in 0..(parts - 1)
  PROVE  /\ PartitionRows(count, parts, k).length \in Nat
         /\ PartitionRows(count, parts, k + 1).offset =
              PartitionRows(count, parts, k).offset + PartitionRows(count, parts, k).length
BY PartitionTiles, Zenon

\* How many of the budgets b of the W workers are not zero.
Busy(b, W) == Total([w \in DOMAIN b |-> IF b[w] > 0 THEN 1 ELSE 0], W)

\* What worker_budgets returns: budgets that add up to the samples of the rank,
\* positive for the first `busy` workers, of which there are at most P.
Budgeted(b, S, W, P, busy) ==
  /\ b \in [0..(W - 1) -> Nat]
  /\ busy \in 0..W /\ busy <= P
  /\ S > 0 <=> busy > 0
  /\ \A w \in 0..(W - 1) : b[w] > 0 <=> w < busy
  /\ \E t : Sums(t, W, b) /\ t[W] = S

\* Batches that n samples make, with and without an incomplete last one.
BatchesOf(n, B, dropLast) == IF dropLast THEN n \div B ELSE (n + B - 1) \div B

\* Whole batches and a tail shorter than one.
LEMMA BatchesOfTail ==
  ASSUME NEW B \in Nat \ {0}, NEW x \in Nat, NEW y \in 0..(B - 1), NEW dropLast
  PROVE  BatchesOf(x * B + y, B, dropLast) = x + (IF dropLast \/ y = 0 THEN 0 ELSE 1)
<1>1. \A z \in Nat, e \in 0..(B - 1) : (z * B + e) \div B = z
  OBVIOUS
<1>2. CASE dropLast
  BY <1>1, <1>2 DEF BatchesOf
<1>3. CASE ~dropLast /\ y = 0
  <2>1. x * B + y + B - 1 = x * B + (B - 1) /\ B - 1 \in 0..(B - 1)
    BY <1>3
  <2>2. (x * B + y + B - 1) \div B = x
    BY <1>1, <2>1
  <2> QED BY <1>3, <2>2 DEF BatchesOf
<1>4. CASE ~dropLast /\ y /= 0
  <2>1. x * B + y + B - 1 = (x + 1) * B + (y - 1) /\ y - 1 \in 0..(B - 1) /\ x + 1 \in Nat
    BY <1>4
  <2>2. (x * B + y + B - 1) \div B = x + 1
    BY <1>1, <2>1
  <2> QED BY <1>4, <2>2 DEF BatchesOf
<1> QED BY <1>2, <1>3, <1>4

\* Whole batches only.
LEMMA WholeBatches ==
  ASSUME NEW B \in Nat \ {0}, NEW x \in Nat, NEW dropLast
  PROVE  BatchesOf(x * B + 0, B, dropLast) = x
<1>1. \A z \in Nat, e \in 0..(B - 1) : (z * B + e) \div B = z
  OBVIOUS
<1>2. CASE dropLast
  BY <1>1, <1>2 DEF BatchesOf
<1>3. CASE ~dropLast
  <2>1. x * B + 0 + B - 1 = x * B + (B - 1) /\ B - 1 \in 0..(B - 1)
    OBVIOUS
  <2>2. (x * B + 0 + B - 1) \div B = x
    BY <1>1, <2>1
  <2> QED BY <1>3, <2>2 DEF BatchesOf
<1> QED BY <1>2, <1>3

\* b divides whole batches as partition_rows does, and gives the tail to the last
\* busy worker.
ByBatch(b, S, W, P, B, busy, tail, batches) ==
  /\ busy \in 1..W /\ busy <= P
  /\ tail \in 0..(B - 1) /\ S = batches * B + tail
  /\ batches >= busy \/ (batches = 0 /\ busy = 1)
  /\ b = [w \in 0..(W - 1) |->
            IF S = 0 \/ w >= busy THEN 0
            ELSE PartitionRows(batches, busy, w).length * B
                 + (IF w = busy - 1 THEN tail ELSE 0)]

\* worker_budgets does so when there are samples.
LEMMA BudgetsByBatch ==
  ASSUME NEW S \in Nat \ {0}, NEW W \in Nat \ {0}, NEW P \in Nat \ {0}, NEW B \in Nat \ {0}
  PROVE  \E busy, tail, batches \in Nat :
           ByBatch(WorkerBudgets(S, W, P, B), S, W, P, B, busy, tail, batches)
<1> DEFINE batches == S \div B
           tail == S % B
           most == Max({1, batches})
           busy == Min({W, P, most})
<1>1. batches \in Nat /\ tail \in 0..(B - 1) /\ S = B * batches + tail
  OBVIOUS
<1>2. most = IF 1 >= batches THEN 1 ELSE batches
  BY <1>1, MaxOfTwo
<1>3. most \in Nat \ {0} /\ (most <= batches \/ (batches = 0 /\ most = 1))
  <2> HIDE DEF most, batches
  <2> QED BY <1>1, <1>2
<1>4. busy \in {W, P, most} /\ busy <= W /\ busy <= P /\ busy <= most
  <2> HIDE DEF most
  <2>1. W \in Int /\ P \in Int /\ most \in Int
    BY <1>3
  <2> QED BY <2>1, MinOfThree, Zenon
<1>5. WorkerBudgets(S, W, P, B) =
        [w \in 0..(W - 1) |->
           IF S = 0 \/ w >= busy THEN 0
           ELSE PartitionRows(batches, busy, w).length * B
                + (IF w = busy - 1 THEN tail ELSE 0)]
  BY Zenon DEF WorkerBudgets
<1> HIDE DEF batches, tail, most, busy
<1>6. busy \in 1..W /\ (batches >= busy \/ (batches = 0 /\ busy = 1))
  BY <1>1, <1>3, <1>4
<1>7. S = batches * B + tail
  BY <1>1
<1>8. ByBatch(WorkerBudgets(S, W, P, B), S, W, P, B, busy, tail, batches)
  BY <1>1, <1>4, <1>5, <1>6, <1>7, Zenon DEF ByBatch
<1>9. busy \in Nat /\ tail \in Nat
  BY <1>1, <1>6
<1> QED BY <1>1, <1>8, <1>9, Zenon

\* One budget after the other: its value, and who has one.
BudgetForm(b, W, B, busy, tail, batches) ==
  /\ b \in [0..(W - 1) -> Nat]
  /\ \A w \in 0..(W - 1) :
       /\ b[w] = IF w >= busy THEN 0
                 ELSE PartitionRows(batches, busy, w).length * B
                      + (IF w = busy - 1 THEN tail ELSE 0)
       /\ b[w] > 0 <=> w < busy

\* Budgets by batch have that form.
LEMMA BudgetValues ==
  ASSUME NEW S \in Nat \ {0}, NEW W \in Nat \ {0}, NEW P \in Nat, NEW B \in Nat \ {0}, NEW b,
         NEW busy \in Nat, NEW tail \in Nat, NEW batches \in Nat,
         ByBatch(b, S, W, P, B, busy, tail, batches)
  PROVE  BudgetForm(b, W, B, busy, tail, batches)
<1>1. /\ busy \in 1..W /\ tail \in 0..(B - 1) /\ S = batches * B + tail
      /\ batches >= busy \/ (batches = 0 /\ busy = 1)
  BY Zenon DEF ByBatch
<1>2. b = [w \in 0..(W - 1) |->
            IF S = 0 \/ w >= busy THEN 0
            ELSE PartitionRows(batches, busy, w).length * B
                 + (IF w = busy - 1 THEN tail ELSE 0)]
  BY Zenon DEF ByBatch
<1>3. \A w \in 0..(W - 1) :
        b[w] = IF w >= busy THEN 0
               ELSE PartitionRows(batches, busy, w).length * B
                    + (IF w = busy - 1 THEN tail ELSE 0)
  <2>1. S /= 0
    OBVIOUS
  <2> QED BY <1>2, <2>1, Zenon
<1>4. ASSUME NEW w \in 0..(W - 1) PROVE b[w] \in Nat /\ (b[w] > 0 <=> w < busy)
  <2>1. CASE w >= busy
    <3>1. b[w] = 0
      BY <1>3, <2>1, Zenon
    <3> QED BY <1>1, <2>1, <3>1
  <2>2. CASE w < busy
    <3> DEFINE len == PartitionRows(batches, busy, w).length
    <3>1. w \in 0..(busy - 1) /\ busy \in Nat \ {0} /\ ~(w >= busy)
      BY <1>1, <2>2
    <3>2. len \in Nat /\ (batches >= busy => len > 0)
      BY <3>1, PartitionTiles, Zenon
    <3>3. b[w] = len * B + (IF w = busy - 1 THEN tail ELSE 0)
      BY <1>3, <3>1, Zenon
    <3> HIDE DEF len
    <3>4. len * B \in Nat /\ (len > 0 => len * B > 0)
      BY <3>2
    <3>5. CASE batches >= busy
      BY <1>1, <2>2, <3>2, <3>3, <3>4, <3>5
    <3>6. CASE batches = 0 /\ busy = 1
      <4>1. tail > 0 /\ w = busy - 1
        BY <1>1, <3>1, <3>6
      <4> QED BY <2>2, <3>3, <3>4, <4>1
    <3> QED BY <1>1, <3>5, <3>6
  <2> QED BY <1>1, <2>1, <2>2
<1>5. b \in [0..(W - 1) -> Nat]
  BY <1>2, <1>4
<1> QED BY <1>3, <1>4, <1>5, Zenon DEF BudgetForm

\* The budgets add up to the samples, the batches they make to the batches the
\* samples make, and the workers that have one to `busy`.
AddUp(b, S, W, B, busy, d) ==
  /\ \E t : Sums(t, W, b) /\ t[W] = S
  /\ \E t : /\ Sums(t, W, [w \in 0..(W - 1) |-> BatchesOf(b[w], B, d)])
            /\ t[W] = BatchesOf(S, B, d)
  /\ \E t : /\ Sums(t, W, [w \in DOMAIN b |-> IF b[w] > 0 THEN 1 ELSE 0])
            /\ t[W] = busy

\* The budgets of some busy workers in front add up to whole batches, all of them
\* to the samples; the batches that they make add up likewise.
LEMMA BudgetSums ==
  ASSUME NEW S \in Nat \ {0}, NEW W \in Nat \ {0}, NEW P \in Nat, NEW B \in Nat \ {0}, NEW b,
         NEW busy \in Nat, NEW tail \in Nat, NEW batches \in Nat,
         ByBatch(b, S, W, P, B, busy, tail, batches), NEW d
  PROVE  AddUp(b, S, W, B, busy, d)
<1> DEFINE at(k) == PartitionRows(batches, busy, k).offset
           len(k) == PartitionRows(batches, busy, k).length
           more == IF d \/ tail = 0 THEN 0 ELSE 1
<1>1. busy \in 1..W /\ tail \in 0..(B - 1) /\ S = batches * B + tail
  BY Zenon DEF ByBatch
<1>2. /\ b \in [0..(W - 1) -> Nat]
      /\ \A w \in 0..(W - 1) :
           /\ b[w] = IF w >= busy THEN 0 ELSE len(w) * B + (IF w = busy - 1 THEN tail ELSE 0)
           /\ b[w] > 0 <=> w < busy
  <2>1. BudgetForm(b, W, B, busy, tail, batches)
    BY BudgetValues, Zenon
  <2> QED BY <2>1, Zenon DEF BudgetForm
<1>3. /\ at(0) = 0 /\ at(busy) = batches
      /\ \A k \in 0..busy : at(k) \in Nat
      /\ \A k \in 0..(busy - 1) : len(k) \in Nat /\ at(k + 1) = at(k) + len(k)
  <2>1. busy \in Nat \ {0}
    BY <1>1
  <2>2. at(0) = 0 /\ at(busy) = batches /\ \A k \in 0..busy : at(k) \in Nat
    BY <2>1, PartitionTiles, Zenon
  <2>3. ASSUME NEW k \in 0..(busy - 1) PROVE len(k) \in Nat /\ at(k + 1) = at(k) + len(k)
    BY <2>1, PartitionStep, Zenon
  <2> HIDE DEF at, len
  <2> QED BY <2>2, <2>3, Zenon
<1> HIDE DEF at, len
<1>4. BatchesOf(S, B, d) = batches + more
  BY <1>1, BatchesOfTail
<1>5. more \in 0..1
  OBVIOUS
<1> HIDE DEF more
<1>6. \A k \in 1..W : \/ k < busy /\ k - 1 < busy /\ k - 1 /= busy - 1 /\ k - 1 \in 0..(busy - 1)
                      \/ k = busy /\ k - 1 < busy /\ k - 1 = busy - 1 /\ k - 1 \in 0..(busy - 1)
                      \/ k > busy /\ ~(k < busy) /\ ~(k - 1 < busy) /\ k - 1 >= busy
  BY <1>1
<1>7. \A k \in 1..W : k - 1 \in 0..(W - 1) /\ (k - 1) + 1 = k /\ k \in 0..W /\ k - 1 \in 0..W
  OBVIOUS
<1>8. \E t : Sums(t, W, b) /\ t[W] = S
  <2> DEFINE t == [k \in 0..W |-> IF k < busy THEN at(k) * B ELSE S]
  <2>1. t \in [0..W -> Nat]
    <3>1. \A k \in 0..W : k < busy => at(k) * B \in Nat
      BY <1>1, <1>3
    <3> QED BY <3>1
  <2>2. t[0] = 0 /\ t[W] = S
    BY <1>1, <1>3
  <2>3. ASSUME NEW k \in 1..W PROVE t[k] = t[k - 1] + b[k - 1]
    <3> DEFINE j == k - 1
    <3>0. /\ j \in 0..(W - 1) /\ j + 1 = k /\ k \in 0..W /\ j \in 0..W
          /\ \/ k < busy /\ j < busy /\ j /= busy - 1 /\ j \in 0..(busy - 1)
             \/ k = busy /\ j < busy /\ j = busy - 1 /\ j \in 0..(busy - 1)
             \/ k > busy /\ ~(k < busy) /\ ~(j < busy) /\ j >= busy
      BY <1>6, <1>7, Zenon
    <3> SUFFICES t[k] = t[j] + b[j]
      OBVIOUS
    <3> HIDE DEF j
    <3>1. /\ t[k] = IF k < busy THEN at(k) * B ELSE S
          /\ t[j] = IF j < busy THEN at(j) * B ELSE S
      BY <3>0, Zenon
    <3>2. b[j] = IF j >= busy THEN 0 ELSE len(j) * B + (IF j = busy - 1 THEN tail ELSE 0)
      BY <1>2, <3>0, Zenon
    <3> HIDE DEF t
    <3>3. j \in 0..(busy - 1) =>
            at(j) \in Nat /\ len(j) \in Nat /\ at(j + 1) = at(j) + len(j)
      <4>1. j \in 0..(busy - 1) => j \in 0..busy
        BY <1>1
      <4> QED BY <1>3, <4>1, Zenon
    <3>4. \A x, y \in Nat : (x + y) * B = x * B + y * B
      OBVIOUS
    <3>5. CASE k < busy
      <4>1. /\ j < busy /\ j /= busy - 1 /\ ~(j >= busy) /\ at(k) = at(j) + len(j)
            /\ at(j) \in Nat /\ len(j) \in Nat
        BY <1>1, <3>0, <3>3, <3>5
      <4>2. t[k] = at(k) * B /\ t[j] = at(j) * B /\ b[j] = len(j) * B + 0
        BY <3>1, <3>2, <3>5, <4>1, Zenon
      <4>3. at(k) * B = at(j) * B + len(j) * B /\ len(j) * B + 0 = len(j) * B
        BY <3>4, <4>1
      <4> QED BY <4>2, <4>3, Zenon
    <3>6. CASE k = busy
      <4>1. at(k) = batches /\ at(k) = at(j) + len(j) /\ at(j) \in Nat /\ len(j) \in Nat
        BY <1>3, <3>0, <3>3, <3>6
      <4>2. batches * B = at(j) * B + len(j) * B
        BY <3>4, <4>1
      <4>3. ~(k < busy) /\ j < busy /\ j = busy - 1 /\ ~(j >= busy)
        BY <1>1, <3>0, <3>6
      <4>4. t[k] = S /\ t[j] = at(j) * B /\ b[j] = len(j) * B + tail
        BY <3>1, <3>2, <4>3, Zenon
      <4>5. at(j) * B \in Nat /\ len(j) * B \in Nat
        BY <4>1
      <4>6. \A x, y, z \in Nat : z = x + y /\ S = z + tail => S = x + (y + tail)
        OBVIOUS
      <4>7. S = at(j) * B + (len(j) * B + tail)
        <5>1. batches * B \in Nat
          OBVIOUS
        <5> QED BY <1>1, <4>2, <4>5, <4>6, <5>1, Zenon
      <4> QED BY <4>4, <4>7, Zenon
    <3>7. CASE k > busy
      BY <3>0, <3>1, <3>2, <3>7
    <3> QED BY <3>0, <3>5, <3>6, <3>7
  <2>4. Sums(t, W, b)
    <3> HIDE DEF t
    <3> QED BY <2>1, <2>2, <2>3, Zenon DEF Sums
  <2> QED BY <2>2, <2>4, Zenon
<1>9. \E t : /\ Sums(t, W, [w \in 0..(W - 1) |-> BatchesOf(b[w], B, d)])
             /\ t[W] = BatchesOf(S, B, d)
  <2> DEFINE t == [k \in 0..W |-> IF k < busy THEN at(k) ELSE batches + more]
             f == [w \in 0..(W - 1) |-> BatchesOf(b[w], B, d)]
  <2>1. t \in [0..W -> Nat]
    <3>1. \A k \in 0..W : k < busy => at(k) \in Nat
      BY <1>1, <1>3
    <3> QED BY <1>5, <3>1
  <2>2. t[0] = 0 /\ t[W] = batches + more
    BY <1>1, <1>3
  <2>3. ASSUME NEW k \in 1..W PROVE t[k] = t[k - 1] + f[k - 1]
    <3> DEFINE j == k - 1
    <3>0. /\ j \in 0..(W - 1) /\ j + 1 = k /\ k \in 0..W /\ j \in 0..W
          /\ \/ k < busy /\ j < busy /\ j /= busy - 1 /\ j \in 0..(busy - 1)
             \/ k = busy /\ j < busy /\ j = busy - 1 /\ j \in 0..(busy - 1)
             \/ k > busy /\ ~(k < busy) /\ ~(j < busy) /\ j >= busy
      BY <1>6, <1>7, Zenon
    <3> SUFFICES t[k] = t[j] + f[j]
      OBVIOUS
    <3> HIDE DEF j
    <3>1. /\ t[k] = IF k < busy THEN at(k) ELSE batches + more
          /\ t[j] = IF j < busy THEN at(j) ELSE batches + more
          /\ f[j] = BatchesOf(b[j], B, d)
      BY <3>0, Zenon
    <3>2. b[j] = IF j >= busy THEN 0 ELSE len(j) * B + (IF j = busy - 1 THEN tail ELSE 0)
      BY <1>2, <3>0, Zenon
    <3> HIDE DEF t, f
    <3>3. j \in 0..(busy - 1) =>
            at(j) \in Nat /\ len(j) \in Nat /\ at(j + 1) = at(j) + len(j)
      <4>1. j \in 0..(busy - 1) => j \in 0..busy
        BY <1>1
      <4> QED BY <1>3, <4>1, Zenon
    <3>4. CASE k < busy
      <4>1. ~(j >= busy) /\ j /= busy - 1 /\ j \in 0..(busy - 1)
        BY <1>1, <3>0, <3>4
      <4>2. b[j] = len(j) * B + 0 /\ 0 \in 0..(B - 1) /\ len(j) \in Nat
        BY <3>2, <3>3, <4>1
      <4>3. f[j] = len(j)
        <5>1. BatchesOf(len(j) * B + 0, B, d) = len(j)
          BY <4>2, WholeBatches, Zenon
        <5> QED BY <3>1, <4>2, <5>1, Zenon
      <4>4. t[k] = at(k) /\ t[j] = at(j) /\ at(k) = at(j) + len(j)
        <5>1. j < busy
          BY <1>1, <4>1
        <5> QED BY <3>0, <3>1, <3>3, <3>4, <4>1, <5>1, Zenon
      <4> QED BY <4>3, <4>4, Zenon
    <3>5. CASE k = busy
      <4>1. ~(j >= busy) /\ j = busy - 1 /\ j \in 0..(busy - 1)
        BY <1>1, <3>0, <3>5
      <4>2. b[j] = len(j) * B + tail /\ len(j) \in Nat
        BY <3>2, <3>3, <4>1
      <4>3. f[j] = len(j) + more
        BY <1>1, <3>1, <4>2, BatchesOfTail DEF more
      <4> QED BY <1>3, <1>5, <3>0, <3>1, <3>3, <3>5, <4>1, <4>2, <4>3
    <3>6. CASE k > busy
      <4>1. b[j] = 0 * B + 0 /\ 0 \in Nat
        BY <1>1, <3>0, <3>2, <3>6
      <4>2. f[j] = 0
        <5>1. BatchesOf(0 * B + 0, B, d) = 0
          BY <4>1, WholeBatches, Zenon
        <5> QED BY <3>1, <4>1, <5>1, Zenon
      <4>3. batches + more \in Nat
        BY <1>5
      <4> QED BY <1>1, <3>0, <3>1, <3>6, <4>2, <4>3
    <3> QED BY <3>0, <3>4, <3>5, <3>6
  <2>4. Sums(t, W, f)
    <3> HIDE DEF t, f
    <3> QED BY <2>1, <2>2, <2>3, Zenon DEF Sums
  <2> QED BY <1>4, <2>2, <2>4, Zenon
<1>10. \E t : /\ Sums(t, W, [w \in DOMAIN b |-> IF b[w] > 0 THEN 1 ELSE 0])
              /\ t[W] = busy
  <2> DEFINE t == [k \in 0..W |-> IF k < busy THEN k ELSE busy]
             f == [w \in DOMAIN b |-> IF b[w] > 0 THEN 1 ELSE 0]
  <2>1. t \in [0..W -> Nat] /\ t[0] = 0 /\ t[W] = busy
    BY <1>1
  <2>2. ASSUME NEW k \in 1..W PROVE t[k] = t[k - 1] + f[k - 1]
    <3>1. k - 1 \in 0..(W - 1) /\ DOMAIN b = 0..(W - 1)
      BY <1>2
    <3>2. f[k - 1] = IF k - 1 < busy THEN 1 ELSE 0
      BY <1>2, <3>1, Zenon
    <3> HIDE DEF f
    <3> QED BY <1>1, <3>2
  <2>3. Sums(t, W, f)
    <3> HIDE DEF t, f
    <3> QED BY <2>1, <2>2, Zenon DEF Sums
  <2> QED BY <2>1, <2>3, Zenon
<1> QED BY <1>8, <1>9, <1>10, Zenon DEF AddUp

\* The batches that the workers form of their budgets.
Formed(b, W, B, d) == Total([w \in 0..(W - 1) |-> BatchesOf(b[w], B, d)], W)

\* The budgets of a rank with S samples and P populations: what they add up to, as
\* samples and as batches, and who gets any.
Sound(b, S, W, P, B, d) ==
  /\ Budgeted(b, S, W, P, Busy(b, W))
  /\ Total(b, W) = S
  /\ Formed(b, W, B, d) = BatchesOf(S, B, d)

\* worker_budgets computes such budgets.
LEMMA BudgetsSound ==
  ASSUME NEW S \in Nat, NEW W \in Nat \ {0}, NEW P \in Nat, S > 0 => P > 0,
         NEW B \in Nat \ {0}, NEW b, b = WorkerBudgets(S, W, P, B), NEW d
  PROVE  Sound(b, S, W, P, B, d)
<1>0. W \in Nat /\ W \in 0..W
  OBVIOUS
<1>1. CASE S > 0
  <2>1. S \in Nat \ {0} /\ P \in Nat \ {0}
    BY <1>1
  <2>2. PICK busy, tail, batches \in Nat : ByBatch(b, S, W, P, B, busy, tail, batches)
    BY <2>1, BudgetsByBatch, Zenon
  <2>3. /\ b \in [0..(W - 1) -> Nat]
        /\ \A w \in 0..(W - 1) : b[w] > 0 <=> w < busy
    <3>1. BudgetForm(b, W, B, busy, tail, batches)
      BY <2>1, <2>2, BudgetValues, Zenon
    <3> QED BY <3>1, Zenon DEF BudgetForm
  <2>4. AddUp(b, S, W, B, busy, d)
    BY <2>1, <2>2, BudgetSums, Zenon
  <2>5. \E t : Sums(t, W, b) /\ t[W] = S
    BY <2>4, Zenon DEF AddUp
  <2>6. Busy(b, W) = busy
    <3>1. \E t : /\ Sums(t, W, [w \in DOMAIN b |-> IF b[w] > 0 THEN 1 ELSE 0])
                 /\ t[W] = busy
      BY <2>4, Zenon DEF AddUp
    <3> QED BY <1>0, <3>1, TotalOf, Zenon DEF Busy
  <2>7. Total(b, W) = S
    BY <1>0, <2>5, TotalOf, Zenon
  <2>8. Total([w \in 0..(W - 1) |-> BatchesOf(b[w], B, d)], W) = BatchesOf(S, B, d)
    <3>1. \E t : /\ Sums(t, W, [w \in 0..(W - 1) |-> BatchesOf(b[w], B, d)])
                 /\ t[W] = BatchesOf(S, B, d)
      BY <2>4, Zenon DEF AddUp
    <3> QED BY <1>0, <3>1, TotalOf, Zenon
  <2>9. busy \in 1..W /\ busy <= P
    BY <2>2, Zenon DEF ByBatch
  <2>10. busy \in 0..W /\ busy <= P /\ (S > 0 <=> busy > 0)
    BY <1>1, <2>9
  <2>11. Budgeted(b, S, W, P, busy)
    BY <2>3, <2>5, <2>10, Zenon DEF Budgeted
  <2> QED BY <2>6, <2>7, <2>8, <2>11, Zenon DEF Formed, Sound
<1>2. CASE S = 0
  <2> DEFINE zero == [k \in 0..W |-> 0]
  <2>1. b = [w \in 0..(W - 1) |-> 0]
    BY <1>2 DEF WorkerBudgets
  <2>2. /\ b \in [0..(W - 1) -> Nat] /\ DOMAIN b = 0..(W - 1)
        /\ \A w \in 0..(W - 1) : b[w] = 0 /\ ~(b[w] > 0)
    BY <2>1
  <2>3. ASSUME NEW f, \A w \in 0..(W - 1) : f[w] = 0
        PROVE  Sums(zero, W, f) /\ Total(f, W) = 0
    <3>1. \A k \in 1..W : k - 1 \in 0..(W - 1) /\ k \in 0..W /\ k - 1 \in 0..W
      OBVIOUS
    <3>2. zero \in [0..W -> Nat] /\ zero[0] = 0 /\ zero[W] = 0
      OBVIOUS
    <3>3. \A k \in 1..W : zero[k] = zero[k - 1] + f[k - 1]
      <4> TAKE k \in 1..W
      <4>1. zero[k] = 0 /\ zero[k - 1] = 0 /\ f[k - 1] = 0
        BY <2>3, <3>1, Zenon
      <4> HIDE DEF zero
      <4> QED BY <4>1
    <3> HIDE DEF zero
    <3>4. Sums(zero, W, f)
      BY <3>2, <3>3, Zenon DEF Sums
    <3>5. \E t : Sums(t, W, f) /\ t[W] = 0
      BY <3>2, <3>4, Zenon
    <3>6. Total(f, W) = 0
      BY <1>0, <3>5, TotalOf, Zenon
    <3> QED BY <3>4, <3>6, Zenon
  <2>4. zero[W] = 0
    OBVIOUS
  <2> HIDE DEF zero
  <2>5. Sums(zero, W, b) /\ Total(b, W) = 0
    BY <2>2, <2>3, Zenon
  <2>6. Busy(b, W) = 0
    <3> DEFINE f == [w \in DOMAIN b |-> IF b[w] > 0 THEN 1 ELSE 0]
    <3>1. \A w \in 0..(W - 1) : f[w] = 0
      BY <2>2, Zenon
    <3> HIDE DEF f
    <3>2. Total(f, W) = 0
      BY <2>3, <3>1, Zenon
    <3> QED BY <3>2, Zenon DEF Busy, f
  <2>7. Total([w \in 0..(W - 1) |-> BatchesOf(b[w], B, d)], W) = BatchesOf(S, B, d)
    <3> DEFINE f == [w \in 0..(W - 1) |-> BatchesOf(b[w], B, d)]
    <3>1. BatchesOf(0, B, d) = 0
      <4>1. 0 = 0 * B + 0 /\ 0 \in Nat
        OBVIOUS
      <4>2. BatchesOf(0 * B + 0, B, d) = 0
        BY <4>1, WholeBatches, Zenon
      <4> QED BY <4>1, <4>2, Zenon
    <3>2. \A w \in 0..(W - 1) : f[w] = 0
      BY <2>2, <3>1, Zenon
    <3> HIDE DEF f
    <3>3. Total(f, W) = 0
      BY <2>3, <3>2, Zenon
    <3> QED BY <1>2, <3>1, <3>3, Zenon DEF f
  <2>8. /\ 0 \in 0..W /\ 0 <= P /\ (S > 0 <=> 0 > 0)
        /\ \A w \in 0..(W - 1) : ~(w < 0)
    BY <1>2
  <2>9. Budgeted(b, S, W, P, 0)
    BY <1>2, <2>2, <2>4, <2>5, <2>8, Zenon DEF Budgeted
  <2> QED BY <1>2, <2>5, <2>6, <2>7, <2>9, Zenon DEF Formed, Sound
<1> QED BY <1>1, <1>2

-----------------------------------------------------------------------------
(* The plans of the consumers of one rank *)

\* The samples of a rank, and the rows that a split divides among the ranks.
LEMMA RequestNumbers ==
  ASSUME NEW q, IsRequest(q)
  PROVE  /\ RankBudget(q) \in Nat /\ SplitPopulation(q) \in Nat
         /\ RankBudget(q) > 0 =>
              /\ SplitPopulation(q) >= q.world
              /\ SplitPopulation(q) \in 1..(q.rows + q.world - 1)
              /\ SplitPopulation(q) < q.rows => q.dropLast /\ q.samples = q.rows
<1> DEFINE n == q.rows
           W == q.world
           B == q.batch
           s == q.samples
<1>0. n \in Nat \ {0} /\ W \in Nat \ {0} /\ B \in Nat \ {0} /\ s \in Nat \ {0}
  BY Zenon DEF IsRequest
<1>1. RankBudget(q) = IF q.dropLast THEN (s \div (W * B)) * B ELSE (s + W - 1) \div W
  BY Zenon DEF RankBudget
<1>2. SplitPopulation(q) =
        IF s = n THEN RankBudget(q) * W ELSE IF n < W THEN W ELSE n
  BY Zenon DEF SplitPopulation
<1> HIDE DEF n, W, B, s
<1>3. CASE q.dropLast
  <2> DEFINE d == s \div (W * B)
  <2>1. W * B \in Nat \ {0}
    BY <1>0
  <2>2. d \in Nat /\ s >= (W * B) * d
    <3> DEFINE M == W * B
    <3>0. M \in Nat \ {0} /\ s \in Int
      BY <1>0, <2>1
    <3> HIDE DEF M
    <3>1. s % M \in 0..(M - 1) /\ s \div M \in Int /\ s = M * (s \div M) + (s % M)
      BY <3>0, DivMod, Zenon
    <3>2. s \div M >= 0
      BY <1>0, <3>0
    <3>3. s \div M \in Nat /\ s >= M * (s \div M)
      BY <1>0, <3>0, <3>1, <3>2
    <3> QED BY <3>3, Zenon DEF M
  <2>3. RankBudget(q) = d * B
    BY <1>1, <1>3, Zenon
  <2> HIDE DEF d
  <2>4. RankBudget(q) \in Nat /\ (RankBudget(q) > 0 => d > 0)
    BY <1>0, <2>2, <2>3
  <2>5. RankBudget(q) * W = (W * B) * d
    BY <1>0, <2>2, <2>3
  <2>6. RankBudget(q) * W \in Nat /\ RankBudget(q) * W <= s
    BY <1>0, <2>2, <2>4, <2>5
  <2>7. RankBudget(q) > 0 => RankBudget(q) * W >= W
    BY <1>0, <2>4
  <2>8. CASE s = n
    BY <1>0, <1>2, <1>3, <2>4, <2>6, <2>7, <2>8 DEF n, s, W
  <2>9. CASE s /= n
    BY <1>0, <1>2, <2>4, <2>9 DEF n, W
  <2> QED BY <2>8, <2>9
<1>4. CASE ~q.dropLast
  <2> DEFINE d == (s + W - 1) \div W
  <2>1. /\ d \in Int /\ (s + W - 1) % W \in 0..(W - 1)
        /\ s + W - 1 = W * d + ((s + W - 1) % W)
    <3> DEFINE x == s + W - 1
    <3>1. x \in Int
      BY <1>0
    <3> HIDE DEF x
    <3>2. x \div W \in Int /\ x % W \in 0..(W - 1) /\ x = W * (x \div W) + (x % W)
      BY <1>0, <3>1, DivMod, Zenon
    <3> QED BY <3>2, Zenon DEF x
  <2>2. d >= 0
    BY <1>0
  <2>3. RankBudget(q) = d
    BY <1>1, <1>4, Zenon
  <2> HIDE DEF d
  <2>4. W * d \in s..(s + W - 1) /\ d * W = W * d
    BY <1>0, <2>1
  <2>5. d > 0 => d * W >= W
    BY <1>0, <2>1
  <2>6. CASE s = n
    BY <1>0, <1>2, <2>1, <2>2, <2>3, <2>4, <2>5, <2>6 DEF n, W
  <2>7. CASE s /= n
    BY <1>0, <1>2, <2>1, <2>2, <2>3, <2>7 DEF n, W
  <2> QED BY <2>6, <2>7
<1> QED BY <1>3, <1>4

\* The consumers of a rank and the rows of the rank.
LEMMA RankNumbers ==
  ASSUME NEW q, IsRequest(q), NEW r \in Ranks(q)
  PROVE  /\ RankWorkers(q, r) \in Nat \ {0}
         /\ RankSpan(q, r).offset \in Nat /\ RankSpan(q, r).length \in Nat
         /\ RankBudget(q) > 0 => RankSpan(q, r).length > 0
<1>0. q.rows \in Nat \ {0} /\ q.world \in Nat \ {0} /\ q.workers[r] \in Nat
  BY Zenon DEF IsRequest
<1>1. RankWorkers(q, r) \in Nat \ {0}
  BY <1>0, MaxOfTwo DEF RankWorkers
<1>2. CASE q.split
  <2> DEFINE n == SplitPopulation(q)
  <2>1. n \in Nat /\ (RankBudget(q) > 0 => n >= q.world)
    BY RequestNumbers, Zenon
  <2> HIDE DEF n
  <2>2. r \in 0..(q.world - 1) /\ r \in 0..q.world
    BY <1>0 DEF Ranks
  <2>3. /\ PartitionRows(n, q.world, r).offset \in Nat
        /\ PartitionRows(n, q.world, r).length \in Nat
        /\ n >= q.world => PartitionRows(n, q.world, r).length > 0
    BY <1>0, <2>1, <2>2, PartitionTiles, Zenon
  <2>4. RankSpan(q, r) = PartitionRows(n, q.world, r)
    BY <1>2, Zenon DEF RankSpan, n
  <2> QED BY <1>1, <2>1, <2>3, <2>4, Zenon
<1>3. CASE ~q.split
  <2>1. RankSpan(q, r) = [offset |-> 0, length |-> q.rows]
    BY <1>3, Zenon DEF RankSpan
  <2> QED BY <1>0, <1>1, <2>1
<1> QED BY <1>2, <1>3

\* How many populations the rows of a rank can make.
Populations(q, r) == IF q.split THEN RankSpan(q, r).length ELSE RankWorkers(q, r)

\* The budgets of a rank.
LEMMA RankBudgets ==
  ASSUME NEW q, IsRequest(q), NEW r \in Ranks(q), NEW d
  PROVE  Sound(Budgets(q, r), RankBudget(q), RankWorkers(q, r), Populations(q, r), q.batch, d)
<1> DEFINE S == RankBudget(q)
           W == RankWorkers(q, r)
           P == Populations(q, r)
           B == q.batch
           b == Budgets(q, r)
<1>1. S \in Nat /\ W \in Nat \ {0} /\ B \in Nat \ {0}
  BY RequestNumbers, RankNumbers, Zenon DEF IsRequest
<1>2. P \in Nat /\ (S > 0 => P > 0)
  <2>1. CASE q.split
    <3>1. P = RankSpan(q, r).length
      BY <2>1, Zenon DEF Populations
    <3> QED BY <3>1, RankNumbers, Zenon
  <2>2. CASE ~q.split
    <3>1. P = W
      BY <2>2, Zenon DEF Populations
    <3> HIDE DEF P, W, S
    <3> QED BY <1>1, <3>1
  <2> QED BY <2>1, <2>2
<1>3. b = WorkerBudgets(S, W, P, B)
  BY Zenon DEF Budgets, Populations
<1> HIDE DEF S, W, P, B, b
<1>4. Sound(b, S, W, P, B, d)
  BY <1>1, <1>2, <1>3, BudgetsSound, Zenon
<1> QED BY <1>4, Zenon DEF S, W, P, B, b

\* The sizes in the plans of one rank.
LEMMA SizeValues ==
  ASSUME NEW q, IsRequest(q), NEW r \in Ranks(q), NEW w \in Consumers(q, r)
  PROVE  /\ Budgets(q, r)[w] \in Nat
         /\ PopulationSize(q, r, w) \in Nat
         /\ Budgets(q, r)[w] > 0 <=> PopulationSize(q, r, w) > 0
         /\ q.split => PopulationSize(q, r, w) =
              IF Budgets(q, r)[w] = 0 THEN 0
              ELSE IF RankBudget(q) = RankSpan(q, r).length THEN Budgets(q, r)[w]
              ELSE PartitionRows(RankSpan(q, r).length,
                                 Busy(Budgets(q, r), RankWorkers(q, r)), w).length
<1> DEFINE b == Budgets(q, r)
           W == RankWorkers(q, r)
           len == RankSpan(q, r).length
           busy == Busy(b, W)
           size == PopulationSize(q, r, w)
<1>1. Sound(b, RankBudget(q), W, Populations(q, r), q.batch, FALSE)
  BY RankBudgets, Zenon
<1>2. size = IF b[w] = 0 THEN 0
             ELSE IF ~q.split THEN q.rows
             ELSE IF RankBudget(q) = len THEN b[w]
             ELSE PartitionRows(len, busy, w).length
  <2>1. Total(b, W) = RankBudget(q)
    BY <1>1, Zenon DEF Sound
  <2> QED BY <2>1, Zenon DEF PopulationSize, Busy
<1>3. W \in Nat \ {0} /\ len \in Nat /\ w \in 0..(W - 1) /\ q.rows \in Nat \ {0}
  BY RankNumbers, Zenon DEF IsRequest, Consumers
<1>4. Budgeted(b, RankBudget(q), W, Populations(q, r), busy)
  BY <1>1, Zenon DEF Sound
<1>5. /\ b[w] \in Nat /\ (b[w] > 0 <=> w < busy)
      /\ busy \in 0..W /\ (q.split => busy <= len)
  <2>1. q.split => Populations(q, r) = len
    BY Zenon DEF Populations
  <2>2. b \in [0..(W - 1) -> Nat]
    BY <1>4, Zenon DEF Budgeted
  <2>3. b[w] \in Nat
    BY <1>3, <2>2, Zenon
  <2> QED BY <1>3, <1>4, <2>1, <2>3, Zenon DEF Budgeted
<1> SUFFICES /\ size \in Nat
             /\ b[w] > 0 <=> size > 0
             /\ q.split => size = IF b[w] = 0 THEN 0
                                  ELSE IF RankBudget(q) = len THEN b[w]
                                  ELSE PartitionRows(len, busy, w).length
  BY <1>5, Zenon
<1> HIDE DEF b, W, len, busy, size
<1>6. CASE b[w] = 0
  BY <1>2, <1>5, <1>6
<1>7. CASE b[w] > 0 /\ ~q.split
  <2>1. size = q.rows
    BY <1>2, <1>5, <1>7
  <2> QED BY <1>3, <1>5, <1>7, <2>1
<1>8. CASE b[w] > 0 /\ q.split /\ RankBudget(q) = len
  <2>1. size = b[w]
    BY <1>2, <1>5, <1>8
  <2> QED BY <1>5, <1>8, <2>1
<1>9. CASE b[w] > 0 /\ q.split /\ RankBudget(q) /= len
  <2>1. b[w] /= 0
    BY <1>9
  <2>2. size = PartitionRows(len, busy, w).length
    BY <1>2, <1>9, <2>1, Zenon
  <2>3. busy \in Nat \ {0} /\ w \in 0..(busy - 1) /\ len >= busy
    BY <1>3, <1>5, <1>9
  <2>4. size \in Nat /\ size > 0
    BY <1>3, <2>2, <2>3, PartitionTiles, Zenon
  <2> QED BY <1>5, <1>9, <2>1, <2>2, <2>4
<1>10. b[w] = 0 \/ b[w] > 0
  BY <1>5
<1> QED BY <1>6, <1>7, <1>8, <1>9, <1>10, Zenon

\* The sizes in the plans of one rank add up to the rows of the rank, or there are
\* no samples to deliver and no rows.
LEMMA SizesSum ==
  ASSUME NEW q, IsRequest(q), NEW r \in Ranks(q), q.split
  PROVE  \E t : /\ Sums(t, RankWorkers(q, r), PopulationSizes(q, r))
                /\ t[RankWorkers(q, r)] =
                     IF RankBudget(q) > 0 THEN RankSpan(q, r).length ELSE 0
<1> DEFINE b == Budgets(q, r)
           W == RankWorkers(q, r)
           S == RankBudget(q)
           len == RankSpan(q, r).length
           busy == Busy(b, W)
           f == PopulationSizes(q, r)
<1>1. W \in Nat \ {0} /\ len \in Nat /\ S \in Nat
  BY RankNumbers, RequestNumbers, Zenon
<1>2. Budgeted(b, S, W, len, busy)
  <2>1. Sound(b, S, W, Populations(q, r), q.batch, FALSE)
    BY RankBudgets, Zenon
  <2>2. Populations(q, r) = len
    BY Zenon DEF Populations
  <2> QED BY <2>1, <2>2, Zenon DEF Sound
<1>3. \A w \in 0..(W - 1) :
        f[w] = IF b[w] = 0 THEN 0 ELSE IF S = len THEN b[w] ELSE PartitionRows(len, busy, w).length
  <2> TAKE w \in 0..(W - 1)
  <2>1. w \in Consumers(q, r)
    BY Zenon DEF Consumers
  <2>2. f[w] = PopulationSize(q, r, w)
    BY <2>1, Zenon DEF PopulationSizes
  <2>3. PopulationSize(q, r, w) =
          IF b[w] = 0 THEN 0 ELSE IF S = len THEN b[w] ELSE PartitionRows(len, busy, w).length
    BY <2>1, SizeValues, Zenon
  <2> QED BY <2>2, <2>3, Zenon
<1> SUFFICES \E t : Sums(t, W, f) /\ t[W] = IF S > 0 THEN len ELSE 0
  OBVIOUS
<1> HIDE DEF b, W, S, len, busy, f
<1>4. /\ b \in [0..(W - 1) -> Nat] /\ busy \in 0..W /\ busy <= len /\ (S > 0 <=> busy > 0)
      /\ \A w \in 0..(W - 1) : b[w] > 0 <=> w < busy
  BY <1>2, Zenon DEF Budgeted
<1>5. \A w \in 0..(W - 1) : b[w] \in Nat /\ (b[w] = 0 <=> ~(w < busy))
  <2> TAKE w \in 0..(W - 1)
  <2>1. b[w] \in Nat
    BY <1>4
  <2>2. b[w] > 0 <=> w < busy
    BY <1>4, Zenon
  <2> QED BY <2>1, <2>2
<1>6. \A k \in 1..W : k - 1 \in 0..(W - 1) /\ (k - 1) + 1 = k /\ k \in 0..W /\ k - 1 \in 0..W
  BY <1>1
<1>7. CASE S = 0
  <2> DEFINE t == [k \in 0..W |-> 0]
  <2>1. \A w \in 0..(W - 1) : f[w] = 0
    <3>1. ~(busy > 0)
      BY <1>4, <1>7
    <3>2. \A w \in 0..(W - 1) : ~(w < busy)
      BY <1>4, <3>1
    <3> QED BY <1>3, <1>5, <3>2, Zenon
  <2>2. t \in [0..W -> Nat] /\ t[0] = 0 /\ t[W] = 0
    BY <1>1
  <2>3. \A k \in 1..W : t[k] = t[k - 1] + f[k - 1]
    <3> TAKE k \in 1..W
    <3>1. t[k] = 0 /\ t[k - 1] = 0 /\ f[k - 1] = 0
      BY <1>6, <2>1, Zenon
    <3> HIDE DEF t
    <3> QED BY <3>1
  <2> HIDE DEF t
  <2>4. Sums(t, W, f)
    BY <2>2, <2>3, Zenon DEF Sums
  <2>5. t[W] = IF S > 0 THEN len ELSE 0
    BY <1>7, <2>2
  <2> QED BY <2>4, <2>5, Zenon
<1>8. CASE S > 0 /\ S = len
  <2>1. PICK t : Sums(t, W, b) /\ t[W] = S
    BY <1>2, Zenon DEF Budgeted
  <2>2. \A w \in 0..(W - 1) : f[w] = b[w]
    BY <1>3, <1>8, Zenon
  <2>3. \A k \in 1..W : f[k - 1] = b[k - 1]
    BY <1>6, <2>2, Zenon
  <2>4. Sums(t, W, f)
    BY <2>1, <2>3, Zenon DEF Sums
  <2>5. t[W] = IF S > 0 THEN len ELSE 0
    BY <1>8, <2>1, Zenon
  <2> QED BY <2>4, <2>5, Zenon
<1>9. CASE S > 0 /\ S /= len
  <2> DEFINE at(k) == PartitionRows(len, busy, k).offset
             part(k) == PartitionRows(len, busy, k).length
             t == [k \in 0..W |-> IF k < busy THEN at(k) ELSE len]
  <2>1. busy \in Nat \ {0} /\ busy \in 1..W
    BY <1>4, <1>9
  <2>2. /\ at(0) = 0 /\ at(busy) = len /\ \A k \in 0..busy : at(k) \in Nat
        /\ \A k \in 0..(busy - 1) : part(k) \in Nat /\ at(k + 1) = at(k) + part(k)
    <3>1. len \in Nat
      BY <1>1, Zenon
    <3>2. at(0) = 0 /\ at(busy) = len /\ \A k \in 0..busy : at(k) \in Nat
      BY <2>1, <3>1, PartitionTiles, Zenon
    <3>3. \A k \in 0..(busy - 1) : part(k) \in Nat /\ at(k + 1) = at(k) + part(k)
      <4> TAKE k \in 0..(busy - 1)
      <4>1. busy \in Nat \ {0}
        BY <2>1, Zenon
      <4> QED BY <3>1, <4>1, PartitionStep, Zenon
    <3> QED BY <3>2, <3>3, Zenon
  <2>3. \A w \in 0..(W - 1) : f[w] = IF w < busy THEN part(w) ELSE 0
    BY <1>3, <1>5, <1>9, Zenon
  <2> HIDE DEF at, part
  <2>4. t \in [0..W -> Nat] /\ t[0] = 0 /\ t[W] = len
    <3>1. \A k \in 0..W : k < busy => at(k) \in Nat
      BY <2>1, <2>2
    <3>2. 0 \in 0..W /\ W \in 0..W /\ 0 < busy /\ ~(W < busy)
      BY <1>1, <2>1
    <3> QED BY <1>1, <2>2, <3>1, <3>2
  <2>5. ASSUME NEW k \in 1..W PROVE t[k] = t[k - 1] + f[k - 1]
    <3> DEFINE j == k - 1
    <3> SUFFICES t[k] = t[j] + f[j]
      OBVIOUS
    <3>1. j \in 0..(W - 1) /\ j + 1 = k /\ k \in 0..W /\ j \in 0..W
      BY <1>6, Zenon
    <3> HIDE DEF j
    <3>2. /\ t[k] = IF k < busy THEN at(k) ELSE len
          /\ t[j] = IF j < busy THEN at(j) ELSE len
          /\ f[j] = IF j < busy THEN part(j) ELSE 0
      BY <2>3, <3>1, Zenon
    <3> HIDE DEF t
    <3>3. CASE k < busy
      <4>1. j < busy /\ j \in 0..(busy - 1)
        BY <2>1, <3>1, <3>3
      <4>2. at(k) = at(j) + part(j)
        BY <2>2, <3>1, <4>1, Zenon
      <4> QED BY <3>2, <3>3, <4>1, <4>2, Zenon
    <3>4. CASE k = busy
      <4>1. j < busy /\ j \in 0..(busy - 1) /\ ~(k < busy)
        BY <2>1, <3>1, <3>4
      <4>2. at(k) = at(j) + part(j) /\ at(k) = len
        BY <2>2, <3>1, <3>4, <4>1, Zenon
      <4> QED BY <3>2, <4>1, <4>2, Zenon
    <3>5. CASE k > busy
      <4>1. ~(k < busy) /\ ~(j < busy)
        BY <2>1, <3>1, <3>5
      <4>2. t[k] = len /\ t[j] = len /\ f[j] = 0
        BY <3>2, <4>1, Zenon
      <4> QED BY <1>1, <4>2
    <3> QED BY <2>1, <3>1, <3>3, <3>4, <3>5
  <2> HIDE DEF t
  <2>6. Sums(t, W, f)
    BY <2>4, <2>5, Zenon DEF Sums
  <2>7. t[W] = IF S > 0 THEN len ELSE 0
    BY <1>9, <2>4, Zenon
  <2> QED BY <2>6, <2>7, Zenon
<1> QED BY <1>1, <1>7, <1>8, <1>9

-----------------------------------------------------------------------------
(* The plans of all consumers *)

\* The positions that the plan of a consumer selects.
SpanOf(q, r, w) ==
  LET plan == WorkerPlan(q, r, w) IN plan.offset..(plan.offset + plan.populationSize - 1)

\* The rows of rank r are the ones from lo up to hi.
RankRows(q, r, lo, hi) == lo = RankSpan(q, r).offset /\ hi = lo + RankSpan(q, r).length

\* The spans of the consumers of a rank lie between lo and hi, are disjoint and, when
\* there are samples to deliver, leave nothing out.
Tiled(q, r, lo, hi) ==
  /\ \A w \in Consumers(q, r) : SpanOf(q, r, w) \subseteq lo..(hi - 1)
  /\ \A v, w \in Consumers(q, r) : v /= w => SpanOf(q, r, v) \cap SpanOf(q, r, w) = {}
  /\ RankBudget(q) > 0 =>
       \A x \in lo..(hi - 1) : \E w \in Consumers(q, r) : x \in SpanOf(q, r, w)

\* The consumers of one rank divide its rows so.
LEMMA RankTiles ==
  ASSUME NEW q, IsRequest(q), q.split, NEW r \in Ranks(q),
         NEW lo \in Nat, NEW hi \in Nat, RankRows(q, r, lo, hi)
  PROVE  Tiled(q, r, lo, hi)
<1> DEFINE W == RankWorkers(q, r)
           f == PopulationSizes(q, r)
           len == RankSpan(q, r).length
<1>1. W \in Nat \ {0} /\ len \in Nat /\ hi = lo + len /\ RankBudget(q) \in Nat
  BY RankNumbers, RequestNumbers, Zenon DEF RankRows
<1>2. PICK t : Sums(t, W, f) /\ t[W] = IF RankBudget(q) > 0 THEN len ELSE 0
  BY SizesSum, Zenon
<1>3. \A w \in Consumers(q, r) : w \in 0..(W - 1)
  BY Zenon DEF Consumers
<1>4. \A w \in 0..(W - 1) : w \in Consumers(q, r)
  BY Zenon DEF Consumers
<1>5. \A w \in 0..(W - 1) : w \in 0..W /\ w + 1 \in 1..W /\ w + 1 \in 0..W /\ (w + 1) - 1 = w
  BY <1>1
<1>6. ASSUME NEW w \in 0..(W - 1)
      PROVE  SpanOf(q, r, w) = (lo + t[w])..((lo + t[w]) + f[w] - 1)
  <2>1. W \in Nat /\ w \in 0..W
    BY <1>1, <1>5, Zenon
  <2>2. Total(f, w) = t[w]
    <3>1. Sums(t, W, f)
      BY <1>2, Zenon
    <3> HIDE DEF W, f
    <3> QED BY <2>1, <3>1, TotalIs, SMT
  <2>3. f[w] = PopulationSize(q, r, w)
    BY <1>4, Zenon DEF PopulationSizes
  <2>4. /\ WorkerPlan(q, r, w).offset = lo + t[w]
        /\ WorkerPlan(q, r, w).populationSize = f[w]
    <3>1. lo = RankSpan(q, r).offset
      BY Zenon DEF RankRows
    <3> QED BY <2>2, <2>3, <3>1 DEF WorkerPlan
  <2> QED BY <2>4, Zenon DEF SpanOf
<1> HIDE DEF W, f, len
<1>7. /\ t \in [0..W -> Nat] /\ t[0] = 0
      /\ \A k \in 1..W : t[k] = t[k - 1] + f[k - 1]
  BY <1>2, Zenon DEF Sums
<1>8. \A w \in 0..(W - 1) : /\ t[w + 1] = t[w] + f[w] /\ t[w] \in Nat /\ t[w + 1] \in Nat
  <2> TAKE w \in 0..(W - 1)
  <2>1. w \in 0..W /\ w + 1 \in 1..W /\ w + 1 \in 0..W /\ (w + 1) - 1 = w
    BY <1>5, Zenon
  <2> QED BY <1>7, <2>1
<1>9. PICK size \in [0..(W - 1) -> Nat] : \A w \in 0..(W - 1) : size[w] = f[w]
  <2>1. ASSUME NEW w \in 0..(W - 1) PROVE f[w] \in Nat
    <3>1. w \in Consumers(q, r)
      BY <1>4, Zenon
    <3> QED BY <3>1, SizeValues, Zenon DEF f, PopulationSizes
  <2>2. [w \in 0..(W - 1) |-> f[w]] \in [0..(W - 1) -> Nat]
    BY <2>1
  <2> QED BY <2>2
<1>10. \A w \in 0..(W - 1) :
         \A x : x \in SpanOf(q, r, w) <=> x \in (lo + t[w])..(lo + t[w + 1] - 1)
  <2> TAKE w \in 0..(W - 1)
  <2>1. t[w] \in Nat /\ f[w] \in Nat /\ t[w + 1] = t[w] + f[w]
    BY <1>8, <1>9
  <2>2. (lo + t[w]) + f[w] - 1 = lo + t[w + 1] - 1
    <3>1. \A a, s \in Nat : (lo + a) + s - 1 = lo + (a + s) - 1
      OBVIOUS
    <3>2. (lo + t[w]) + f[w] - 1 = lo + (t[w] + f[w]) - 1
      BY <2>1, <3>1, Zenon
    <3> QED BY <2>1, <3>2, Zenon
  <2> QED BY <1>6, <2>2, Zenon
<1>11. \A j, k \in 0..W : j <= k => t[j] <= t[k]
  <2>1. \A k \in 1..W : t[k - 1] <= t[k]
    <3> TAKE k \in 1..W
    <3>1. k - 1 \in 0..(W - 1) /\ (k - 1) + 1 = k
      BY <1>1
    <3>2. t[k] = t[k - 1] + f[k - 1] /\ f[k - 1] \in Nat /\ t[k - 1] \in Nat
      BY <1>7, <1>8, <1>9, <3>1
    <3> QED BY <3>2
  <2>2. W \in Nat
    BY <1>1
  <2> QED BY <1>7, <2>1, <2>2, SumsIncrease, Zenon
<1>12. ASSUME NEW w \in Consumers(q, r), NEW x \in SpanOf(q, r, w) PROVE x \in lo..(hi - 1)
  <2>1. w \in 0..(W - 1) /\ w + 1 \in 0..W /\ W \in 0..W /\ w + 1 <= W
    BY <1>1, <1>3
  <2>2. t[w] \in Nat /\ t[w + 1] \in Nat /\ t[w + 1] <= t[W] /\ t[W] \in Nat
    <3>1. t[W] \in Nat
      BY <1>7, <2>1
    <3> QED BY <1>8, <1>11, <2>1, <3>1, Zenon
  <2>3. t[W] <= len
    BY <1>1, <1>2
  <2>4. x \in (lo + t[w])..(lo + t[w + 1] - 1)
    BY <1>10, <2>1, Zenon
  <2>5. \A a, e, m \in Nat : e <= m /\ m <= len =>
          \A z \in (lo + a)..(lo + e - 1) : z \in lo..(hi - 1)
    BY <1>1
  <2> QED BY <2>2, <2>3, <2>4, <2>5, Zenon
<1>13. ASSUME NEW v \in Consumers(q, r), NEW w \in Consumers(q, r), v < w,
              NEW x \in SpanOf(q, r, v), x \in SpanOf(q, r, w)
       PROVE  FALSE
  <2>1. v \in 0..(W - 1) /\ w \in 0..(W - 1)
    BY <1>3, Zenon
  <2>2. v + 1 \in 0..W /\ w \in 0..W /\ v + 1 <= w
    BY <1>1, <1>13, <2>1
  <2>3. x \in (lo + t[v])..(lo + t[v + 1] - 1) /\ x \in (lo + t[w])..(lo + t[w + 1] - 1)
    BY <1>10, <1>13, <2>1, Zenon
  <2>4. t[v] \in Nat /\ t[v + 1] \in Nat /\ t[w] \in Nat /\ t[w + 1] \in Nat /\ t[v + 1] <= t[w]
    BY <1>8, <1>11, <2>1, <2>2, Zenon
  <2>5. \A a, e, i, j \in Nat : e <= i =>
          \A z \in (lo + a)..(lo + e - 1) : z \notin (lo + i)..(lo + j - 1)
    OBVIOUS
  <2> QED BY <2>3, <2>4, <2>5, Zenon
<1>14. ASSUME NEW v \in Consumers(q, r), NEW w \in Consumers(q, r), v /= w
       PROVE  SpanOf(q, r, v) \cap SpanOf(q, r, w) = {}
  <2>1. v < w \/ w < v
    <3>1. v \in 0..(W - 1) /\ w \in 0..(W - 1)
      BY <1>3, Zenon
    <3> QED BY <1>1, <1>14, <3>1
  <2> QED BY <1>13, <2>1, Zenon
<1>15. ASSUME RankBudget(q) > 0, NEW x \in lo..(hi - 1)
       PROVE  \E w \in Consumers(q, r) : x \in SpanOf(q, r, w)
  <2> DEFINE y == x - lo
  <2>1. y \in 0..(t[W] - 1) /\ x = lo + y /\ W \in Nat
    BY <1>1, <1>2, <1>15
  <2> HIDE DEF y
  <2>2. PICK k \in 1..W : t[k - 1] <= y /\ y < t[k]
    BY <1>7, <2>1, SumsLocate, Zenon
  <2> DEFINE w == k - 1
  <2>3. w \in 0..(W - 1) /\ w + 1 = k
    BY <1>1
  <2>4. t[w] \in Nat /\ t[w + 1] \in Nat /\ t[w] <= y /\ y < t[w + 1]
    BY <1>8, <2>2, <2>3
  <2> HIDE DEF w
  <2>5. x \in (lo + t[w])..(lo + t[w + 1] - 1)
    <3>1. y \in Nat
      BY <1>7, <2>1
    <3>2. \A a, e \in Nat : a <= y /\ y < e => lo + y \in (lo + a)..(lo + e - 1)
      BY <3>1
    <3> QED BY <2>1, <2>4, <3>2, Zenon
  <2>6. w \in Consumers(q, r) /\ x \in SpanOf(q, r, w)
    BY <1>4, <1>10, <2>3, <2>5, Zenon
  <2> QED BY <2>6, Zenon
<1> QED BY <1>12, <1>14, <1>15, Zenon DEF Tiled

\* The rows of the ranks: one after the other, from 0 to what is divided.
LEMMA RanksTile ==
  ASSUME NEW q, IsRequest(q), q.split
  PROVE  \E at \in [0..q.world -> Nat] :
           /\ at[0] = 0 /\ at[q.world] = SplitPopulation(q)
           /\ \A r \in Ranks(q) : RankRows(q, r, at[r], at[r + 1])
           /\ \A j, k \in 0..q.world : j <= k => at[j] <= at[k]
<1> DEFINE n == SplitPopulation(q)
           m == q.world
           at == [k \in 0..m |-> PartitionRows(n, m, k).offset]
<1>1. n \in Nat /\ m \in Nat \ {0} /\ m \in Nat
  <2>1. n \in Nat /\ m \in Nat \ {0}
    BY RequestNumbers, Zenon DEF IsRequest
  <2> QED BY <2>1
<1>2. ASSUME NEW r \in Ranks(q)
      PROVE  /\ RankSpan(q, r).offset = PartitionRows(n, m, r).offset
             /\ RankSpan(q, r).length = PartitionRows(n, m, r).length
             /\ r \in 0..(m - 1)
  BY Zenon DEF RankSpan, Ranks
<1> SUFFICES /\ at \in [0..m -> Nat] /\ at[0] = 0 /\ at[m] = n
             /\ \A r \in Ranks(q) : RankRows(q, r, at[r], at[r + 1])
             /\ \A j, k \in 0..m : j <= k => at[j] <= at[k]
  BY Zenon
<1> HIDE DEF n, m
<1>3. at \in [0..m -> Nat] /\ at[0] = 0 /\ at[m] = n
  <2>1. /\ PartitionRows(n, m, 0).offset = 0 /\ PartitionRows(n, m, m).offset = n
        /\ \A k \in 0..m : PartitionRows(n, m, k).offset \in Nat
    BY <1>1, PartitionTiles, Zenon
  <2>2. 0 \in 0..m /\ m \in 0..m
    BY <1>1
  <2> QED BY <2>1, <2>2
<1>4. \A r \in 0..(m - 1) : /\ at[r] = PartitionRows(n, m, r).offset
                            /\ at[r + 1] = at[r] + PartitionRows(n, m, r).length
                            /\ PartitionRows(n, m, r).length \in Nat
  <2> TAKE r \in 0..(m - 1)
  <2>1. r \in 0..m /\ r + 1 \in 0..m
    BY <1>1
  <2>2. at[r] = PartitionRows(n, m, r).offset /\ at[r + 1] = PartitionRows(n, m, r + 1).offset
    BY <2>1, Zenon
  <2>3. /\ PartitionRows(n, m, r).length \in Nat
        /\ PartitionRows(n, m, r + 1).offset =
             PartitionRows(n, m, r).offset + PartitionRows(n, m, r).length
    BY <1>1, PartitionStep, Zenon
  <2> QED BY <2>2, <2>3, Zenon
<1> HIDE DEF at
<1>5. ASSUME NEW r \in Ranks(q) PROVE RankRows(q, r, at[r], at[r + 1])
  BY <1>2, <1>4, Zenon DEF RankRows
<1>6. \A j, k \in 0..m : j <= k => at[j] <= at[k]
  <2>1. ASSUME NEW k \in 1..m PROVE at[k - 1] <= at[k]
    <3>1. k - 1 \in 0..(m - 1) /\ k - 1 \in 0..m /\ (k - 1) + 1 = k
      BY <1>1
    <3>2. PICK s \in Nat : at[k] = at[k - 1] + s
      BY <1>4, <3>1, Zenon
    <3>3. at[k - 1] \in Nat
      BY <1>3, <3>1
    <3> QED BY <3>2, <3>3
  <2> QED BY <1>1, <1>3, <2>1, SumsIncrease, Zenon
<1> QED BY <1>3, <1>5, <1>6, Zenon

\* With "split" the spans of all consumers are disjoint, and when there are samples
\* to deliver they are together what is divided.
LEMMA SpansTile ==
  ASSUME NEW q, IsRequest(q), q.split
  PROVE  /\ \A r, s \in Ranks(q) : \A v \in Consumers(q, r), w \in Consumers(q, s) :
              r /= s \/ v /= w => SpanOf(q, r, v) \cap SpanOf(q, s, w) = {}
         /\ \A r \in Ranks(q) : \A w \in Consumers(q, r) :
              SpanOf(q, r, w) \subseteq 0..(SplitPopulation(q) - 1)
         /\ RankBudget(q) > 0 =>
              \A x \in 0..(SplitPopulation(q) - 1) :
                \E r \in Ranks(q) : \E w \in Consumers(q, r) : x \in SpanOf(q, r, w)
<1> DEFINE n == SplitPopulation(q)
           m == q.world
<1>1. PICK at \in [0..m -> Nat] :
        /\ at[0] = 0 /\ at[m] = n
        /\ \A r \in Ranks(q) : RankRows(q, r, at[r], at[r + 1])
        /\ \A j, k \in 0..m : j <= k => at[j] <= at[k]
  BY RanksTile, Zenon
<1>2. n \in Nat /\ m \in Nat \ {0} /\ \A r : r \in Ranks(q) <=> r \in 0..(m - 1)
  BY RequestNumbers, Zenon DEF IsRequest, Ranks
<1> SUFFICES
      /\ \A r, s \in Ranks(q) : \A v \in Consumers(q, r), w \in Consumers(q, s) :
           r /= s \/ v /= w => SpanOf(q, r, v) \cap SpanOf(q, s, w) = {}
      /\ \A r \in Ranks(q) : \A w \in Consumers(q, r) : SpanOf(q, r, w) \subseteq 0..(n - 1)
      /\ RankBudget(q) > 0 =>
           \A x \in 0..(n - 1) :
             \E r \in Ranks(q) : \E w \in Consumers(q, r) : x \in SpanOf(q, r, w)
  OBVIOUS
<1> HIDE DEF n, m
<1>3. \A r \in Ranks(q) : /\ at[r] \in Nat /\ at[r + 1] \in Nat
                          /\ at[r] >= 0 /\ at[r + 1] <= n
  <2> TAKE r \in Ranks(q)
  <2>1. r \in 0..(m - 1)
    BY <1>2, Zenon
  <2>2. /\ r \in 0..m /\ r + 1 \in 0..m /\ 0 \in 0..m /\ m \in 0..m
        /\ 0 <= r /\ r + 1 <= m
    BY <1>2, <2>1
  <2>3. at[r] \in Nat /\ at[r + 1] \in Nat
    BY <1>1, <2>2
  <2>4. at[r + 1] <= n
    BY <1>1, <2>2, Zenon
  <2> QED BY <2>3, <2>4
<1>4. \A r \in Ranks(q) : Tiled(q, r, at[r], at[r + 1])
  BY <1>1, <1>3, RankTiles, Zenon
<1>5. ASSUME NEW r \in Ranks(q), NEW s \in Ranks(q), r < s,
             NEW v \in Consumers(q, r), NEW w \in Consumers(q, s),
             NEW x \in SpanOf(q, r, v), x \in SpanOf(q, s, w)
      PROVE  FALSE
  <2>1. x \in at[r]..(at[r + 1] - 1) /\ x \in at[s]..(at[s + 1] - 1)
    BY <1>4, <1>5, Zenon DEF Tiled
  <2>2. r + 1 \in 0..m /\ s \in 0..m /\ r + 1 <= s
    <3>1. r \in 0..(m - 1) /\ s \in 0..(m - 1)
      BY <1>2, Zenon
    <3> QED BY <1>2, <1>5, <3>1
  <2>3. at[r + 1] <= at[s] /\ at[r + 1] \in Nat /\ at[s] \in Nat
    BY <1>1, <1>3, <2>2, Zenon
  <2>4. \A a, i, j, b : a \in Int /\ i \in Nat /\ j \in Nat /\ i <= j =>
          \A z \in a..(i - 1) : z \notin j..b
    OBVIOUS
  <2>5. at[r] \in Int
    BY <1>3
  <2> QED BY <2>1, <2>3, <2>4, <2>5, Zenon
<1>6. ASSUME NEW r \in Ranks(q), NEW s \in Ranks(q), NEW v \in Consumers(q, r),
             NEW w \in Consumers(q, s), r /= s \/ v /= w
      PROVE  SpanOf(q, r, v) \cap SpanOf(q, s, w) = {}
  <2>1. CASE r = s
    BY <1>4, <1>6, <2>1, Zenon DEF Tiled
  <2>2. CASE r /= s
    <3>1. r < s \/ s < r
      <4>1. r \in 0..(m - 1) /\ s \in 0..(m - 1)
        BY <1>2, Zenon
      <4> QED BY <1>2, <2>2, <4>1
    <3> QED BY <1>5, <3>1, Zenon
  <2> QED BY <2>1, <2>2, Zenon
<1>7. ASSUME NEW r \in Ranks(q), NEW w \in Consumers(q, r)
      PROVE  SpanOf(q, r, w) \subseteq 0..(n - 1)
  <2>1. at[r]..(at[r + 1] - 1) \subseteq 0..(n - 1)
    <3>1. at[r] \in Nat /\ at[r + 1] \in Nat /\ at[r + 1] <= n
      BY <1>3, Zenon
    <3>2. \A a, b \in Nat : b <= n => a..(b - 1) \subseteq 0..(n - 1)
      BY <1>2
    <3> QED BY <3>1, <3>2, Zenon
  <2> QED BY <1>4, <2>1, Zenon DEF Tiled
<1>8. ASSUME RankBudget(q) > 0, NEW x \in 0..(n - 1)
      PROVE  \E r \in Ranks(q) : \E w \in Consumers(q, r) : x \in SpanOf(q, r, w)
  <2>1. m \in Nat /\ x \in 0..(at[m] - 1)
    BY <1>1, <1>2
  <2>2. PICK k \in 1..m : at[k - 1] <= x /\ x < at[k]
    BY <1>1, <2>1, SumsLocate, Zenon
  <2> DEFINE r == k - 1
  <2>3. r \in Ranks(q) /\ r + 1 = k
    <3>1. r \in 0..(m - 1) /\ r + 1 = k
      BY <1>2
    <3> QED BY <1>2, <3>1, Zenon
  <2>4. at[r] <= x /\ x < at[r + 1]
    BY <2>2, <2>3, Zenon
  <2> HIDE DEF r
  <2>5. x \in at[r]..(at[r + 1] - 1)
    <3>1. at[r] \in Nat /\ at[r + 1] \in Nat /\ x \in Nat
      BY <1>2, <1>3, <2>3
    <3>2. \A a, b \in Nat : a <= x /\ x < b => x \in a..(b - 1)
      BY <3>1
    <3> QED BY <2>4, <3>1, <3>2, Zenon
  <2>6. \E w \in Consumers(q, r) : x \in SpanOf(q, r, w)
    BY <1>4, <1>8, <2>3, <2>5, Zenon DEF Tiled
  <2> QED BY <2>3, <2>6, Zenon
<1> QED BY <1>6, <1>7, <1>8, Zenon

-----------------------------------------------------------------------------
(* Theorems about the plans *)

\* The plans that all ranks compute on their own fit each other.
LEMMA PlansFit ==
  ASSUME IsRequest(c)
  PROVE  PlansTile
<1> DEFINE all == UNION {{<<r, w>> : w \in Consumers(c, r)} : r \in Ranks(c)}
           plan == [k \in all |-> WorkerPlan(c, k[1], k[2])]
           span(k) == plan[k].offset..(plan[k].offset + plan[k].populationSize - 1)
           covered == UNION {span(k) : k \in all}
<1>1. \A k \in all : k[1] \in Ranks(c) /\ k[2] \in Consumers(c, k[1]) /\ k = <<k[1], k[2]>>
  <2> TAKE k \in all
  <2>1. PICK r \in Ranks(c) : \E w \in Consumers(c, r) : k = <<r, w>>
    BY Zenon
  <2>2. PICK w \in Consumers(c, r) : k = <<r, w>>
    BY <2>1, Zenon
  <2>3. k[1] = r /\ k[2] = w
    BY <2>2
  <2> QED BY <2>2, <2>3, Zenon
<1>2. \A r \in Ranks(c) : \A w \in Consumers(c, r) : <<r, w>> \in all
  <2> TAKE r \in Ranks(c)
  <2> TAKE w \in Consumers(c, r)
  <2>1. <<r, w>> \in {<<r, u>> : u \in Consumers(c, r)}
    OBVIOUS
  <2> QED BY <2>1, Zenon
<1>3. \A k \in all : plan[k] = WorkerPlan(c, k[1], k[2])
  BY Zenon
<1>4. \A k \in all : span(k) = SpanOf(c, k[1], k[2])
  BY <1>3, Zenon DEF SpanOf
<1>5. ASSUME NEW k \in all PROVE plan[k].sampleCount > 0 <=> plan[k].populationSize > 0
  <2>1. /\ WorkerPlan(c, k[1], k[2]).sampleCount = Budgets(c, k[1])[k[2]]
        /\ WorkerPlan(c, k[1], k[2]).populationSize = PopulationSize(c, k[1], k[2])
    BY DEF WorkerPlan
  <2>2. Budgets(c, k[1])[k[2]] > 0 <=> PopulationSize(c, k[1], k[2]) > 0
    BY <1>1, SizeValues, Zenon
  <2> QED BY <1>3, <2>1, <2>2, Zenon
<1> SUFFICES ASSUME c.split
             PROVE  /\ \A k, l \in all : k /= l => span(k) \cap span(l) = {}
                    /\ RankBudget(c) > 0 =>
                         \E n \in 1..(c.rows + c.world - 1) :
                           /\ covered = 0..(n - 1)
                           /\ n < c.rows => c.dropLast /\ c.samples = c.rows
  BY <1>5, Zenon DEF PlansTile
<1> HIDE DEF all, plan, span
<1>6. ASSUME NEW k \in all, NEW l \in all, k /= l PROVE span(k) \cap span(l) = {}
  <2>1. k[1] /= l[1] \/ k[2] /= l[2]
    <3> SUFFICES ASSUME k[1] = l[1], k[2] = l[2] PROVE FALSE
      BY Zenon
    <3>1. k = <<k[1], k[2]>> /\ l = <<l[1], l[2]>>
      BY <1>1, Zenon
    <3>2. <<k[1], k[2]>> = <<l[1], l[2]>>
      OBVIOUS
    <3> QED BY <1>6, <3>1, <3>2, Zenon
  <2>2. SpanOf(c, k[1], k[2]) \cap SpanOf(c, l[1], l[2]) = {}
    BY <1>1, <2>1, SpansTile, Zenon
  <2> QED BY <1>4, <2>2, Zenon
<1>7. ASSUME RankBudget(c) > 0 PROVE covered = 0..(SplitPopulation(c) - 1)
  <2>1. ASSUME NEW x \in covered PROVE x \in 0..(SplitPopulation(c) - 1)
    <3>1. PICK k \in all : x \in span(k)
      BY Zenon
    <3>2. x \in SpanOf(c, k[1], k[2])
      BY <1>4, <3>1, Zenon
    <3> QED BY <1>1, <3>2, SpansTile, Zenon
  <2>2. ASSUME NEW x \in 0..(SplitPopulation(c) - 1) PROVE x \in covered
    <3>1. PICK r \in Ranks(c) : \E w \in Consumers(c, r) : x \in SpanOf(c, r, w)
      BY <1>7, SpansTile, Zenon
    <3>2. PICK w \in Consumers(c, r) : x \in SpanOf(c, r, w)
      BY <3>1, Zenon
    <3> DEFINE k == <<r, w>>
    <3>3. k \in all
      BY <1>2, Zenon
    <3>4. k[1] = r /\ k[2] = w
      OBVIOUS
    <3> HIDE DEF k
    <3>5. x \in span(k)
      BY <1>4, <3>2, <3>3, <3>4, Zenon
    <3> QED BY <3>3, <3>5, Zenon
  <2> QED BY <2>1, <2>2, Zenon
<1>8. RankBudget(c) > 0 =>
        /\ SplitPopulation(c) \in 1..(c.rows + c.world - 1)
        /\ SplitPopulation(c) < c.rows => c.dropLast /\ c.samples = c.rows
  BY RequestNumbers, Zenon
<1> HIDE DEF covered
<1> QED BY <1>6, <1>7, <1>8, Zenon

\* The length that Torch computes is the number of batches the workers form, and
\* the same on every rank.
LEMMA LengthsAgree ==
  ASSUME IsRequest(c)
  PROVE  LengthExact
<1> DEFINE batches(n) == IF c.dropLast THEN n \div c.batch ELSE (n + c.batch - 1) \div c.batch
           total(r) == Total(Budgets(c, r), RankWorkers(c, r))
           formed(r) == Total([w \in Consumers(c, r) |-> batches(Budgets(c, r)[w])], RankWorkers(c, r))
<1>1. ASSUME NEW r \in Ranks(c)
      PROVE  total(r) = RankBudget(c) /\ formed(r) = batches(RankBudget(c))
  <2>1. Sound(Budgets(c, r), RankBudget(c), RankWorkers(c, r), Populations(c, r), c.batch, c.dropLast)
    BY RankBudgets, Zenon
  <2>2. total(r) = RankBudget(c)
    BY <2>1, Zenon DEF Sound
  <2>3. Formed(Budgets(c, r), RankWorkers(c, r), c.batch, c.dropLast) =
          BatchesOf(RankBudget(c), c.batch, c.dropLast)
    BY <2>1, Zenon DEF Sound
  <2>4. formed(r) = batches(RankBudget(c))
    BY <2>3, Zenon DEF Formed, BatchesOf, Consumers
  <2> QED BY <2>2, <2>4, Zenon
<1>2. 0 \in Ranks(c)
  <2>1. c.world \in Nat \ {0}
    BY Zenon DEF IsRequest
  <2> QED BY <2>1 DEF Ranks
<1>3. \A r \in Ranks(c) : formed(r) = batches(total(r)) /\ formed(r) = formed(0)
  <2> TAKE r \in Ranks(c)
  <2>1. total(r) = RankBudget(c) /\ formed(r) = batches(RankBudget(c))
    BY <1>1, Zenon
  <2>2. formed(0) = batches(RankBudget(c))
    BY <1>1, <1>2, Zenon
  <2> QED BY <2>1, <2>2, Zenon
<1> QED BY <1>3, Zenon DEF LengthExact

-----------------------------------------------------------------------------
(* The walk of one consumer *)

Quota == Plan.sampleCount
Size == Plan.populationSize

\* The consumer is one of the request.
Identity ==
  c \in Requests /\ consumer[1] \in Ranks(c) /\ consumer[2] \in Consumers(c, consumer[1])

\* Where window i (from 0) starts, and where the cursor stands before it.
StartAt(i) == IF c.shuffle THEN i * Quota ELSE (i * Quota) % Size
CursorAt(i) ==
  IF c.shuffle THEN shuffledDrawOffset = i * Quota ELSE sequentialOffset = (i * Quota) % Size

\* The stream after i windows have been taken: it reads the last one, or that one
\* is used up.
StreamAt(i) ==
  IF stream.status = "open"
    THEN /\ i > 0 /\ stream.taken \in 1..Quota /\ stream.start = StartAt(i - 1)
         /\ position = (i - 1) * Quota + stream.taken
    ELSE position = i * Quota

\* The inductive invariant: the cursor, the stream and the position agree on how
\* many windows have been taken.
WalkInv ==
  /\ Identity
  /\ remaining \in Nat /\ position \in Nat
  /\ remaining > 0 => Quota > 0 /\ reader /= "pending"
  /\ reader = "pending" => stream = FreshStream
  /\ Quota > 0 => \E i \in Nat : CursorAt(i) /\ StreamAt(i)
  /\ CyclicOrder

\* The quota and the rows of a consumer: who has samples to deliver has rows.
LEMMA QuotaAndSize ==
  ASSUME Identity
  PROVE  /\ Quota \in Nat /\ Size \in Nat /\ (Quota > 0 => Size > 0)
         /\ Len(Population) = Size
<1> DEFINE r == consumer[1]
           w == consumer[2]
<1>1. IsRequest(c) /\ r \in Ranks(c) /\ w \in Consumers(c, r)
  BY ReaderLoaderAssumption, Zenon DEF Identity
<1>2. Quota = Budgets(c, r)[w] /\ Size = PopulationSize(c, r, w)
  BY DEF Quota, Size, Plan, WorkerPlan
<1> HIDE DEF r, w
<1>3. /\ Budgets(c, r)[w] \in Nat /\ PopulationSize(c, r, w) \in Nat
      /\ Budgets(c, r)[w] > 0 <=> PopulationSize(c, r, w) > 0
  BY <1>1, SizeValues, Zenon
<1>4. Quota \in Nat /\ Size \in Nat /\ (Quota > 0 => Size > 0)
  BY <1>2, <1>3, Zenon
<1>5. Len(Population) = Size
  <2> DEFINE row(k) == LET at == (Plan.offset + k - 1) % c.rows IN
                       IF c.shuffle /\ c.split THEN RowOrder[c.rows][at + 1] ELSE at
  <2>1. Population = [k \in 1..Size |-> row(k)]
    BY Zenon DEF Population, PopulationSelection, Size
  <2> HIDE DEF row
  <2>2. [k \in 1..Size |-> row(k)] \in Seq({row(k) : k \in 1..Size})
    BY <1>4
  <2>3. Len([k \in 1..Size |-> row(k)]) = Size
    BY <1>4
  <2> QED BY <2>1, <2>3, Zenon
<1> QED BY <1>4, <1>5, Zenon

\* Whole windows.
LEMMA WindowProducts ==
  ASSUME NEW s \in Nat, NEW i \in Nat
  PROVE  i * s \in Nat /\ (i + 1) * s = i * s + s
OBVIOUS

\* Before a sample is drawn: i windows are used up but for the one being read, of
\* which k - 1 samples have been taken, the sample will be number k of it, and the
\* cursor will stand behind it.
NextSample(i, k) ==
  /\ k \in 1..Quota /\ position = i * Quota + (k - 1)
  /\ Drawn = [status |-> "open", start |-> StartAt(i), taken |-> k]
  /\ IF c.shuffle THEN shuffledDrawOffset' = (i + 1) * Quota
                  ELSE sequentialOffset' = ((i + 1) * Quota) % Size

\* A stream that needs a window has used up the ones taken.
LEMMA UsedUp ==
  ASSUME WalkInv, Quota > 0, NeedsWindow, NEW i \in Nat, StreamAt(i)
  PROVE  position = i * Quota
<1>1. Quota \in Nat
  BY QuotaAndSize, Zenon DEF WalkInv
<1>2. CASE stream.status /= "open"
  BY <1>2, Zenon DEF StreamAt
<1>3. CASE stream.status = "open"
  <2>1. stream.taken = Quota
    BY <1>3, Zenon DEF NeedsWindow, Quota
  <2>2. i > 0 /\ position = (i - 1) * Quota + stream.taken
    BY <1>3, Zenon DEF StreamAt
  <2>3. i - 1 \in Nat /\ (i - 1) + 1 = i
    BY <2>2
  <2>4. ((i - 1) + 1) * Quota = (i - 1) * Quota + Quota
    BY <1>1, <2>3, WindowProducts, Zenon
  <2> QED BY <2>1, <2>2, <2>3, <2>4, Zenon
<1> QED BY <1>2, <1>3, Zenon

\* Drawing a sample, from the open window or from a new one.
LEMMA Drawing ==
  ASSUME WalkInv, remaining > 0, ~WindowRefused, TakeWindow
  PROVE  \E i \in Nat : \E k \in Nat : NextSample(i, k)
<1>1. /\ Quota \in Nat \ {0} /\ Size \in Nat \ {0} /\ Len(Population) = Size
  <2>1. Quota > 0 /\ Identity
    BY Zenon DEF WalkInv
  <2> QED BY <2>1, QuotaAndSize
<1>2. PICK i \in Nat : CursorAt(i) /\ StreamAt(i)
  <2>1. Quota > 0
    BY <1>1
  <2> QED BY <2>1, Zenon DEF WalkInv
<1>3. /\ i * Quota \in Nat /\ (i + 1) * Quota = i * Quota + Quota
  BY <1>1, <1>2, WindowProducts
<1>4. CASE NeedsWindow
  <2>1. position = i * Quota
    <3>1. Quota > 0
      BY <1>1
    <3> QED BY <1>2, <1>4, <3>1, UsedUp, Zenon
  <2>2. WindowStart = StartAt(i)
    BY <1>2, Zenon DEF WindowStart, StartAt, CursorAt
  <2>3. Drawn = [status |-> "open", start |-> StartAt(i), taken |-> 1]
    BY <1>4, <2>2 DEF Drawn
  <2>4. 1 \in 1..Quota /\ position = i * Quota + (1 - 1)
    BY <1>1, <1>3, <2>1
  <2>5. ASSUME c.shuffle PROVE shuffledDrawOffset' = (i + 1) * Quota
    <3>1. shuffledDrawOffset = i * Quota
      BY <1>2, <2>5, Zenon DEF CursorAt
    <3>2. AdvanceDrawOffset(shuffledDrawOffset, Quota) /= Overflow
      BY <1>4, <2>5, Zenon DEF WindowRefused, Quota
    <3>3. AdvanceDrawOffset(shuffledDrawOffset, Quota) = shuffledDrawOffset + Quota
      BY <3>2, Zenon DEF AdvanceDrawOffset
    <3>4. shuffledDrawOffset' = AdvanceDrawOffset(shuffledDrawOffset, Quota)
      BY <1>4, <2>5, Zenon DEF TakeWindow, Quota
    <3> QED BY <1>3, <3>1, <3>3, <3>4, Zenon
  <2>6. ASSUME ~c.shuffle PROVE sequentialOffset' = ((i + 1) * Quota) % Size
    <3>1. sequentialOffset = (i * Quota) % Size
      BY <1>2, <2>6, Zenon DEF CursorAt
    <3>2. sequentialOffset' = AdvanceCyclicOffset(sequentialOffset, Quota, Size)
      BY <1>1, <1>4, <2>6, Zenon DEF TakeWindow, Quota
    <3> DEFINE a == i * Quota
    <3>3. a \in Nat /\ a \in Int
      BY <1>3
    <3> HIDE DEF a
    <3>4. a % Size \in 0..(Size - 1)
      BY <1>1, <3>3, DivMod, Zenon
    <3>5. Quota \in Nat
      BY <1>1
    <3>6. AdvanceCyclicOffset(a % Size, Quota, Size) = ((a % Size) + Quota) % Size
      BY <1>1, <3>4, <3>5, AdvanceIsCyclicAddition, Zenon
    <3>7. ((a % Size) + Quota) % Size = (a + Quota) % Size
      BY <1>1, <3>3, <3>5, ModAbsorbs, Zenon
    <3> QED BY <1>3, <3>1, <3>2, <3>6, <3>7, Zenon DEF a
  <2>7. NextSample(i, 1)
    BY <2>3, <2>4, <2>5, <2>6, Zenon DEF NextSample
  <2> QED BY <2>7, Zenon
<1>5. CASE ~NeedsWindow
  <2>1. stream.status = "open" /\ stream.taken /= Quota
    BY <1>5, Zenon DEF NeedsWindow, Quota
  <2>2. /\ i > 0 /\ stream.taken \in 1..Quota /\ stream.start = StartAt(i - 1)
        /\ position = (i - 1) * Quota + stream.taken
    BY <1>2, <2>1, Zenon DEF StreamAt
  <2> DEFINE j == i - 1
             k == stream.taken + 1
  <2>3. j \in Nat /\ j + 1 = i
    BY <2>2
  <2>4. k \in 1..Quota /\ k - 1 = stream.taken /\ k \in Nat
    BY <1>1, <2>1, <2>2
  <2>5. Drawn = [status |-> "open", start |-> StartAt(j), taken |-> k]
    BY <1>5, <2>2 DEF Drawn
  <2>6. /\ shuffledDrawOffset' = shuffledDrawOffset /\ sequentialOffset' = sequentialOffset
    BY <1>5, Zenon DEF TakeWindow
  <2>7. position = j * Quota + (k - 1)
    BY <2>2, <2>4, Zenon
  <2> HIDE DEF j, k
  <2>8. NextSample(j, k)
    BY <1>2, <2>3, <2>4, <2>5, <2>6, <2>7, Zenon DEF NextSample, CursorAt
  <2> QED BY <2>3, <2>4, <2>8, Zenon
<1> QED BY <1>4, <1>5, Zenon

\* The row drawn is the one the endless sequence has at the position.
LEMMA DrawnRow ==
  ASSUME Identity, Quota > 0, NEW i \in Nat, NEW k \in Nat, NextSample(i, k)
  PROVE  PlannedRow([shuffled |-> c.shuffle, start |-> Drawn.start,
                     populationLen |-> Len(Population)], Drawn.taken - 1)
           = (IF c.shuffle THEN Draws[position] ELSE position) % Size
<1> DEFINE plan == [shuffled |-> c.shuffle, start |-> Drawn.start,
                    populationLen |-> Len(Population)]
<1>1. Quota \in Nat \ {0} /\ Size \in Nat \ {0} /\ Len(Population) = Size
  BY QuotaAndSize
<1>2. /\ k \in 1..Quota /\ position = i * Quota + (k - 1)
      /\ Drawn = [status |-> "open", start |-> StartAt(i), taken |-> k]
  BY Zenon DEF NextSample
<1>3. Drawn.start = StartAt(i) /\ Drawn.taken = k
  BY <1>2
<1>4. plan.shuffled = c.shuffle /\ plan.start = StartAt(i) /\ plan.populationLen = Size
  BY <1>1, <1>3
<1> DEFINE a == i * Quota
           e == k - 1
<1>5. a \in Nat /\ a \in Int /\ e \in Nat /\ position = a + e
  BY <1>1, <1>2, WindowProducts
<1> SUFFICES PlannedRow(plan, e) = (IF c.shuffle THEN Draws[position] ELSE position) % Size
  BY <1>3, Zenon
<1> HIDE DEF plan, e
<1>6. CASE c.shuffle
  <2>1. plan.start = a
    BY <1>4, <1>6, Zenon DEF StartAt
  <2> HIDE DEF a
  <2> QED BY <1>4, <1>5, <1>6, <2>1, Zenon DEF PlannedRow, Sampled
<1>7. CASE ~c.shuffle
  <2>1. plan.start = a % Size
    BY <1>4, <1>7, Zenon DEF StartAt
  <2> HIDE DEF a
  <2>2. a % Size \in 0..(Size - 1)
    BY <1>1, <1>5, DivMod, Zenon
  <2>3. AdvanceCyclicOffset(a % Size, e, Size) = ((a % Size) + e) % Size
    BY <1>1, <1>5, <2>2, AdvanceIsCyclicAddition, Zenon
  <2>4. ((a % Size) + e) % Size = (a + e) % Size
    BY <1>1, <1>5, ModAbsorbs, Zenon
  <2> QED BY <1>4, <1>5, <1>7, <2>1, <2>3, <2>4, Zenon DEF PlannedRow
<1> QED BY <1>6, <1>7, Zenon

\* The plan of a consumer does not change.
LEMMA SameConsumer ==
  ASSUME c' = c, consumer' = consumer
  PROVE  /\ Quota' = Quota /\ Size' = Size /\ Population' = Population
         /\ Identity <=> Identity'
         /\ \A i : StartAt(i)' = StartAt(i)
<1>1. Plan' = Plan
  BY DEF Plan
<1>2. Quota' = Quota /\ Size' = Size /\ Population' = Population
  BY <1>1 DEF Quota, Size, Population
<1>3. \A i : StartAt(i)' = StartAt(i)
  BY <1>2 DEF StartAt
<1>4. Identity <=> Identity'
  BY DEF Identity
<1> QED BY <1>2, <1>3, <1>4, Zenon

\* The initial states.
LEMMA WalkInit == Init => WalkInv
<1> SUFFICES ASSUME Init PROVE WalkInv
  OBVIOUS
<1>1. Identity
  <2>1. PICK r \in Ranks(c), w \in UNION {Consumers(c, q) : q \in Ranks(c)} : consumer = <<r, w>>
    BY DEF Init
  <2>2. consumer[1] = r
    BY <2>1
  <2> QED BY <2>2 DEF Init, Identity
<1>2. Quota > 0 => \E i \in Nat : CursorAt(i) /\ StreamAt(i)
  <2> SUFFICES ASSUME Quota > 0 PROVE CursorAt(0) /\ StreamAt(0)
    OBVIOUS
  <2>1. Quota \in Nat /\ Size \in Nat \ {0}
    BY <1>1, QuotaAndSize
  <2>2. 0 * Quota = 0 /\ 0 % Size = 0
    BY <2>1
  <2>3. CursorAt(0)
    BY <2>2, Zenon DEF Init, CursorAt
  <2>4. stream.status /= "open" /\ position = 0
    BY DEF Init, FreshStream
  <2>5. StreamAt(0)
    BY <2>2, <2>4, Zenon DEF StreamAt
  <2> QED BY <2>3, <2>5
<1>3. /\ remaining = 0 /\ position = 0 /\ stream = FreshStream /\ last = NoRow
  BY Zenon DEF Init
<1>4. remaining \in Nat /\ position \in Nat /\ ~(remaining > 0)
  BY <1>3
<1>5. CyclicOrder
  BY <1>3, Zenon DEF CyclicOrder
<1> QED BY <1>1, <1>2, <1>3, <1>4, <1>5, Zenon DEF WalkInv

\* Steps that touch neither the cursors nor the stream nor the position.
LEMMA WalkStands ==
  ASSUME WalkInv, c' = c, consumer' = consumer, stream' = stream, position' = position,
         sequentialOffset' = sequentialOffset, shuffledDrawOffset' = shuffledDrawOffset,
         last' = last, remaining' \in Nat, remaining' > 0 => Quota > 0 /\ reader' /= "pending",
         reader' /= "pending" \/ reader' = reader
  PROVE  WalkInv'
<1>1. /\ Quota' = Quota /\ Size' = Size /\ Population' = Population
      /\ Identity <=> Identity'
      /\ \A i : StartAt(i)' = StartAt(i)
  BY SameConsumer, Zenon
<1>2. \A i : (CursorAt(i) <=> CursorAt(i)') /\ (StreamAt(i) <=> StreamAt(i)')
  <2> TAKE i
  <2>1. CursorAt(i) <=> CursorAt(i)'
    BY <1>1 DEF CursorAt
  <2>2. StartAt(i - 1)' = StartAt(i - 1)
    BY <1>1, Zenon
  <2>3. StreamAt(i) <=> StreamAt(i)'
    BY <1>1, <2>2 DEF StreamAt
  <2> QED BY <2>1, <2>3
<1>3. CyclicOrder'
  <2>1. CyclicOrder
    BY Zenon DEF WalkInv
  <2> QED BY <1>1, <2>1 DEF CyclicOrder
<1>4. Quota' > 0 => \E i \in Nat : CursorAt(i)' /\ StreamAt(i)'
  BY <1>1, <1>2, Zenon DEF WalkInv
<1>5. Identity' /\ position' \in Nat /\ (remaining' > 0 => Quota' > 0 /\ reader' /= "pending")
  BY <1>1, Zenon DEF WalkInv
<1>6. reader' = "pending" => stream' = FreshStream'
  BY DEF WalkInv, FreshStream
<1> QED BY <1>3, <1>4, <1>5, <1>6, Zenon DEF WalkInv

\* Steps that draw a sample: i windows were used up, and the cursor moves behind
\* the next one.
LEMMA WalkGoesOn ==
  ASSUME WalkInv, Quota > 0, c' = c, consumer' = consumer, reader' = reader,
         NEW i \in Nat, NEW k \in Nat, NextSample(i, k), StreamAt(i + 1)',
         reader /= "pending",
         position' \in Nat, remaining' \in Nat, CyclicOrder'
  PROVE  WalkInv'
<1>1. Quota' = Quota /\ Size' = Size /\ (Identity <=> Identity')
  BY SameConsumer, Zenon
<1>2. CursorAt(i + 1)'
  <2>1. IF c.shuffle THEN shuffledDrawOffset' = (i + 1) * Quota
                     ELSE sequentialOffset' = ((i + 1) * Quota) % Size
    BY Zenon DEF NextSample
  <2> QED BY <1>1, <2>1 DEF CursorAt
<1>3. i + 1 \in Nat
  OBVIOUS
<1>4. Identity' /\ (remaining' > 0 => Quota' > 0 /\ reader' /= "pending")
  BY <1>1, Zenon DEF WalkInv
<1>5. reader' /= "pending"
  BY Zenon
<1> QED BY <1>2, <1>3, <1>4, <1>5, Zenon DEF WalkInv

\* The stream from which sample k of window i has been drawn.
LEMMA StreamDrawn ==
  ASSUME Identity, c' = c, consumer' = consumer, NEW i \in Nat, NEW k \in Nat, NextSample(i, k),
         stream' = Drawn, position' = position + 1
  PROVE  StreamAt(i + 1)' /\ position' \in Nat
<1>1. Quota' = Quota /\ StartAt(i)' = StartAt(i) /\ Quota \in Nat
  BY SameConsumer, QuotaAndSize, Zenon
<1>2. /\ k \in 1..Quota /\ position = i * Quota + (k - 1)
      /\ stream' = [status |-> "open", start |-> StartAt(i), taken |-> k]
  BY Zenon DEF NextSample
<1>3. stream'.status = "open" /\ stream'.start = StartAt(i) /\ stream'.taken = k
  BY <1>2
<1>4. i + 1 > 0 /\ (i + 1) - 1 = i
  OBVIOUS
<1>5. i * Quota \in Nat
  BY <1>1, WindowProducts, Zenon
<1>6. position' = i * Quota + k /\ position' \in Nat
  <2>1. \A a \in Nat : a + (k - 1) + 1 = a + k /\ a + k \in Nat
    OBVIOUS
  <2> QED BY <1>2, <1>5, <2>1, Zenon
<1> QED BY <1>1, <1>2, <1>3, <1>4, <1>6, Zenon DEF StreamAt

\* What every drawing step begins with.
LEMMA DrawingStep ==
  ASSUME WalkInv, remaining > 0, ~WindowRefused, TakeWindow
  PROVE  /\ Identity /\ Quota > 0 /\ reader /= "pending"
         /\ \E i \in Nat : \E k \in Nat : NextSample(i, k)
<1>1. Identity /\ Quota > 0 /\ reader /= "pending"
  BY Zenon DEF WalkInv
<1> QED BY <1>1, Drawing, Zenon

\* A sample is delivered.
LEMMA WalkDeliver == WalkInv /\ Deliver => WalkInv'
<1> SUFFICES ASSUME WalkInv, Deliver PROVE WalkInv'
  OBVIOUS
<1>1. /\ remaining > 0 /\ ~WindowRefused /\ TakeWindow /\ stream' = Drawn
      /\ remaining' = remaining - 1 /\ position' = position + 1
      /\ c' = c /\ consumer' = consumer /\ reader' = reader
  BY DEF Deliver
<1>2. Identity /\ Quota > 0 /\ reader /= "pending"
  BY <1>1, DrawingStep, Zenon
<1>3. PICK i \in Nat, k \in Nat : NextSample(i, k)
  BY <1>1, DrawingStep, Zenon
<1>4. StreamAt(i + 1)' /\ position' \in Nat
  BY <1>1, <1>2, <1>3, StreamDrawn, Zenon
<1>5. remaining' \in Nat
  <2>1. remaining \in Nat
    BY Zenon DEF WalkInv
  <2> QED BY <1>1, <2>1
<1>6. CyclicOrder'
  <2>1. last' = Population[PlannedRow([shuffled |-> c.shuffle, start |-> Drawn.start,
                                       populationLen |-> Len(Population)], Drawn.taken - 1) + 1]
    BY Zenon DEF Deliver
  <2>2. PlannedRow([shuffled |-> c.shuffle, start |-> Drawn.start,
                    populationLen |-> Len(Population)], Drawn.taken - 1)
          = (IF c.shuffle THEN Draws[position] ELSE position) % Size
    BY <1>2, <1>3, DrawnRow, Zenon
  <2>3. Len(Population) = Size
    BY <1>2, QuotaAndSize, Zenon
  <2>4. Population' = Population
    BY <1>1, SameConsumer, Zenon
  <2>5. position' - 1 = position
    <3>1. position \in Nat
      BY Zenon DEF WalkInv
    <3> QED BY <1>1, <3>1
  <2>6. last' = Population[((IF c.shuffle THEN Draws[position] ELSE position) % Size) + 1]
    BY <2>1, <2>2, Zenon
  <2> QED BY <1>1, <2>3, <2>4, <2>5, <2>6, Zenon DEF CyclicOrder
<1> QED BY <1>1, <1>2, <1>3, <1>4, <1>5, <1>6, WalkGoesOn, Zenon

\* The transform raises on a sample.
LEMMA WalkTransformFails == WalkInv /\ TransformFails => WalkInv'
<1> SUFFICES ASSUME WalkInv, TransformFails PROVE WalkInv'
  OBVIOUS
<1>1. /\ remaining > 0 /\ ~WindowRefused /\ TakeWindow /\ stream' = Drawn
      /\ remaining' = 0 /\ position' = position + 1 /\ last' = NoRow
      /\ c' = c /\ consumer' = consumer /\ reader' = reader
  BY DEF TransformFails
<1>2. Identity /\ Quota > 0 /\ reader /= "pending"
  BY <1>1, DrawingStep, Zenon
<1>3. PICK i \in Nat, k \in Nat : NextSample(i, k)
  BY <1>1, DrawingStep, Zenon
<1>4. StreamAt(i + 1)' /\ position' \in Nat
  BY <1>1, <1>2, <1>3, StreamDrawn, Zenon
<1>5. remaining' \in Nat
  BY <1>1
<1>6. CyclicOrder'
  BY <1>1 DEF CyclicOrder, NoRow
<1> QED BY <1>1, <1>2, <1>3, <1>4, <1>5, <1>6, WalkGoesOn, Zenon

\* A read raises: the rest of the window is used up.
LEMMA WalkReadFails == WalkInv /\ ReadFails => WalkInv'
<1> SUFFICES ASSUME WalkInv, ReadFails PROVE WalkInv'
  OBVIOUS
<1>1. /\ remaining > 0 /\ ~WindowRefused /\ TakeWindow
      /\ stream' = [Drawn EXCEPT !.status = "dead"]
      /\ remaining' = 0 /\ position' = (position \div Quota + 1) * Quota /\ last' = NoRow
      /\ c' = c /\ consumer' = consumer /\ reader' = reader
  BY DEF ReadFails, Quota
<1>2. Identity /\ Quota > 0 /\ reader /= "pending"
  BY <1>1, DrawingStep, Zenon
<1>3. PICK i \in Nat, k \in Nat : NextSample(i, k)
  BY <1>1, DrawingStep, Zenon
<1>4. Quota \in Nat \ {0} /\ Quota' = Quota
  BY <1>1, <1>2, QuotaAndSize, SameConsumer
<1>5. position \div Quota = i
  <2>1. k \in 1..Quota /\ position = i * Quota + (k - 1)
    BY <1>3, Zenon DEF NextSample
  <2>2. \A s \in Nat \ {0} : \A e \in 0..(s - 1) : (i * s + e) \div s = i
    OBVIOUS
  <2>3. k - 1 \in 0..(Quota - 1)
    BY <1>4, <2>1
  <2> QED BY <1>4, <2>1, <2>2, <2>3, Zenon
<1>6. position' = (i + 1) * Quota /\ position' \in Nat
  <2>1. position' = (i + 1) * Quota
    BY <1>1, <1>5, Zenon
  <2> QED BY <1>4, <2>1
<1>7. stream'.status /= "open"
  <2>1. Drawn = [status |-> "open", start |-> StartAt(i), taken |-> k]
    BY <1>3, Zenon DEF NextSample
  <2> QED BY <1>1, <2>1
<1>8. StreamAt(i + 1)'
  BY <1>4, <1>6, <1>7, Zenon DEF StreamAt
<1>9. remaining' \in Nat
  BY <1>1
<1>10. CyclicOrder'
  BY <1>1 DEF CyclicOrder, NoRow
<1> QED BY <1>1, <1>2, <1>3, <1>6, <1>8, <1>9, <1>10, WalkGoesOn, Zenon

\* The window lies beyond the last draw: nothing is used up.
LEMMA WalkPlanFails == WalkInv /\ PlanFails => WalkInv'
<1> SUFFICES ASSUME WalkInv, PlanFails PROVE WalkInv'
  OBVIOUS
<1>1. /\ remaining > 0 /\ NeedsWindow /\ remaining' = 0 /\ last' = NoRow
      /\ stream' = [FreshStream EXCEPT !.status = "dead"]
      /\ c' = c /\ consumer' = consumer /\ reader' = reader /\ position' = position
      /\ sequentialOffset' = sequentialOffset /\ shuffledDrawOffset' = shuffledDrawOffset
  BY DEF PlanFails, WindowRefused
<1>2. Identity /\ Quota > 0 /\ reader /= "pending" /\ position \in Nat
  BY <1>1, Zenon DEF WalkInv
<1>3. PICK i \in Nat : CursorAt(i) /\ StreamAt(i)
  BY <1>2, Zenon DEF WalkInv
<1>4. Quota' = Quota /\ Size' = Size /\ Identity'
  BY <1>1, <1>2, SameConsumer, Zenon
<1>5. CursorAt(i)'
  BY <1>1, <1>3, <1>4 DEF CursorAt
<1>6. StreamAt(i)'
  <2>1. position = i * Quota
    BY <1>1, <1>2, <1>3, UsedUp, Zenon
  <2>2. stream'.status /= "open"
    BY <1>1 DEF FreshStream
  <2> QED BY <1>1, <1>4, <2>1, <2>2, Zenon DEF StreamAt
<1>7. remaining' \in Nat /\ ~(remaining' > 0) /\ reader' /= "pending" /\ position' \in Nat
  BY <1>1, <1>2
<1>8. CyclicOrder'
  BY <1>1 DEF CyclicOrder, NoRow
<1> QED BY <1>4, <1>5, <1>6, <1>7, <1>8, Zenon DEF WalkInv

\* A new process starts over.
LEMMA WalkReplaceProcess == WalkInv /\ ReplaceProcess => WalkInv'
<1> SUFFICES ASSUME WalkInv, ReplaceProcess PROVE WalkInv'
  OBVIOUS
<1>1. /\ remaining = 0 /\ remaining' = remaining /\ last' = NoRow /\ stream' = FreshStream
      /\ c' = c /\ consumer' = consumer /\ position' = 0
      /\ sequentialOffset' = 0 /\ shuffledDrawOffset' = 0
  BY DEF ReplaceProcess
<1>2. Identity
  BY Zenon DEF WalkInv
<1>3. Quota' = Quota /\ Size' = Size /\ Identity'
  BY <1>1, <1>2, SameConsumer, Zenon
<1>4. Quota' > 0 => \E i \in Nat : CursorAt(i)' /\ StreamAt(i)'
  <2> SUFFICES ASSUME Quota > 0 PROVE CursorAt(0)' /\ StreamAt(0)'
    BY <1>3
  <2>1. Quota \in Nat /\ Size \in Nat \ {0}
    BY <1>2, QuotaAndSize
  <2>2. 0 * Quota = 0 /\ 0 % Size = 0
    BY <2>1
  <2>3. CursorAt(0)'
    BY <1>1, <1>3, <2>2 DEF CursorAt
  <2>4. stream'.status /= "open"
    BY <1>1 DEF FreshStream
  <2>5. StreamAt(0)'
    BY <1>1, <1>3, <2>2, <2>4, Zenon DEF StreamAt
  <2> QED BY <2>3, <2>5
<1>5. remaining' \in Nat /\ ~(remaining' > 0) /\ position' \in Nat
  BY <1>1
<1>6. CyclicOrder'
  BY <1>1 DEF CyclicOrder, NoRow
<1>7. stream' = FreshStream'
  BY <1>1 DEF FreshStream
<1> QED BY <1>3, <1>4, <1>5, <1>6, <1>7, Zenon DEF WalkInv

\* Every step preserves the invariant.
LEMMA WalkNext == WalkInv /\ [Next]_vars => WalkInv'
<1> SUFFICES ASSUME WalkInv, [Next]_vars PROVE WalkInv'
  OBVIOUS
<1>1. remaining \in Nat /\ Identity /\ (remaining > 0 => Quota > 0 /\ reader /= "pending")
  BY Zenon DEF WalkInv
<1>2. CASE BeginPass
  <2>1. /\ c' = c /\ consumer' = consumer /\ position' = position /\ last' = last
        /\ sequentialOffset' = sequentialOffset /\ shuffledDrawOffset' = shuffledDrawOffset
        /\ remaining' = Quota /\ reader' /= "pending"
        /\ stream' = IF reader = "pending" THEN FreshStream ELSE stream
    BY <1>2 DEF BeginPass, Quota
  <2>2. stream' = stream
    BY <2>1, Zenon DEF WalkInv
  <2>3. remaining' \in Nat /\ (remaining' > 0 => Quota > 0 /\ reader' /= "pending")
    BY <1>1, <2>1, QuotaAndSize
  <2> QED BY <2>1, <2>2, <2>3, WalkStands, Zenon
<1>3. CASE Abandon
  <2>1. /\ c' = c /\ consumer' = consumer /\ position' = position /\ last' = last
        /\ sequentialOffset' = sequentialOffset /\ shuffledDrawOffset' = shuffledDrawOffset
        /\ remaining' = 0 /\ reader' = reader /\ stream' = stream
    BY <1>3 DEF Abandon
  <2>2. remaining' \in Nat /\ ~(remaining' > 0)
    BY <2>1
  <2> QED BY <2>1, <2>2, WalkStands, Zenon
<1>4. CASE UNCHANGED vars
  <2>1. /\ c' = c /\ consumer' = consumer /\ position' = position /\ last' = last
        /\ sequentialOffset' = sequentialOffset /\ shuffledDrawOffset' = shuffledDrawOffset
        /\ remaining' = remaining /\ reader' = reader /\ stream' = stream
    BY <1>4 DEF vars
  <2>2. remaining' \in Nat /\ (remaining' > 0 => Quota > 0 /\ reader' /= "pending")
    BY <1>1, <2>1, Zenon
  <2> QED BY <2>1, <2>2, WalkStands, Zenon
<1> QED BY <1>2, <1>3, <1>4, WalkDeliver, WalkTransformFails, WalkReadFails, WalkPlanFails,
           WalkReplaceProcess, Zenon DEF Next

-----------------------------------------------------------------------------
(* Theorems *)

\* A consumer's request is always one that make_dataloader accepts.
LEMMA WalkRequest == WalkInv => IsRequest(c)
BY ReaderLoaderAssumption, Zenon DEF WalkInv, Identity

\* For every dataset size, number of ranks and workers, batch size and epoch
\* length: the plans the ranks compute independently in prepare_partitions divide
\* the rows without overlap and without gap.
THEOREM PlansAlwaysTile == Spec => []PlansTile
<1>1. WalkInv => PlansTile
  BY WalkRequest, PlansFit, Zenon
<1> QED BY <1>1, WalkInit, WalkNext, PTL DEF Spec

\* For every request, len(loader) is the number of batches that the workers form,
\* and all ranks have the same number.
THEOREM LengthAlwaysExact == Spec => []LengthExact
<1>1. WalkInv => LengthExact
  BY WalkRequest, LengthsAgree, Zenon
<1> QED BY <1>1, WalkInit, WalkNext, PTL DEF Spec

\* For every request and every number of passes, abandoned passes and failures: the
\* consumer walks one endless sequence, in cyclic order or in the order of the
\* draws.
THEOREM WalkKeepsOrder == Spec => []CyclicOrder
<1>1. WalkInv => CyclicOrder
  BY Zenon DEF WalkInv
<1> QED BY <1>1, WalkInit, WalkNext, PTL DEF Spec

=============================================================================
