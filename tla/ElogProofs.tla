------------------------------ MODULE ElogProofs ------------------------------
(***************************************************************************)
(* Proofs about Elog: the ring buffer hands on byte by byte what it took   *)
(* in, for every size of buffer, poll and line and any number of threads,  *)
(* and the table of tag levels keeps its form and its promise.             *)
(***************************************************************************)
EXTENDS Elog, Integers, SequenceTheorems, FiniteSetTheorems, TLAPS

Bytes == Nat \X Nat

\* The two indices, the two flags, and what they say together.
RingShape ==
    /\ cells = [k \in Index |-> cells[k]]
    /\ writeIndex \in Index /\ readIndex \in Index
    /\ full \in BOOLEAN /\ empty \in BOOLEAN
    /\ RingOK

\* Where the bytes of the three histories are.
Flow ==
    /\ accepted \in Seq(Bytes) /\ printed \in Seq(Bytes) /\ batch \in Seq(Bytes)
    /\ reader # "print" => batch = <<>>
    /\ Fifo

RingInv == RingShape /\ Flow

LEMMA IndexArithmetic ==
    /\ BufSize \in Nat /\ BufSize > 0 /\ PollSize \in Nat /\ PollSize > 0
    /\ \A i \in Index : i \in Nat /\ i < BufSize
    /\ \A i \in Nat : i < BufSize => i \in Index
BY BufferAssumption DEF Index

LEMMA ConcatBytes ==
    ASSUME NEW s \in Seq(Bytes), NEW t \in Seq(Bytes)
    PROVE  /\ s \o t \in Seq(Bytes) /\ Len(s \o t) = Len(s) + Len(t)
           /\ \A i \in 1 .. Len(s) : (s \o t)[i] = s[i]
           /\ \A i \in 1 .. Len(t) : (s \o t)[Len(s) + i] = t[i]
<1>1. /\ s \o t \in Seq(Bytes) /\ Len(s \o t) = Len(s) + Len(t)
      /\ \A i \in 1 .. Len(s) + Len(t) :
            (s \o t)[i] = IF i <= Len(s) THEN s[i] ELSE t[i - Len(s)]
  BY ConcatProperties
<1>2. Len(s) \in Nat /\ Len(t) \in Nat
  OBVIOUS
<1>3. ASSUME NEW i \in 1 .. Len(t) PROVE (s \o t)[Len(s) + i] = t[i]
  <2>1. /\ Len(s) + i \in 1 .. Len(s) + Len(t) /\ ~(Len(s) + i <= Len(s))
        /\ (Len(s) + i) - Len(s) = i
    BY <1>2
  <2>2. QED
    BY <1>1, <2>1
<1>4. ASSUME NEW i \in 1 .. Len(s) PROVE (s \o t)[i] = s[i]
  BY <1>1, <1>2
<1>5. QED
  BY <1>1, <1>3, <1>4

-----------------------------------------------------------------------------
(* Arithmetic around the buffer's wrap. *)

LEMMA AdvanceInIndex ==
    ASSUME NEW i \in Index, NEW n \in 0 .. BufSize
    PROVE  Advance(i, n) \in Index
BY IndexArithmetic DEF Advance, Index

LEMMA AdvanceTwice ==
    ASSUME NEW i \in Index, NEW m \in 0 .. BufSize, NEW n \in 0 .. BufSize,
           m + n <= BufSize
    PROVE  Advance(Advance(i, m), n) = Advance(i, m + n)
BY IndexArithmetic DEF Advance, Index

\* How the two indices and the flags go together.
LEMMA UsedCases ==
    ASSUME RingShape
    PROVE  \/ writeIndex > readIndex /\ ~full /\ Used = writeIndex - readIndex
           \/ writeIndex = readIndex /\ full /\ Used = BufSize
           \/ writeIndex = readIndex /\ ~full /\ Used = 0
           \/ writeIndex < readIndex /\ ~full
              /\ Used = BufSize - (readIndex - writeIndex)
<1>1. writeIndex \in Nat /\ readIndex \in Nat /\ BufSize \in Nat
  BY IndexArithmetic DEF RingShape
<1>2. CASE writeIndex = readIndex
  <2>1. ~(writeIndex > readIndex) /\ BufSize - (readIndex - writeIndex) = BufSize
    BY <1>1, <1>2
  <2>2. full # empty /\ full \in BOOLEAN /\ empty \in BOOLEAN
    BY <1>2 DEF RingShape, RingOK
  <2>3. full \/ (~full /\ empty)
    BY <2>2, Zenon
  <2>4. QED
    BY <1>2, <2>1, <2>3 DEF Used
<1>3. CASE writeIndex # readIndex
  <2>1. ~full /\ ~empty
    BY <1>3 DEF RingShape, RingOK
  <2>2. QED
    BY <1>1, <1>3, <2>1 DEF Used
<1>4. QED
  BY <1>2, <1>3

LEMMA UsedRange ==
    ASSUME RingShape
    PROVE  /\ Used \in 0 .. BufSize /\ Space \in 0 .. BufSize
           /\ Space = 0 <=> full
           /\ Advance(readIndex, Used) = writeIndex
<1>1. /\ writeIndex \in Nat /\ readIndex \in Nat /\ BufSize \in Nat
      /\ writeIndex < BufSize /\ readIndex < BufSize
  BY IndexArithmetic DEF RingShape
<1>2. Used \in 0 .. BufSize /\ Space \in 0 .. BufSize
  BY <1>1, UsedCases DEF Space
<1>3. (Space = 0) <=> full
  <2> HIDE DEF Used
  <2>1. (Used = BufSize) <=> full
    BY <1>1, UsedCases
  <2>2. (Space = 0) <=> (Used = BufSize)
    BY <1>1, <1>2 DEF Space
  <2>3. QED
    BY <2>1, <2>2
<1>4. Advance(readIndex, Used) = writeIndex
  BY <1>1, UsedCases DEF Advance
<1>5. QED
  BY <1>2, <1>3, <1>4

\* The position j places behind the write index is the j-th to be written, and
\* those that hold what has not been read yet are not among them.
LEMMA BehindAdvance ==
    ASSUME NEW w \in Index, NEW j \in Nat, j < BufSize
    PROVE  Behind(Advance(w, j), w) = j
BY IndexArithmetic DEF Advance, Behind, Index

LEMMA BehindKept ==
    ASSUME NEW r \in Index, NEW u \in 0 .. BufSize, NEW j \in Nat, j < u
    PROVE  Behind(Advance(r, j), Advance(r, u)) >= BufSize - u
BY IndexArithmetic DEF Advance, Behind, Index

-----------------------------------------------------------------------------
(* async_put_log *)

LEMMA PutShape ==
    ASSUME RingShape, NEW log \in Seq(Bytes), Len(log) > 0, Put(log), Space # 0
    PROVE  /\ RingShape'
           /\ PutSize(log) \in 1 .. Len(log) /\ PutSize(log) <= Space
           /\ Used' = Used + PutSize(log)
<1> DEFINE n == PutSize(log)
<1>1. /\ Len(log) \in Nat /\ BufSize \in Nat
      /\ writeIndex \in Nat /\ readIndex \in Nat
      /\ writeIndex < BufSize /\ readIndex < BufSize
  BY IndexArithmetic DEF RingShape
<1>2. n \in Nat /\ 0 < n /\ n <= Len(log) /\ n <= Space /\ n <= BufSize
  BY <1>1, UsedRange, IndexArithmetic DEF PutSize
<1>3. /\ full' = (full \/ Space <= Len(log)) /\ empty' = FALSE
      /\ cells' = Written(log, n)
      /\ writeIndex' = Advance(writeIndex, n) /\ readIndex' = readIndex
  BY DEF Put
<1>4. ~full /\ (Space <= Len(log) <=> n = Space)
  BY <1>1, UsedRange DEF PutSize
<1>5. full' <=> n = Space
  BY <1>3, <1>4
<1>6. full' \in BOOLEAN /\ empty' \in BOOLEAN
  BY <1>3, Zenon
<1> HIDE DEF n
<1>7. writeIndex' \in Index
  BY <1>2, <1>3, AdvanceInIndex DEF RingShape
<1>8. writeIndex' \in Nat /\ writeIndex' < BufSize
  BY <1>7, IndexArithmetic
<1>9. /\ (writeIndex' = readIndex') <=> n = Space
      /\ writeIndex' > readIndex' => Used + n = writeIndex' - readIndex'
      /\ writeIndex' < readIndex' => Used + n = BufSize - (readIndex' - writeIndex')
      /\ n = Space => Used + n = BufSize
  <2>1. CASE writeIndex + n < BufSize
    <3>1. writeIndex' = writeIndex + n
      BY <1>3, <2>1 DEF Advance
    <3>2. QED
      BY <1>1, <1>2, <1>3, <1>4, <3>1, <2>1, UsedCases DEF Space
  <2>2. CASE writeIndex + n >= BufSize
    <3>1. writeIndex' = writeIndex + n - BufSize
      BY <1>1, <1>2, <1>3, <2>2 DEF Advance
    <3>2. QED
      BY <1>1, <1>2, <1>3, <1>4, <3>1, <2>2, UsedCases DEF Space
  <2>3. QED
    BY <1>1, <1>2, <2>1, <2>2
<1>10. RingOK'
  <2>1. empty' = FALSE /\ (full' <=> writeIndex' = readIndex')
    BY <1>3, <1>5, <1>9
  <2>2. full' # empty' \/ (~full' /\ ~empty')
    BY <1>6, <2>1, Zenon
  <2>3. full' => full' # empty'
    BY <1>6, <2>1, Zenon
  <2>4. QED
    BY <2>1, <2>3 DEF RingOK
<1>11. Used' = Used + n
  <2>1. CASE n = Space
    BY <1>1, <1>5, <1>8, <1>9, <2>1 DEF Used
  <2>2. CASE n # Space
    <3>1. ~full' /\ ~empty' /\ writeIndex' # readIndex' /\ readIndex' \in Nat
      BY <1>1, <1>3, <1>5, <1>9, <2>2
    <3>2. CASE writeIndex' > readIndex'
      <4>1. Used' = writeIndex' - readIndex'
        BY <3>2 DEF Used
      <4>2. QED
        BY <1>9, <3>2, <4>1
    <3>3. CASE writeIndex' < readIndex'
      <4>1. Used' = BufSize - (readIndex' - writeIndex')
        BY <1>8, <3>1, <3>3 DEF Used
      <4>2. QED
        BY <1>9, <3>3, <4>1
    <3>4. QED
      BY <1>8, <3>1, <3>2, <3>3
  <2>3. QED
    BY <2>1, <2>2
<1>12. cells' = [k \in Index |-> cells'[k]]
  BY <1>3 DEF Written
<1>13. QED
  BY <1>2, <1>3, <1>6, <1>7, <1>10, <1>11, <1>12 DEF RingShape, n

LEMMA PutFlow ==
    ASSUME RingInv, NEW log \in Seq(Bytes), Len(log) > 0, Put(log),
           UNCHANGED <<printed, batch, reader>>
    PROVE  RingInv'
<1>1. CASE Space = 0
  <2>1. UNCHANGED <<cells, writeIndex, readIndex, full, empty, accepted>>
    BY <1>1 DEF Put, ring
  <2>2. QED
    BY <2>1 DEF RingInv, RingShape, RingOK, Flow, Fifo, Used
<1>2. CASE Space # 0
  <2> DEFINE n == PutSize(log)
  <2> DEFINE before == Len(printed) + Len(batch)
  <2>1. /\ RingShape'
        /\ n \in 1 .. Len(log) /\ n <= Space /\ Used' = Used + n
    BY <1>2, PutShape DEF RingInv
  <2>2. /\ cells' = Written(log, n) /\ readIndex' = readIndex
        /\ writeIndex' = Advance(writeIndex, n)
        /\ accepted' = accepted \o SubSeq(log, 1, n)
    BY <1>2 DEF Put
  <2>3. /\ Used \in 0 .. BufSize /\ Used + n <= BufSize
        /\ Advance(readIndex, Used) = writeIndex
        /\ readIndex \in Index /\ writeIndex \in Index
        /\ Len(log) \in Nat /\ n \in Nat /\ BufSize \in Nat
    BY <2>1, UsedRange, IndexArithmetic DEF RingInv, RingShape, Space
  <2>0. printed' = printed /\ batch' = batch /\ reader' = reader
    OBVIOUS
  <2>4. /\ before \in Nat /\ Len(printed) \in Nat /\ Len(batch) \in Nat
        /\ before + Used = Len(accepted)
    BY DEF RingInv, Flow, Fifo
  <2> HIDE DEF n, before
  <2>5. /\ SubSeq(log, 1, n) \in Seq(Bytes) /\ Len(SubSeq(log, 1, n)) = n
        /\ \A i \in 1 .. n : SubSeq(log, 1, n)[i] = log[i]
    BY <2>1, <2>3
  <2>6. /\ accepted' \in Seq(Bytes) /\ Len(accepted') = Len(accepted) + n
        /\ \A i \in 1 .. Len(accepted) : accepted'[i] = accepted[i]
        /\ \A i \in 1 .. n : accepted'[Len(accepted) + i] = log[i]
    <3> DEFINE part == SubSeq(log, 1, n)
    <3>1. accepted \in Seq(Bytes)
      BY DEF RingInv, Flow
    <3>2. part \in Seq(Bytes) /\ Len(part) = n /\ \A i \in 1 .. n : part[i] = log[i]
      BY <2>5
    <3>3. accepted' = accepted \o part
      BY <2>2
    <3> HIDE DEF part
    <3>4. QED
      BY <2>3, <3>1, <3>2, <3>3, ConcatBytes
  <2>7. ASSUME NEW i \in 1 .. Used
        PROVE  cells'[Advance(readIndex', i - 1)] = accepted'[before + i]
    <3>1. i - 1 \in Nat /\ i - 1 < Used /\ i - 1 \in 0 .. BufSize
      BY <2>3
    <3>2. Advance(readIndex, i - 1) \in Index
      BY <2>3, <3>1, AdvanceInIndex
    <3>3. Behind(Advance(readIndex, i - 1), writeIndex) >= BufSize - Used
      BY <2>3, <3>1, BehindKept
    <3>4. Behind(Advance(readIndex, i - 1), writeIndex) \in Int
      BY <2>3, <3>2, IndexArithmetic DEF Behind
    <3>5. cells'[Advance(readIndex, i - 1)] = cells[Advance(readIndex, i - 1)]
      <4> DEFINE k == Advance(readIndex, i - 1)
      <4>1. ~(Behind(k, writeIndex) < n)
        BY <2>3, <3>3, <3>4
      <4> HIDE DEF k
      <4>2. k \in Index => cells'[k] = cells[k]
        BY <2>2, <4>1 DEF Written
      <4>3. QED
        BY <3>2, <4>2 DEF k
    <3>6. cells[Advance(readIndex, i - 1)] = accepted[before + i]
      BY DEF RingInv, Flow, Fifo, before
    <3>7. before + i \in 1 .. Len(accepted)
      BY <2>3, <2>4
    <3>8. QED
      BY <2>2, <2>6, <3>5, <3>6, <3>7
  <2>8. ASSUME NEW i \in Used + 1 .. Used + n
        PROVE  cells'[Advance(readIndex', i - 1)] = accepted'[before + i]
    <3> DEFINE j == i - 1 - Used
    <3>1. j \in Nat /\ j < n /\ j < BufSize /\ j \in 0 .. BufSize /\ i - 1 = Used + j
      BY <2>3
    <3>2. Advance(readIndex, i - 1) = Advance(writeIndex, j)
      <4>1. Used + j <= BufSize
        BY <2>3, <3>1
      <4> HIDE DEF j
      <4>2. Advance(Advance(readIndex, Used), j) = Advance(readIndex, Used + j)
        BY <2>3, <3>1, <4>1, AdvanceTwice
      <4>3. QED
        BY <2>3, <3>1, <4>2
    <3> HIDE DEF j
    <3>3. Advance(writeIndex, j) \in Index
      BY <2>3, <3>1, AdvanceInIndex
    <3>4. Behind(Advance(writeIndex, j), writeIndex) = j
      BY <2>3, <3>1, BehindAdvance
    <3>5. cells'[Advance(writeIndex, j)] = log[j + 1]
      <4> DEFINE k == Advance(writeIndex, j)
      <4>1. k \in Index /\ Behind(k, writeIndex) = j
        BY <3>3, <3>4
      <4> HIDE DEF k
      <4>2. cells'[k] = log[j + 1]
        BY <2>2, <3>1, <4>1 DEF Written
      <4>3. QED
        BY <4>2 DEF k
    <3>6. before + i = Len(accepted) + (j + 1) /\ j + 1 \in 1 .. n
      BY <2>3, <2>4, <3>1
    <3>7. QED
      BY <2>2, <2>6, <3>2, <3>5, <3>6
  <2>9. Fifo'
    <3>1. Len(printed)' + Len(batch)' + Used' = Len(accepted)'
      <4>1. Len(printed)' = Len(printed) /\ Len(batch)' = Len(batch)
        BY <2>0
      <4>2. Used' = Used + n /\ Len(accepted)' = Len(accepted) + n /\ Used \in Nat
        BY <2>1, <2>3, <2>6
      <4> HIDE DEF Used
      <4>3. QED
        BY <2>3, <2>4, <4>1, <4>2 DEF before
    <3>2. ASSUME NEW i \in 1 .. Len(printed) PROVE printed[i] = accepted'[i]
      <4>1. i \in 1 .. Len(accepted)
        BY <2>3, <2>4 DEF before
      <4>2. printed[i] = accepted[i]
        BY DEF RingInv, Flow, Fifo
      <4>3. QED
        BY <2>6, <4>1, <4>2
    <3>4. ASSUME NEW i \in 1 .. Len(batch) PROVE batch[i] = accepted'[Len(printed) + i]
      <4>1. Len(printed) + i \in 1 .. Len(accepted)
        BY <2>3, <2>4 DEF before
      <4>2. batch[i] = accepted[Len(printed) + i]
        BY DEF RingInv, Flow, Fifo
      <4>3. QED
        BY <2>6, <4>1, <4>2
    <3>3. \A i \in 1 .. Used' : cells'[Advance(readIndex', i - 1)] = accepted'[before + i]
      BY <2>1, <2>3, <2>7, <2>8
    <3>5. QED
      BY <2>0, <3>1, <3>2, <3>3, <3>4 DEF Fifo, before, Advance
  <2>10. QED
    BY <2>0, <2>1, <2>6, <2>9 DEF RingInv, Flow
<1>3. QED
  BY <1>1, <1>2

-----------------------------------------------------------------------------
(* elog_async_get_log and the output of what it has taken *)

LEMMA TakeShape ==
    ASSUME RingShape, Used > 0, Take
    PROVE  /\ RingShape'
           /\ GetSize \in 1 .. Used /\ Used' = Used - GetSize
           /\ readIndex' = Advance(readIndex, GetSize)
<1> DEFINE n == GetSize
<1>1. /\ writeIndex \in Nat /\ readIndex \in Nat /\ BufSize \in Nat
      /\ writeIndex < BufSize /\ readIndex < BufSize
      /\ Used \in 0 .. BufSize /\ readIndex \in Index
  BY IndexArithmetic, UsedRange DEF RingShape
<1>2. n \in 1 .. Used /\ n \in 0 .. BufSize
  BY <1>1, IndexArithmetic DEF GetSize
<1>3. /\ empty' = (empty \/ Used <= PollSize) /\ full' = FALSE
      /\ cells' = cells /\ writeIndex' = writeIndex
      /\ readIndex' = Advance(readIndex, n)
  BY DEF Take
<1>4. ~empty
  <2>1. CASE writeIndex = readIndex
    <3>1. full
      BY <1>1, <2>1, UsedCases
    <3>2. full # empty /\ full \in BOOLEAN /\ empty \in BOOLEAN
      BY <2>1 DEF RingShape, RingOK
    <3>3. QED
      BY <3>1, <3>2, Zenon
  <2>2. CASE writeIndex # readIndex
    BY <2>2 DEF RingShape, RingOK
  <2>3. QED
    BY <2>1, <2>2
<1>5. (empty' <=> n = Used) /\ empty' \in BOOLEAN /\ full' \in BOOLEAN
  <2>1. Used <= PollSize <=> n = Used
    BY <1>1, IndexArithmetic DEF GetSize
  <2>2. empty' <=> n = Used
    BY <1>3, <1>4, <2>1
  <2>3. empty' \in BOOLEAN /\ full' \in BOOLEAN
    BY <1>3, Zenon
  <2>4. QED
    BY <2>2, <2>3
<1> HIDE DEF n
<1>6. readIndex' \in Index
  BY <1>1, <1>2, <1>3, AdvanceInIndex
<1>7. readIndex' \in Nat /\ readIndex' < BufSize
  BY <1>6, IndexArithmetic
<1>8. /\ (writeIndex' = readIndex') <=> n = Used
      /\ writeIndex' > readIndex' => Used - n = writeIndex' - readIndex'
      /\ writeIndex' < readIndex' => Used - n = BufSize - (readIndex' - writeIndex')
  <2>1. CASE readIndex + n < BufSize
    <3>1. readIndex' = readIndex + n
      BY <1>3, <2>1 DEF Advance
    <3>2. QED
      BY <1>1, <1>2, <1>3, <3>1, <2>1, UsedCases
  <2>2. CASE readIndex + n >= BufSize
    <3>1. readIndex' = readIndex + n - BufSize
      BY <1>1, <1>2, <1>3, <2>2 DEF Advance
    <3>2. QED
      BY <1>1, <1>2, <1>3, <3>1, <2>2, UsedCases
  <2>3. QED
    BY <1>1, <1>2, <2>1, <2>2
<1>9. RingOK'
  <2>1. ~full' /\ (empty' <=> writeIndex' = readIndex')
    BY <1>3, <1>5, <1>8
  <2>2. empty' => full' # empty'
    BY <1>5, <2>1, Zenon
  <2>3. QED
    BY <2>1, <2>2 DEF RingOK
<1>10. Used' = Used - n
  <2>1. ~full'
    BY <1>3
  <2>2. CASE writeIndex' > readIndex'
    <3>1. Used' = writeIndex' - readIndex'
      BY <2>2 DEF Used
    <3>2. QED
      BY <1>8, <2>2, <3>1
  <2>3. CASE writeIndex' = readIndex'
    <3>1. empty' /\ n = Used /\ ~(writeIndex' > readIndex')
      BY <1>1, <1>3, <1>5, <1>8, <2>3
    <3>2. Used' = 0
      BY <2>1, <3>1 DEF Used
    <3>3. QED
      BY <1>1, <3>1, <3>2
  <2>4. CASE writeIndex' < readIndex'
    <3>1. ~empty' /\ ~(writeIndex' > readIndex')
      BY <1>1, <1>3, <1>5, <1>7, <1>8, <2>4
    <3>2. Used' = BufSize - (readIndex' - writeIndex')
      BY <2>1, <3>1 DEF Used
    <3>3. QED
      BY <1>8, <2>4, <3>2
  <2>5. writeIndex' \in Nat
    BY <1>1, <1>3
  <2>6. QED
    BY <1>7, <2>2, <2>3, <2>4, <2>5
<1>11. QED
  BY <1>1, <1>2, <1>3, <1>5, <1>6, <1>9, <1>10 DEF RingShape, n

LEMMA TakeFlow ==
    ASSUME RingInv, reader = "get", Used > 0, Take, reader' = "print",
           accepted' = accepted, printed' = printed
    PROVE  RingInv'
<1> DEFINE n == GetSize
<1>1. /\ RingShape' /\ n \in 1 .. Used /\ Used' = Used - n
      /\ readIndex' = Advance(readIndex, n) /\ cells' = cells
  BY TakeShape DEF RingInv, Take
<1>2. /\ Used \in 0 .. BufSize /\ BufSize \in Nat /\ readIndex \in Index
  BY UsedRange, IndexArithmetic DEF RingInv, RingShape
<1>3. /\ accepted \in Seq(Bytes) /\ printed \in Seq(Bytes) /\ batch = <<>>
      /\ Len(printed) \in Nat /\ Len(batch) = 0
  BY DEF RingInv, Flow
<1>4. Len(printed) + Used = Len(accepted)
  <2>1. Len(printed) + Len(batch) + Used = Len(accepted)
    BY DEF RingInv, Flow, Fifo
  <2> HIDE DEF Used
  <2>2. QED
    BY <1>2, <1>3, <2>1
<1>5. ASSUME NEW i \in 1 .. Used
      PROVE  /\ cells[Advance(readIndex, i - 1)] = accepted[Len(printed) + i]
             /\ Len(printed) + i \in 1 .. Len(accepted)
  <2>1. cells[Advance(readIndex, i - 1)] = accepted[Len(printed) + Len(batch) + i]
    BY DEF RingInv, Flow, Fifo
  <2>2. Len(printed) + Len(batch) + i = Len(printed) + i
    BY <1>2, <1>3
  <2>3. QED
    BY <1>2, <1>3, <1>4, <2>1, <2>2
<1>6. batch' = [i \in 1 .. n |-> cells[Advance(readIndex, i - 1)]]
  BY DEF Take
<1> HIDE DEF n
<1>7. ASSUME NEW i \in 1 .. n
      PROVE  batch'[i] = accepted[Len(printed) + i] /\ batch'[i] \in Bytes
  <2>1. i \in 1 .. Used
    BY <1>1, <1>2
  <2>2. accepted[Len(printed) + i] \in Bytes
    BY <1>3, <1>5, <2>1
  <2>3. QED
    BY <1>5, <1>6, <2>1, <2>2
<1>8. batch' \in Seq(Bytes) /\ Len(batch)' = n
  <2>1. n \in Nat /\ batch' \in [1 .. n -> Bytes]
    BY <1>1, <1>2, <1>6, <1>7
  <2>2. QED
    BY <2>1
<1>9. ASSUME NEW i \in 1 .. Used'
      PROVE  cells'[Advance(readIndex', i - 1)] = accepted'[Len(printed)' + Len(batch)' + i]
  <2>1. /\ i + n \in 1 .. Used /\ n \in 0 .. BufSize /\ i - 1 \in 0 .. BufSize
        /\ n + (i - 1) <= BufSize /\ n + (i - 1) = (i + n) - 1
        /\ Len(printed) + (i + n) = Len(printed) + n + i
    BY <1>1, <1>2, <1>3
  <2>2. Advance(readIndex', i - 1) = Advance(readIndex, (i + n) - 1)
    BY <1>1, <1>2, <2>1, AdvanceTwice
  <2>3. cells[Advance(readIndex, (i + n) - 1)] = accepted[Len(printed) + (i + n)]
    BY <1>5, <2>1
  <2>4. QED
    BY <1>1, <1>8, <2>1, <2>2, <2>3
<1>10. Len(printed)' + Len(batch)' + Used' = Len(accepted)'
  BY <1>1, <1>2, <1>3, <1>4, <1>8
<1>11. \A i \in 1 .. Len(printed)' : printed'[i] = accepted'[i]
  BY DEF RingInv, Flow, Fifo
<1>12. \A i \in 1 .. Len(batch)' : batch'[i] = accepted'[Len(printed)' + i]
  BY <1>7, <1>8
<1>13. Fifo'
  BY <1>9, <1>10, <1>11, <1>12 DEF Fifo, Advance
<1>14. QED
  BY <1>1, <1>3, <1>8, <1>13 DEF RingInv, Flow

LEMMA PrintFlow ==
    ASSUME RingInv, reader' # "print", printed' = printed \o batch, batch' = <<>>,
           UNCHANGED <<ring, accepted>>
    PROVE  RingInv'
<1>1. /\ cells' = cells /\ readIndex' = readIndex /\ writeIndex' = writeIndex
      /\ full' = full /\ empty' = empty /\ accepted' = accepted
  BY DEF ring
<1>2. RingShape' /\ Used' = Used
  BY <1>1 DEF RingInv, RingShape, RingOK, Used
<1>3. /\ accepted \in Seq(Bytes) /\ printed \in Seq(Bytes) /\ batch \in Seq(Bytes)
      /\ Len(printed) \in Nat /\ Len(batch) \in Nat
  BY DEF RingInv, Flow
<1>4. /\ printed' \in Seq(Bytes) /\ Len(printed') = Len(printed) + Len(batch)
      /\ \A i \in 1 .. Len(printed) : printed'[i] = printed[i]
      /\ \A i \in 1 .. Len(batch) : printed'[Len(printed) + i] = batch[i]
  BY <1>3, ConcatBytes
<1>5. /\ \A i \in 1 .. Len(printed) : printed[i] = accepted[i]
      /\ \A i \in 1 .. Len(batch) : batch[i] = accepted[Len(printed) + i]
      /\ \A i \in 1 .. Used :
           cells[Advance(readIndex, i - 1)] = accepted[Len(printed) + Len(batch) + i]
      /\ Len(printed) + Len(batch) + Used = Len(accepted)
  BY DEF RingInv, Flow, Fifo
<1>6. ASSUME NEW i \in 1 .. Len(printed') PROVE printed'[i] = accepted'[i]
  <2>1. CASE i <= Len(printed)
    BY <1>1, <1>3, <1>4, <1>5, <2>1
  <2>2. CASE i > Len(printed)
    <3>1. i - Len(printed) \in 1 .. Len(batch) /\ Len(printed) + (i - Len(printed)) = i
      BY <1>3, <1>4, <2>2
    <3>2. QED
      BY <1>1, <1>4, <1>5, <3>1
  <2>3. QED
    BY <1>3, <1>4, <2>1, <2>2
<1>7. batch' \in Seq(Bytes) /\ Len(batch') = 0
  OBVIOUS
<1>8. Len(printed') + Len(batch') = Len(printed) + Len(batch)
  BY <1>3, <1>4, <1>7
<1>9. Fifo'
  <2>1. Len(printed') + Len(batch') + Used' = Len(accepted')
    BY <1>1, <1>2, <1>5, <1>8
  <2>2. \A i \in 1 .. Len(batch') : batch'[i] = accepted'[Len(printed') + i]
    BY <1>7
  <2>3. \A i \in 1 .. Used' :
          cells'[Advance(readIndex', i - 1)] = accepted'[Len(printed') + Len(batch') + i]
    BY <1>1, <1>2, <1>5, <1>8
  <2>4. QED
    BY <1>6, <2>1, <2>2, <2>3 DEF Fifo, Advance
<1>10. QED
  BY <1>1, <1>2, <1>3, <1>4, <1>7, <1>9 DEF RingInv, Flow

LEMMA RingKept ==
    ASSUME RingInv, UNCHANGED <<ring, accepted, printed, batch>>,
           reader = "print" => reader' = "print"
    PROVE  RingInv'
<1>1. /\ cells' = cells /\ readIndex' = readIndex /\ writeIndex' = writeIndex
      /\ full' = full /\ empty' = empty /\ accepted' = accepted
      /\ printed' = printed /\ batch' = batch
  BY DEF ring
<1>2. RingShape' /\ Used' = Used
  BY <1>1 DEF RingInv, RingShape, RingOK, Used
<1>3. Fifo'
  BY <1>1, <1>2 DEF RingInv, Flow, Fifo, Advance
<1>4. QED
  BY <1>1, <1>2, <1>3 DEF RingInv, Flow

-----------------------------------------------------------------------------
(* The specification. *)

\* The invariant: the buffer's, and what its steps need to know of the rest.
Counts ==
    /\ logs \in Nat /\ notice \in Nat
    /\ pc \in [Threads -> {"idle", "output", "notice"}]

ElogInv == RingInv /\ Counts

LEMMA CountsKept ==
    ASSUME Counts, [ElogNext]_allVars
    PROVE  Counts'
<1>1. CASE \E t \in Threads : Emit(t) \/ OutputStep(t)
  <2> PICK t \in Threads : Emit(t) \/ OutputStep(t)
    BY <1>1
  <2>1. CASE Emit(t)
    BY <2>1 DEF Emit, Step, asyncVars, Counts
  <2>2. CASE OutputDirect(t)
    BY <2>2 DEF OutputDirect, Finish, asyncVars, Counts
  <2>3. CASE OutputBuffered(t)
    BY <2>3 DEF OutputBuffered, Finish, Step, Counts
  <2>4. CASE Notify(t)
    BY <2>4 DEF Notify, Finish, Counts
  <2>5. QED
    BY <2>1, <2>2, <2>3, <2>4 DEF OutputStep
<1>2. CASE ReaderStep /\ UNCHANGED <<table, elogVars>>
  BY <1>2 DEF ReaderStep, ReaderTest, ReaderWait, ReaderGet, ReaderPrint, elogVars, Counts
<1>3. CASE AppCall \/ DeinitReturn \/ DeinitCrash
  <2>1. logs' = logs /\ pc' = pc
    BY <1>3 DEF AppCall, InitLogger, StartLogger, StopLogger, SwitchToDirect, SetTagLevel,
                Deinit, DeinitReturn, DeinitCrash, elogVars
  <2>2. notice' \in Nat
    BY <1>3 DEF AppCall, InitLogger, StartLogger, StopLogger, SwitchToDirect, SetTagLevel,
                Deinit, DeinitReturn, DeinitCrash, StartReader, StopReader, AsyncEnabled,
                ReaderJoined, AbsentJoined, asyncVars, Counts
  <2>3. QED
    BY <2>1, <2>2 DEF Counts
<1>4. CASE UNCHANGED allVars
  BY <1>4 DEF allVars, asyncVars, elogVars, Counts
<1>5. QED
  BY <1>1, <1>2, <1>3, <1>4 DEF ElogNext

LEMMA LineIsBytes ==
    ASSUME Counts, NEW n \in Sizes
    PROVE  Line(n) \in Seq(Bytes) /\ Len(Line(n)) > 0
<1>1. n \in Nat /\ n > 0
  BY ElogAssumption
<1>2. \A i \in 1 .. n : <<logs + 1, i>> \in Bytes
  BY DEF Counts, Bytes
<1>3. Line(n) \in [1 .. n -> Bytes]
  BY <1>2 DEF Line
<1>4. QED
  BY <1>1, <1>3

LEMMA RingPreserved ==
    ASSUME ElogInv, [ElogNext]_allVars
    PROVE  RingInv'
<1> USE DEF ElogInv
<1>1. ASSUME NEW t \in Threads, Emit(t) \/ OutputDirect(t) \/ Notify(t)
      PROVE  RingInv'
  <2>1. UNCHANGED <<ring, accepted, printed, batch, reader>>
    BY <1>1 DEF Emit, OutputDirect, Notify, asyncVars
  <2>2. QED
    BY <2>1, RingKept
<1>2. ASSUME NEW t \in Threads, OutputBuffered(t)
      PROVE  RingInv'
  <2>1. PICK n \in Sizes : Put(Line(n))
    BY <1>2 DEF OutputBuffered
  <2>2. UNCHANGED <<printed, batch, reader>>
    BY <1>2 DEF OutputBuffered
  <2>3. Line(n) \in Seq(Bytes) /\ Len(Line(n)) > 0
    BY LineIsBytes
  <2>4. QED
    BY <2>1, <2>2, <2>3, PutFlow
<1>3. CASE ReaderStep
  <2>1. CASE ReaderTest \/ ReaderWait
    <3>1. UNCHANGED <<ring, accepted, printed, batch>> /\ reader # "print"
      BY <2>1 DEF ReaderTest, ReaderWait
    <3>2. QED
      BY <3>1, RingKept
  <2>2. CASE ReaderGet
    <3>1. CASE UNCHANGED <<ring, batch>>
      <4>1. UNCHANGED <<ring, accepted, printed, batch>> /\ reader # "print"
        BY <2>2, <3>1 DEF ReaderGet
      <4>2. QED
        BY <4>1, RingKept
    <3>2. CASE Used > 0 /\ reader' = "print" /\ Take
      BY <2>2, <3>2, TakeFlow DEF ReaderGet
    <3>3. QED
      BY <2>2, <3>1, <3>2 DEF ReaderGet
  <2>3. CASE ReaderPrint
    <3>1. /\ reader' # "print" /\ printed' = printed \o batch /\ batch' = <<>>
          /\ UNCHANGED <<ring, accepted>>
      BY <2>3 DEF ReaderPrint
    <3>2. QED
      BY <3>1, PrintFlow
  <2>4. QED
    BY <1>3, <2>1, <2>2, <2>3 DEF ReaderStep
<1>4. CASE AppCall \/ DeinitReturn \/ DeinitCrash
  <2>1. UNCHANGED <<ring, accepted, printed, batch>>
    BY <1>4 DEF AppCall, InitLogger, StartLogger, StopLogger, SwitchToDirect, SetTagLevel,
                Deinit, DeinitReturn, DeinitCrash, StartReader, StopReader, AsyncEnabled,
                ReaderJoined, AbsentJoined, asyncVars
  <2>2. reader = "print" => reader' = "print"
    BY <1>4 DEF AppCall, InitLogger, StartLogger, StopLogger, SwitchToDirect, SetTagLevel,
                Deinit, DeinitReturn, DeinitCrash, StartReader, StopReader, AsyncEnabled,
                ReaderJoined, AbsentJoined, asyncVars
  <2>3. QED
    BY <2>1, <2>2, RingKept
<1>5. CASE UNCHANGED allVars
  <2>1. UNCHANGED <<ring, accepted, printed, batch, reader>>
    BY <1>5 DEF allVars, asyncVars
  <2>2. QED
    BY <2>1, RingKept
<1>6. QED
  BY <1>1, <1>2, <1>3, <1>4, <1>5 DEF ElogNext, OutputStep

LEMMA ElogInvInit == ElogInit => ElogInv
<1> SUFFICES ASSUME ElogInit PROVE ElogInv
  OBVIOUS
<1>1. /\ cells = [k \in Index |-> NoByte]
      /\ writeIndex = 0 /\ readIndex = 0 /\ full = FALSE /\ empty = TRUE
      /\ accepted = <<>> /\ printed = <<>> /\ batch = <<>>
  BY DEF ElogInit, AsyncInit
<1>2. full \in BOOLEAN /\ empty \in BOOLEAN /\ full # empty
  BY <1>1
<1>3. RingShape
  BY <1>1, <1>2, IndexArithmetic DEF RingShape, RingOK
<1>4. Used = 0
  BY <1>1 DEF Used
<1>5. Fifo
  BY <1>1, <1>4 DEF Fifo
<1>6. Flow
  BY <1>1, <1>5 DEF Flow
<1>7. Counts
  BY DEF ElogInit, AsyncInit, Counts
<1>8. QED
  BY <1>3, <1>6, <1>7 DEF ElogInv, RingInv

\* The invariant holds for every size of buffer, poll and line and any number of
\* threads that call elog_output.
THEOREM RingInvariant == ElogSpec => []ElogInv
<1>1. ElogInv /\ [ElogNext]_allVars => ElogInv'
  BY RingPreserved, CountsKept DEF ElogInv
<1>2. QED
  BY <1>1, ElogInvInit, PTL DEF ElogSpec

\* What async_output hands to the port is byte by byte, in order, what
\* elog_async_output has put into the buffer.
THEOREM BytesInOrder == ElogSpec => []Fifo
<1>1. ElogInv => Fifo
  BY DEF ElogInv, RingInv, Flow
<1>2. QED
  BY <1>1, RingInvariant, PTL

-----------------------------------------------------------------------------
(* The notices. *)

\* Bytes of this reader's life that are in the buffer, and what makes it look.
Owed == threadRunning /\ Len(printed) + Len(batch) < Len(accepted) /\ stranded < Len(accepted)
Due ==
    \/ notice > 0 \/ reader \in {"get", "print"}
    \/ \E t \in Threads : pc[t] = "notice"

LEMMA NoticeCases ==
    /\ NoLostNotice <=> (Owed => Due)
    /\ NoLostNotice' <=> (Owed' => Due')
BY DEF NoLostNotice, Owed, Due

LEMMA NoticeThreads ==
    ASSUME ElogInv, NEW t \in Threads, Emit(t) \/ OutputStep(t)
    PROVE  Due' \/ ((Owed' => Owed) /\ (Due => Due'))
<1>1. pc \in [Threads -> {"idle", "output", "notice"}] /\ notice \in Nat
  BY DEF ElogInv, Counts
<1>2. CASE Emit(t) \/ OutputDirect(t)
  <2>1. UNCHANGED <<threadRunning, stranded, accepted, printed, batch, notice, reader>>
    BY <1>2 DEF Emit, OutputDirect, asyncVars
  <2>2. \A u \in Threads : pc[u] = "notice" => pc'[u] = "notice"
    BY <1>1, <1>2 DEF Emit, OutputDirect, Step, Finish
  <2>3. QED
    BY <2>1, <2>2 DEF Owed, Due
<1>3. CASE OutputBuffered(t)
  <2>1. CASE Space > 0
    <3>1. pc'[t] = "notice"
      BY <1>1, <1>3, <2>1 DEF OutputBuffered, Step
    <3>2. QED
      BY <3>1 DEF Due
  <2>2. CASE ~(Space > 0)
    <3>1. Space = 0
      BY <2>2, UsedRange, IndexArithmetic DEF ElogInv, RingInv
    <3>2. UNCHANGED <<threadRunning, stranded, accepted, printed, batch, notice, reader>>
      BY <1>3, <3>1 DEF OutputBuffered, Put
    <3>3. \A u \in Threads : pc[u] = "notice" => pc'[u] = "notice"
      BY <1>1, <1>3, <2>2 DEF OutputBuffered, Finish
    <3>4. QED
      BY <3>2, <3>3 DEF Owed, Due
  <2>3. QED
    BY <2>1, <2>2
<1>4. CASE Notify(t)
  <2>1. notice' > 0
    BY <1>1, <1>4 DEF Notify
  <2>2. QED
    BY <2>1 DEF Due
<1>5. QED
  BY <1>2, <1>3, <1>4 DEF OutputStep

LEMMA NoticeReader ==
    ASSUME ElogInv, ReaderStep, UNCHANGED <<table, elogVars>>
    PROVE  Due' \/ ~Owed' \/ ((Owed' => Owed) /\ (Due => Due'))
<1>1. pc' = pc
  BY DEF elogVars
<1>2. CASE ReaderTest
  <2>1. /\ UNCHANGED <<threadRunning, stranded, accepted, printed, batch, notice>>
        /\ reader \notin {"get", "print"}
    BY <1>2 DEF ReaderTest
  <2>2. QED
    BY <1>1, <2>1 DEF Owed, Due
<1>3. CASE ReaderWait \/ ReaderPrint
  <2>1. reader' = "get"
    BY <1>3 DEF ReaderWait, ReaderPrint
  <2>2. QED
    BY <2>1 DEF Due
<1>4. CASE ReaderGet
  <2>1. CASE Used = 0
    <3>1. UNCHANGED <<accepted, printed, batch>>
      BY <1>4, <2>1 DEF ReaderGet, Take
    <3>2. /\ Len(printed) + Len(batch) + Used = Len(accepted)
          /\ Len(printed) \in Nat /\ Len(batch) \in Nat
      BY DEF ElogInv, RingInv, Flow, Fifo
    <3>3. ~(Len(printed) + Len(batch) < Len(accepted))
      BY <2>1, <3>2
    <3>4. ~(Len(printed') + Len(batch') < Len(accepted'))
      BY <3>1, <3>3
    <3>5. QED
      BY <3>4 DEF Owed
  <2>2. CASE Used # 0
    BY <1>4, <2>2 DEF ReaderGet, Due
  <2>3. QED
    BY <2>1, <2>2
<1>5. QED
  BY <1>2, <1>3, <1>4 DEF ReaderStep

LEMMA NoticeApplication ==
    ASSUME ElogInv, AppCall \/ DeinitReturn \/ DeinitCrash
    PROVE  ~Owed' \/ ((Owed' => Owed) /\ (Due => Due'))
<1>1. CASE InitLogger
  <2>1. stranded' = Len(accepted') /\ Len(accepted') \in Nat
    BY <1>1 DEF InitLogger, StartReader, ElogInv, RingInv, Flow
  <2>2. ~(stranded' < Len(accepted'))
    BY <2>1
  <2>3. QED
    BY <2>2 DEF Owed
<1>2. CASE Deinit
  BY <1>2 DEF Deinit, StopReader, Owed
<1>3. CASE StartLogger \/ StopLogger \/ SwitchToDirect \/ SetTagLevel
  <2>1. UNCHANGED <<threadRunning, stranded, accepted, printed, batch, notice, reader, pc>>
    BY <1>3 DEF StartLogger, StopLogger, SwitchToDirect, SetTagLevel, AsyncEnabled,
                asyncVars, elogVars
  <2>2. QED
    BY <2>1 DEF Owed, Due
<1>4. CASE DeinitReturn \/ DeinitCrash
  <2>1. /\ UNCHANGED <<threadRunning, stranded, accepted, printed, batch, notice, pc>>
        /\ reader \notin {"get", "print"}
    BY <1>4 DEF DeinitReturn, DeinitCrash, ReaderJoined, AbsentJoined, asyncVars
  <2>2. QED
    BY <2>1 DEF Owed, Due
<1>5. QED
  BY <1>1, <1>2, <1>3, <1>4 DEF AppCall

\* No wake-up of async_output is lost: bytes that came in during its life and are
\* still in the buffer have a notice, on its way or due.
THEOREM NoticeNeverLost == ElogSpec => []NoLostNotice
<1>1. ElogInit => NoLostNotice
  BY DEF ElogInit, AsyncInit, NoLostNotice
<1>2. ElogInv /\ NoLostNotice /\ [ElogNext]_allVars => NoLostNotice'
  <2> SUFFICES ASSUME ElogInv, NoLostNotice, [ElogNext]_allVars
               PROVE  NoLostNotice'
    OBVIOUS
  <2>1. Due' \/ ~Owed' \/ ((Owed' => Owed) /\ (Due => Due'))
    <3>1. CASE UNCHANGED allVars
      BY <3>1 DEF allVars, asyncVars, elogVars, Owed, Due
    <3>2. QED
      BY <3>1, NoticeThreads, NoticeReader, NoticeApplication DEF ElogNext
  <2>2. QED
    BY <2>1, NoticeCases
<1>3. QED
  BY <1>1, <1>2, RingInvariant, PTL DEF ElogSpec

-----------------------------------------------------------------------------
(* The table of tag levels. *)

LEMMA TableKept ==
    ASSUME TableOK, NEW t \in Tags, NEW l \in Levels, SetFilterTagLvl(t, l)
    PROVE  TableOK'
<1> USE FilterAssumption
<1>1. table \in [1 .. Slots -> Slot]
  BY DEF TableOK
<1>2. ASSUME NEW i \in 1 .. Slots, NEW s \in Slot, table' = [table EXCEPT ![i] = s],
             s.tag # NoTag => /\ s.level # Lowest
                              /\ \A j \in 1 .. Slots : table[j].tag = s.tag => j = i
      PROVE  TableOK'
  <2>1. table' \in [1 .. Slots -> Slot]
    BY <1>1, <1>2
  <2>2. \A j \in 1 .. Slots : table'[j] = IF j = i THEN s ELSE table[j]
    BY <1>1, <1>2
  <2>3. QED
    BY <1>2, <2>1, <2>2 DEF TableOK
<1>3. CASE ChangeLevel(t, l)
  <2> DEFINE s == IF l = Lowest THEN FreeSlot ELSE [tag |-> t, level |-> l]
  <2>1. PICK i \in 1 .. Slots : FirstWith(i, t) /\ table' = [table EXCEPT ![i] = s]
    BY <1>3 DEF ChangeLevel
  <2>2. s \in Slot
    BY DEF Slot, FreeSlot, Levels
  <2>3. s.tag # NoTag => s.tag = t /\ s.level # Lowest
    BY DEF FreeSlot
  <2>4. table[i].tag = t
    BY <2>1 DEF FirstWith
  <2>5. \A j \in 1 .. Slots : table[j].tag = t => j = i
    BY <2>4 DEF TableOK
  <2> HIDE DEF s
  <2>6. QED
    BY <1>2, <2>1, <2>2, <2>3, <2>5
<1>4. CASE ~InTable(t) /\ AddLevel(t, l)
  <2> DEFINE s == [tag |-> t, level |-> l]
  <2>1. PICK i \in 1 .. Slots : table' = [table EXCEPT ![i] = s]
    BY <1>4 DEF AddLevel
  <2>2. s \in Slot /\ s.tag = t /\ s.level # Lowest
    BY <1>4 DEF Slot, AddLevel
  <2>3. \A j \in 1 .. Slots : table[j].tag # t
    BY <1>4 DEF InTable
  <2> HIDE DEF s
  <2>4. QED
    BY <1>2, <2>1, <2>2, <2>3
<1>5. CASE LevelIgnored(t, l)
  BY <1>5 DEF LevelIgnored, TableOK
<1>6. QED
  BY <1>3, <1>4, <1>5 DEF SetFilterTagLvl

LEMMA EmptyTableOK ==
    ASSUME table = EmptyTable
    PROVE  TableOK
BY FilterAssumption DEF EmptyTable, TableOK, Slot, FreeSlot, Levels

LEMMA TableSteps ==
    ASSUME [ElogNext]_allVars
    PROVE  table' = table \/ InitLogger \/ SetTagLevel
<1>1. CASE \E t \in Threads : Emit(t) \/ OutputStep(t)
  BY <1>1 DEF Emit, OutputStep, OutputDirect, OutputBuffered, Notify
<1>2. CASE AppCall \/ DeinitReturn \/ DeinitCrash
  BY <1>2 DEF AppCall, StartLogger, StopLogger, SwitchToDirect, Deinit, DeinitReturn,
              DeinitCrash
<1>3. QED
  BY <1>1, <1>2 DEF ElogNext, allVars

LEMMA TablePreserved ==
    ASSUME TableOK, [ElogNext]_allVars
    PROVE  TableOK'
<1>1. CASE table' = table
  BY <1>1 DEF TableOK
<1>2. CASE InitLogger
  BY <1>2, FilterAssumption
     DEF InitLogger, EmptyTable, TableOK, Slot, FreeSlot, Levels
<1>3. CASE SetTagLevel
  BY <1>3, TableKept DEF SetTagLevel
<1>4. table' = table \/ InitLogger \/ SetTagLevel
  BY TableSteps
<1>5. QED
  BY <1>1, <1>2, <1>3, <1>4

\* The rest of the types.
Types ==
    /\ threadRunning \in BOOLEAN /\ isEnabled \in BOOLEAN
    /\ reader \in ReaderPc
    /\ lock \in Threads \cup {Free}
    /\ initOk \in BOOLEAN /\ outputEnabled \in BOOLEAN
    /\ lineLevel \in [Threads -> Levels]
    /\ app \in {"idle", "join", "crashed"}

LEMMA TypesKept ==
    ASSUME Types, [ElogNext]_allVars
    PROVE  Types'
<1> USE DEF Types
<1>1. 0 \in Levels
  BY FilterAssumption DEF Levels
<1>2. ASSUME NEW t \in Threads, Emit(t) \/ OutputStep(t)
      PROVE  Types'
  <2>1. CASE Emit(t)
    BY <2>1 DEF Emit, asyncVars
  <2>2. CASE OutputDirect(t)
    BY <1>1, <2>2 DEF OutputDirect, Finish, asyncVars
  <2>3. CASE OutputBuffered(t)
    BY <1>1, <2>3 DEF OutputBuffered, Finish
  <2>4. CASE Notify(t)
    BY <1>1, <2>4 DEF Notify, Finish
  <2>5. QED
    BY <1>2, <2>1, <2>2, <2>3, <2>4 DEF OutputStep
<1>3. CASE ReaderStep /\ UNCHANGED <<table, elogVars>>
  BY <1>3 DEF ReaderStep, ReaderTest, ReaderWait, ReaderGet, ReaderPrint, ReaderPc, elogVars
<1>4. CASE AppCall \/ DeinitReturn \/ DeinitCrash
  <2>1. CASE InitLogger
    BY <2>1 DEF InitLogger, StartReader, ReaderPc
  <2>2. CASE StartLogger \/ StopLogger \/ SwitchToDirect
    BY <2>2 DEF StartLogger, StopLogger, SwitchToDirect, AsyncEnabled, elogVars
  <2>3. CASE SetTagLevel
    BY <2>3 DEF SetTagLevel, asyncVars
  <2>4. CASE Deinit
    BY <2>4 DEF Deinit, StopReader
  <2>5. CASE DeinitReturn \/ DeinitCrash
    BY <2>5 DEF DeinitReturn, DeinitCrash, ReaderJoined, AbsentJoined, ReaderPc, asyncVars
  <2>6. QED
    BY <1>4, <2>1, <2>2, <2>3, <2>4, <2>5 DEF AppCall
<1>5. CASE UNCHANGED allVars
  BY <1>5 DEF allVars, asyncVars, elogVars
<1>6. QED
  BY <1>2, <1>3, <1>4, <1>5 DEF ElogNext

LEMMA StrandedKept ==
    ASSUME ElogInv, ElogInv', stranded \in 0 .. Len(accepted), [ElogNext]_allVars
    PROVE  stranded' \in 0 .. Len(accepted')
<1>1. /\ accepted \in Seq(Bytes) /\ Len(accepted) \in Nat /\ Len(accepted') \in Nat
  BY DEF ElogInv, RingInv, Flow
<1>2. CASE UNCHANGED <<stranded, accepted>>
  BY <1>2
<1>3. CASE InitLogger
  BY <1>1, <1>3 DEF InitLogger, StartReader
<1>4. ASSUME NEW t \in Threads, OutputBuffered(t)
      PROVE  stranded' \in 0 .. Len(accepted')
  <2>1. PICK n \in Sizes : Put(Line(n))
    BY <1>4 DEF OutputBuffered
  <2>2. stranded' = stranded
    BY <1>4 DEF OutputBuffered
  <2>3. CASE Space = 0
    BY <2>1, <2>2, <2>3 DEF Put
  <2>4. CASE Space # 0
    <3> DEFINE m == PutSize(Line(n))
    <3>1. Line(n) \in Seq(Bytes) /\ Len(Line(n)) > 0
      BY LineIsBytes DEF ElogInv
    <3>2. m \in 1 .. Len(Line(n))
      BY <2>1, <2>4, <3>1, PutShape DEF ElogInv, RingInv
    <3>3. accepted' = accepted \o SubSeq(Line(n), 1, m)
      BY <2>1, <2>4 DEF Put
    <3>4. SubSeq(Line(n), 1, m) \in Seq(Bytes)
      BY <3>1, <3>2
    <3> HIDE DEF m
    <3>5. Len(accepted') >= Len(accepted)
      BY <1>1, <3>3, <3>4, ConcatBytes
    <3>6. QED
      BY <1>1, <2>2, <3>5
  <2>5. QED
    BY <2>3, <2>4
<1>5. UNCHANGED <<stranded, accepted>> \/ InitLogger \/ \E t \in Threads : OutputBuffered(t)
  <2>1. CASE \E t \in Threads : Emit(t) \/ OutputStep(t)
    BY <2>1 DEF Emit, OutputStep, OutputDirect, Notify, asyncVars
  <2>2. CASE ReaderStep
    BY <2>2 DEF ReaderStep, ReaderTest, ReaderWait, ReaderGet, ReaderPrint
  <2>3. CASE AppCall \/ DeinitReturn \/ DeinitCrash
    BY <2>3 DEF AppCall, StartLogger, StopLogger, SwitchToDirect, SetTagLevel, Deinit,
                DeinitReturn, DeinitCrash, StopReader, AsyncEnabled, ReaderJoined,
                AbsentJoined, asyncVars
  <2>4. CASE UNCHANGED allVars
    BY <2>4 DEF allVars, asyncVars
  <2>5. QED
    BY <2>1, <2>2, <2>3, <2>4 DEF ElogNext
<1>6. QED
  BY <1>2, <1>3, <1>4, <1>5

\* The logger keeps its types, a tag is in one slot of the table at most, and the
\* flags of the buffer tell full from empty when its indices meet.
THEOREM LoggerTypeCorrect == ElogSpec => []ElogTypeOK
<1> DEFINE Inv == TableOK /\ Types /\ stranded \in 0 .. Len(accepted)
<1>1. ElogInit => Inv
  <2> SUFFICES ASSUME ElogInit PROVE Inv
    OBVIOUS
  <2>1. TableOK
    BY EmptyTableOK DEF ElogInit, TableInit
  <2>2. Types
    <3>1. /\ threadRunning = FALSE /\ isEnabled = FALSE
          /\ initOk = FALSE /\ outputEnabled = FALSE
      BY DEF ElogInit, AsyncInit
    <3>2. /\ threadRunning \in BOOLEAN /\ isEnabled \in BOOLEAN
          /\ initOk \in BOOLEAN /\ outputEnabled \in BOOLEAN
      BY <3>1
    <3>3. 0 \in Levels
      BY FilterAssumption DEF Levels
    <3>4. /\ reader \in ReaderPc /\ lock \in Threads \cup {Free}
          /\ lineLevel \in [Threads -> Levels] /\ app \in {"idle", "join", "crashed"}
      BY <3>3 DEF ElogInit, AsyncInit, ReaderPc
    <3>5. QED
      BY <3>2, <3>4 DEF Types
  <2>3. stranded \in 0 .. Len(accepted)
    BY DEF ElogInit, AsyncInit
  <2>4. QED
    BY <2>1, <2>2, <2>3
<1>2. ElogInv /\ ElogInv' /\ Inv /\ [ElogNext]_allVars => Inv'
  BY TablePreserved, TypesKept, StrandedKept
<1>3. ElogInv /\ Inv => ElogTypeOK
  BY DEF ElogInv, RingInv, RingShape, Counts, Types, ElogTypeOK, AsyncTypeOK
<1>4. QED
  BY <1>1, <1>2, <1>3, RingInvariant, PTL DEF ElogSpec

-----------------------------------------------------------------------------
(* The table implements what it promises. *)

\* A tag that is in some slot is answered from that slot.
LEMMA LevelOfSlot ==
    TableOK => \A t \in Tags, i \in 1 .. Slots :
                  table[i].tag = t => InTable(t) /\ TagLevel(t) = table[i].level
<1> SUFFICES ASSUME TableOK, NEW t \in Tags, NEW i \in 1 .. Slots, table[i].tag = t
             PROVE  InTable(t) /\ TagLevel(t) = table[i].level
  OBVIOUS
<1>1. InTable(t)
  BY DEF InTable
<1>2. \A j \in 1 .. Slots : table[j].tag = t => j = i
  BY FilterAssumption DEF TableOK
<1>3. FirstWith(i, t)
  <2>1. \A j \in 1 .. i - 1 : j \in 1 .. Slots /\ j # i
    BY FilterAssumption
  <2>2. QED
    BY <1>2, <2>1 DEF FirstWith
<1>4. \A j \in 1 .. Slots : FirstWith(j, t) => j = i
  BY <1>2 DEF FirstWith
<1>5. (CHOOSE j \in 1 .. Slots : FirstWith(j, t)) = i
  BY <1>3, <1>4
<1>6. QED
  BY <1>1, <1>5 DEF TagLevel

LEMMA LevelOfSlotNext ==
    TableOK' => (\A t \in Tags, i \in 1 .. Slots :
                   table[i].tag = t => InTable(t) /\ TagLevel(t) = table[i].level)'
BY LevelOfSlot, PTL

\* The restricted tags are those in the table; while a slot is free they are fewer
\* than the slots.
LEMMA RestrictedInTable ==
    ASSUME TableOK, NEW t \in Tags
    PROVE  TagLevel(t) # Lowest <=> InTable(t)
<1>1. CASE InTable(t)
  <2>1. PICK i \in 1 .. Slots : table[i].tag = t
    BY <1>1 DEF InTable
  <2>2. TagLevel(t) = table[i].level
    BY <2>1, LevelOfSlot
  <2>3. table[i].level # Lowest
    BY <2>1, FilterAssumption DEF TableOK
  <2>4. QED
    BY <1>1, <2>2, <2>3
<1>2. CASE ~InTable(t)
  BY <1>2 DEF TagLevel
<1>3. QED
  BY <1>1, <1>2

LEMMA RoomForAnother ==
    ASSUME TableOK, NEW i \in 1 .. Slots, table[i].tag = NoTag
    PROVE  Cardinality({t \in Tags : TagLevel(t) # Lowest}) < Slots
<1> DEFINE R == {t \in Tags : TagLevel(t) # Lowest}
<1> DEFINE slot == [t \in R |-> CHOOSE j \in 1 .. Slots : table[j].tag = t]
<1>1. \A t \in R : slot[t] \in 1 .. Slots /\ table[slot[t]].tag = t
  BY RestrictedInTable DEF InTable
<1>2. slot \in Injection(R, 1 .. Slots)
  BY <1>1 DEF Injection, IsInjective
<1>3. slot \notin Surjection(R, 1 .. Slots)
  <2>1. \A t \in R : t # NoTag
    BY FilterAssumption
  <2>2. \A t \in R : slot[t] # i
    BY <1>1, <2>1
  <2> HIDE DEF slot, R
  <2>3. QED
    BY <2>2 DEF Surjection
<1>4. IsFiniteSet(1 .. Slots) /\ Cardinality(1 .. Slots) = Slots
  <2>1. Slots \in Int /\ 1 \in Int /\ Slots >= 0
    BY FilterAssumption
  <2>2. QED
    BY <2>1, FS_Interval
<1> HIDE DEF R, slot
<1>5. /\ IsFiniteSet(R) /\ Cardinality(R) <= Slots
      /\ Cardinality(R) # Slots
  BY <1>2, <1>3, <1>4, FS_Injection
<1>6. Cardinality(R) \in Nat
  BY <1>5, FS_CardinalityType
<1>7. Cardinality(R) < Slots
  BY <1>5, <1>6, FilterAssumption
<1>8. QED
  BY <1>7 DEF R

\* A slot is written to make l the level of the tag t.
SlotWritten(t, l, i, s) ==
    /\ table' = [table EXCEPT ![i] = s]
    /\ \/ s.tag = t /\ s.level = l /\ table[i].tag \in {t, NoTag}
       \/ s.tag = NoTag /\ l = Lowest /\ table[i].tag = t

\* What the table answers afterwards.
LEMMA OneSlotWritten ==
    ASSUME TableOK, TableOK', NEW t \in Tags, NEW l \in Levels,
           NEW i \in 1 .. Slots, NEW s \in Slot, SlotWritten(t, l, i, s)
    PROVE  answers' = [answers EXCEPT ![t] = l]
<1> USE FilterAssumption DEF SlotWritten
<1>1. \A j \in 1 .. Slots : table'[j] = IF j = i THEN s ELSE table[j]
  BY DEF TableOK
<1>2. \A u \in Tags, j \in 1 .. Slots :
        table'[j].tag = u => TagLevel(u)' = table'[j].level
  BY LevelOfSlotNext
<1>3. \A u \in Tags :
        (\A j \in 1 .. Slots : table'[j].tag # u) => TagLevel(u)' = Lowest
  BY DEF TagLevel, InTable
<1>4. ASSUME NEW u \in Tags, u # t
      PROVE  TagLevel(u)' = TagLevel(u)
  <2>1. table[i].tag # u /\ s.tag # u
    BY <1>4
  <2>2. CASE InTable(u)
    <3>1. PICK j \in 1 .. Slots : table[j].tag = u
      BY <2>2 DEF InTable
    <3>2. table'[j] = table[j]
      BY <1>1, <2>1, <3>1
    <3>3. TagLevel(u) = table[j].level
      BY <3>1, LevelOfSlot
    <3>4. QED
      BY <1>2, <3>1, <3>2, <3>3
  <2>3. CASE ~InTable(u)
    <3>1. \A j \in 1 .. Slots : table'[j].tag # u
      BY <1>1, <2>1, <2>3 DEF InTable
    <3>2. QED
      BY <1>3, <2>3, <3>1 DEF TagLevel
  <2>4. QED
    BY <2>2, <2>3
<1>5. CASE s.tag = t
  <2>1. TagLevel(t)' = l
    BY <1>1, <1>2, <1>5
  <2>2. QED
    BY <1>4, <2>1 DEF answers
<1>6. CASE s.tag = NoTag /\ l = Lowest /\ table[i].tag = t
  <2>1. \A j \in 1 .. Slots : table[j].tag = t => j = i
    BY <1>6 DEF TableOK
  <2>2. \A j \in 1 .. Slots : table'[j].tag # t
    BY <1>1, <1>6, <2>1
  <2>3. TagLevel(t)' = l
    BY <1>3, <1>6, <2>2
  <2>4. QED
    BY <1>4, <2>3 DEF answers
<1>7. QED
  BY <1>5, <1>6

\* The promise's module counts with a Cardinality of its own.
LEMMA SameCardinality ==
    ASSUME NEW S
    PROVE  Cardinality(S) = Promised!Cardinality(S)
BY DEF Cardinality, Promised!Cardinality, IsFiniteSet, Promised!IsFiniteSet

\* One call of elog_set_filter_tag_lvl is one Set of the promise, or nothing.
LEMMA SetImplements ==
    ASSUME TableOK, TableOK', NEW t \in Tags, NEW l \in Levels, SetFilterTagLvl(t, l)
    PROVE  [Promised!Next]_answers
<1> USE FilterAssumption
<1>1. ASSUME answers' = [answers EXCEPT ![t] = l],
             \/ l = Lowest \/ TagLevel(t) # Lowest
             \/ Cardinality({u \in Tags : TagLevel(u) # Lowest}) < Slots
      PROVE  [Promised!Next]_answers
  <2>1. Promised!Restricted = {u \in Tags : TagLevel(u) # Lowest}
    BY DEF Promised!Restricted, answers
  <2>2. \/ l = Lowest \/ t \in Promised!Restricted
        \/ Cardinality(Promised!Restricted) < Slots
    BY <1>1, <2>1
  <2>3. Promised!Set
    BY <1>1, <2>2, SameCardinality DEF Promised!Set, Levels
  <2>4. QED
    BY <2>3 DEF Promised!Next
<1>2. CASE ChangeLevel(t, l)
  <2>1. PICK i \in 1 .. Slots :
            /\ table[i].tag = t
            /\ table' = [table EXCEPT ![i] =
                            IF l = Lowest THEN FreeSlot ELSE [tag |-> t, level |-> l]]
    BY <1>2 DEF ChangeLevel, FirstWith
  <2>2. CASE l = Lowest
    <3> DEFINE s == FreeSlot
    <3>1. s \in Slot /\ SlotWritten(t, l, i, s)
      BY <2>1, <2>2 DEF FreeSlot, Slot, Levels, SlotWritten
    <3> HIDE DEF s
    <3>2. answers' = [answers EXCEPT ![t] = l]
      BY <3>1, OneSlotWritten, Zenon
    <3>3. QED
      BY <1>1, <2>2, <3>2
  <2>3. CASE l # Lowest
    <3> DEFINE s == [tag |-> t, level |-> l]
    <3>1. s \in Slot /\ SlotWritten(t, l, i, s)
      BY <2>1, <2>3 DEF Slot, SlotWritten
    <3> HIDE DEF s
    <3>2. answers' = [answers EXCEPT ![t] = l]
      BY <3>1, OneSlotWritten, Zenon
    <3>3. TagLevel(t) # Lowest
      BY <2>1, LevelOfSlot, RestrictedInTable
    <3>4. QED
      BY <1>1, <3>2, <3>3
  <2>4. QED
    BY <2>2, <2>3
<1>3. CASE ~InTable(t) /\ AddLevel(t, l)
  <2>1. PICK i \in 1 .. Slots :
            table[i].tag = NoTag /\ table' = [table EXCEPT ![i] = [tag |-> t, level |-> l]]
    BY <1>3 DEF AddLevel, FirstWith
  <2> DEFINE s == [tag |-> t, level |-> l]
  <2>2. s \in Slot /\ SlotWritten(t, l, i, s)
    BY <2>1 DEF Slot, SlotWritten
  <2> HIDE DEF s
  <2>3. answers' = [answers EXCEPT ![t] = l]
    BY <2>2, OneSlotWritten, Zenon
  <2>4. Cardinality({u \in Tags : TagLevel(u) # Lowest}) < Slots
    BY <2>1, RoomForAnother
  <2>5. QED
    BY <1>1, <2>3, <2>4
<1>4. CASE LevelIgnored(t, l)
  BY <1>4 DEF LevelIgnored, answers, TagLevel, InTable, FirstWith
<1>5. QED
  BY <1>2, <1>3, <1>4 DEF SetFilterTagLvl

\* However the slots come to be used, the table answers as if it kept one level
\* for every tag; for any number of slots, tags and levels.
THEOREM ImplementsLevels == ElogSpec => ImplementsTagLevels
<1>1. ElogInit => Promised!Init
  BY FilterAssumption
     DEF ElogInit, TableInit, EmptyTable, FreeSlot, answers, TagLevel, InTable,
         Promised!Init, Promised!Unrestricted
<1>2. TableOK /\ TableOK' /\ [ElogNext]_allVars => [Promised!Next]_answers
  <2> SUFFICES ASSUME TableOK, TableOK', [ElogNext]_allVars
               PROVE  [Promised!Next]_answers
    OBVIOUS
  <2>1. CASE table' = table
    BY <2>1 DEF answers, TagLevel, InTable, FirstWith
  <2>2. CASE InitLogger
    <3>1. answers' = Promised!Unrestricted
      BY <2>2, FilterAssumption
         DEF InitLogger, EmptyTable, FreeSlot, answers, TagLevel, InTable,
             Promised!Unrestricted
    <3>2. QED
      BY <3>1 DEF Promised!Next, Promised!Forget
  <2>3. CASE SetTagLevel
    BY <2>3, SetImplements DEF SetTagLevel
  <2>4. QED
    BY <2>1, <2>2, <2>3, TableSteps
<1>3. ElogSpec => []TableOK
  <2>1. ElogInit => TableOK
    BY EmptyTableOK DEF ElogInit, TableInit
  <2>2. TableOK /\ [ElogNext]_allVars => TableOK'
    BY TablePreserved
  <2>3. QED
    BY <2>1, <2>2, PTL DEF ElogSpec
<1>4. QED
  BY <1>1, <1>2, <1>3, PTL DEF ElogSpec, ImplementsTagLevels, Promised!Spec
=============================================================================
