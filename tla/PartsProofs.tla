---------------------------- MODULE PartsProofs -----------------------------
(***************************************************************************)
(* Theorems about what a run and its transmission treat as one step.       *)
(*                                                                         *)
(* Batching: the cut of a payload into batches is a function of the        *)
(* payload and the limits, so an upload that resumes counts the same       *)
(* batches, and a scan that closes is complete.                            *)
(*                                                                         *)
(* Retry: the waits between the attempts of one request are bounded for    *)
(* every word size and every header, although the shift of backoff and the *)
(* product of parseRetryAfter overflow.                                    *)
(*                                                                         *)
(* AtomicFile: a reader sees whole reports only, and a report that was     *)
(* written stays, for any set of runs and names and for any number of      *)
(* kills, failures and power losses.                                       *)
(***************************************************************************)
EXTENDS Batching, Retry, AtomicFile, SequenceTheorems, WellFoundedInduction, TLAPS


-----------------------------------------------------------------------------
(* What a batch is, apart from the walk that fills it.                      *)

\* The record lines of a payload of lengths y.
Records(y) == {n \in 2..Len(y) : y[n] > 0}

\* b is the records of y from line lo up to but not including line hi, in order.
IsCut(y, b, lo, hi) ==
  /\ \A i \in 1..Len(b) : b[i] \in Records(y) /\ lo <= b[i] /\ b[i] < hi
  /\ \A i, j \in 1..Len(b) : i < j => b[i] < b[j]
  /\ \A n \in Records(y) : lo <= n /\ n < hi => \E i \in 1..Len(b) : b[i] = n

\* Line n goes into a batch that holds b: there is room for it.
RoomFor(y, l, b, n) ==
  Len(b) < l.lines /\ ~(b # <<>> /\ BytesIn(y, b) + y[n] + 1 > l.bytes)

\* Each line of b but the first found room beside those before it.
Packed(y, l, b) ==
  \A i \in 1..(Len(b) - 1) : RoomFor(y, l, SubSeq(b, 1, i), b[i + 1])

\* The record after b, if there is one, finds no room.
Closed(y, l, b) ==
  \A m \in Records(y) :
    /\ b[Len(b)] < m
    /\ \A n \in Records(y) : b[Len(b)] < n => m <= n
    => ~RoomFor(y, l, b, m)

\* The line after the last one of batch k - 1, where batch k begins.
From(s, k) == IF k = 1 THEN 1 ELSE s[k - 1][Len(s[k - 1])] + 1

-----------------------------------------------------------------------------
(* The inductive invariant.                                                *)

\* Every batch the server keeps is the one that begins where the one before ended.
StoredIsCut ==
  \A k \in 1..Len(stored) :
    /\ stored[k] # <<>>
    /\ IsCut(payload, stored[k], From(stored, k), From(stored, k + 1))
    /\ Packed(payload, limits, stored[k])
    /\ Closed(payload, limits, stored[k])

\* The batches follow each other, and leave no record out.
StoredInOrder ==
  \A k, m \in 1..Len(stored) :
    k < m => \A i \in 1..Len(stored[k]), j \in 1..Len(stored[m]) : stored[k][i] < stored[m][j]

StoredCovers ==
  \A n \in Records(payload) :
    n < From(stored, Len(stored) + 1) =>
      \E k \in 1..Len(stored) : \E i \in 1..Len(stored[k]) : stored[k][i] = n

\* The walk is at a place the earlier uploads came past: where the server has
\* the batch, what is in hand is the beginning of it.
WalkIsCut ==
  /\ index <= Len(stored) /\ start <= Len(stored)
  /\ From(stored, index + 1) <= pos
  /\ IsCut(payload, batch, From(stored, index + 1), pos)
  /\ Packed(payload, limits, batch)
  /\ index < Len(stored) =>
       \A i \in 1..Len(batch) : i <= Len(stored[index + 1]) /\ batch[i] = stored[index + 1][i]

\* The walk ended behind the last batch.
ClosedAtEnd ==
  pc = "closed" => pos > Len(payload) /\ batch = <<>> /\ index = Len(stored)

CutInv ==
  /\ TypeOK
  /\ StoredIsCut
  /\ StoredInOrder
  /\ StoredCovers
  /\ WalkIsCut
  /\ ClosedAtEnd

-----------------------------------------------------------------------------
(* Lemmas about sequences and cuts.                                        *)

\* The first lines of a batch are those of any batch that begins with them.
LEMMA PrefixIs ==
  ASSUME NEW S, NEW b \in Seq(S), NEW c \in Seq(S), Len(b) <= Len(c),
         \A i \in 1..Len(b) : b[i] = c[i]
  PROVE  SubSeq(c, 1, Len(b)) = b
<1>1. /\ Len(b) \in Nat /\ Len(c) \in Nat
      /\ 1..Len(b) \subseteq 1..Len(c)
  BY LenProperties
<1>2. /\ SubSeq(c, 1, Len(b)) \in Seq(S)
      /\ Len(SubSeq(c, 1, Len(b))) = Len(b)
      /\ \A i \in 1..Len(b) : SubSeq(c, 1, Len(b))[i] = c[i]
  BY <1>1
<1> QED
  BY <1>1, <1>2, SeqEqual

LEMMA AppendPrefix ==
  ASSUME NEW S, NEW b \in Seq(S), NEW n \in S, NEW i \in 1..Len(b)
  PROVE  SubSeq(Append(b, n), 1, i) = SubSeq(b, 1, i)
<1>1. /\ SubSeq(b, 1, i) \in Seq(S) /\ Append(b, n) \in Seq(S)
      /\ Len(SubSeq(b, 1, i)) = i /\ Len(Append(b, n)) = Len(b) + 1
      /\ \A j \in 1..i : SubSeq(b, 1, i)[j] = Append(b, n)[j]
  BY LenProperties
<1>2. Len(SubSeq(b, 1, i)) <= Len(Append(b, n))
  BY <1>1, LenProperties
<1> QED
  BY <1>1, <1>2, PrefixIs

\* Nothing is a cut of no lines, and the records behind a cut are none.
LEMMA CutEmpty ==
  ASSUME NEW y \in Seq(Nat), NEW lo \in Nat
  PROVE  IsCut(y, <<>>, lo, lo)
BY DEF IsCut, Records

LEMMA CutSkips ==
  ASSUME NEW y \in Seq(Nat), NEW b \in Seq(1..Len(y)), NEW lo \in Nat, NEW hi \in Nat,
         IsCut(y, b, lo, hi), hi \notin Records(y)
  PROVE  IsCut(y, b, lo, hi + 1)
BY SMTT(30) DEF IsCut, Records

LEMMA CutGrows ==
  ASSUME NEW y \in Seq(Nat), NEW b \in Seq(1..Len(y)), NEW lo \in Nat, NEW hi \in Records(y),
         IsCut(y, b, lo, hi), lo <= hi
  PROVE  IsCut(y, Append(b, hi), lo, hi + 1)
<1> DEFINE c == Append(b, hi)
<1>1. /\ Len(b) \in Nat /\ Len(c) = Len(b) + 1
      /\ c[Len(b) + 1] = hi
      /\ \A i \in 1..Len(b) : c[i] = b[i]
      /\ hi \in Nat /\ hi \in 1..Len(y)
  BY DEF Records
<1>2. \A n \in Records(y) : n \in Nat
  BY DEF Records
<1>3. \A i \in 1..Len(c) : i \in 1..Len(b) \/ i = Len(b) + 1
  BY <1>1
<1>4. \A i \in 1..Len(b) : b[i] \in Records(y) /\ lo <= b[i] /\ b[i] < hi
  BY DEF IsCut
<1>5. \A i \in 1..Len(c) : c[i] \in Records(y) /\ lo <= c[i] /\ c[i] < hi + 1
  BY <1>1, <1>2, <1>3, <1>4, SMTT(30)
<1>6. ASSUME NEW i \in 1..Len(c), NEW j \in 1..Len(c), i < j
      PROVE  c[i] < c[j]
  <2>1. i \in 1..Len(b)
    BY <1>1, <1>6
  <2> QED
    BY <1>1, <1>3, <1>4, <1>6, <2>1 DEF IsCut
<1>7. ASSUME NEW n \in Records(y), lo <= n, n < hi + 1
      PROVE  \E i \in 1..Len(c) : c[i] = n
  <2>1. CASE n = hi
    BY <1>1, <2>1
  <2>2. CASE n # hi
    <3>1. n < hi
      BY <1>1, <1>2, <1>7, <2>2
    <3>2. PICK i \in 1..Len(b) : b[i] = n
      BY <1>7, <3>1 DEF IsCut
    <3> QED
      BY <1>1, <3>2
  <2> QED
    BY <2>1, <2>2
<1> QED
  BY <1>5, <1>6, <1>7 DEF IsCut

\* A cut ends with its last line, and what is behind that line is an empty cut.
LEMMA CutEnds ==
  ASSUME NEW y \in Seq(Nat), NEW b \in Seq(1..Len(y)), NEW lo \in Nat, NEW hi \in Nat,
         IsCut(y, b, lo, hi), b # <<>>
  PROVE  /\ b[Len(b)] \in Records(y) /\ lo <= b[Len(b)] /\ b[Len(b)] < hi
         /\ \A n \in Records(y) : b[Len(b)] < n => hi <= n
         /\ \A i \in 1..Len(b) : b[i] <= b[Len(b)]
         /\ IsCut(y, b, lo, b[Len(b)] + 1)
         /\ IsCut(y, <<>>, b[Len(b)] + 1, hi)
<1>1. Len(b) \in Nat /\ Len(b) \in 1..Len(b)
  BY EmptySeq
<1>2. \A n \in Records(y) : n \in Nat
  BY DEF Records
<1>3. b[Len(b)] \in Records(y) /\ lo <= b[Len(b)] /\ b[Len(b)] < hi
  BY <1>1 DEF IsCut
<1>4. \A i \in 1..Len(b) : b[i] \in Nat
  BY <1>2 DEF IsCut
<1>5. \A i \in 1..Len(b) : b[i] <= b[Len(b)]
  <2> TAKE i \in 1..Len(b)
  <2>1. CASE i < Len(b)
    <3>1. b[i] < b[Len(b)]
      BY <1>1, <2>1 DEF IsCut
    <3> QED
      BY <1>1, <1>4, <3>1
  <2>2. CASE ~(i < Len(b))
    <3>1. i = Len(b)
      BY <1>1, <2>2
    <3> QED
      BY <1>1, <1>4, <3>1
  <2> QED
    BY <2>1, <2>2
<1>6. ASSUME NEW n \in Records(y), b[Len(b)] < n, n < hi
      PROVE  FALSE
  <2>1. lo <= n
    BY <1>2, <1>3, <1>6
  <2>2. PICK i \in 1..Len(b) : b[i] = n
    BY <1>6, <2>1 DEF IsCut
  <2> QED
    BY <1>2, <1>3, <1>5, <1>6, <2>2
<1>7. \A n \in Records(y) : b[Len(b)] < n => hi <= n
  BY <1>2, <1>6
<1>8. IsCut(y, b, lo, b[Len(b)] + 1)
  <2>1. \A i \in 1..Len(b) : b[i] < b[Len(b)] + 1
    BY <1>1, <1>4, <1>5
  <2>2. \A n \in Records(y) : n < b[Len(b)] + 1 => n < hi
    BY <1>2, <1>3
  <2> QED
    BY <2>1, <2>2 DEF IsCut
<1>9. IsCut(y, <<>>, b[Len(b)] + 1, hi)
  <2>1. \A n \in Records(y) : ~(b[Len(b)] + 1 <= n /\ n < hi)
    BY <1>2, <1>3, <1>6
  <2> QED
    BY <2>1 DEF IsCut
<1> QED
  BY <1>3, <1>5, <1>7, <1>8, <1>9

LEMMA PackedGrows ==
  ASSUME NEW y \in Seq(Nat), NEW l, NEW b \in Seq(1..Len(y)), NEW n \in 1..Len(y),
         Packed(y, l, b), RoomFor(y, l, b, n)
  PROVE  Packed(y, l, Append(b, n))
<1> DEFINE c == Append(b, n)
<1>1. /\ Len(b) \in Nat /\ Len(c) = Len(b) + 1
      /\ c[Len(b) + 1] = n
      /\ \A i \in 1..Len(b) : c[i] = b[i]
  OBVIOUS
<1> SUFFICES ASSUME NEW i \in 1..(Len(c) - 1)
             PROVE  RoomFor(y, l, SubSeq(c, 1, i), c[i + 1])
  BY DEF Packed
<1>2. i \in 1..Len(b) /\ SubSeq(c, 1, i) = SubSeq(b, 1, i)
  BY <1>1, AppendPrefix
<1>3. CASE i = Len(b)
  <2>1. SubSeq(b, 1, i) = b
    BY <1>3, PrefixIs
  <2> QED
    BY <1>1, <1>2, <1>3, <2>1
<1>4. CASE i # Len(b)
  <2>1. i \in 1..(Len(b) - 1) /\ i + 1 \in 1..Len(b)
    BY <1>1, <1>2, <1>4
  <2>2. c[i + 1] = b[i + 1]
    BY <1>1, <2>1
  <2> QED
    BY <1>2, <2>1, <2>2 DEF Packed
<1> QED
  BY <1>3, <1>4

-----------------------------------------------------------------------------
(* The cut is a function of the payload and the limits.                    *)

\* A closed batch that another one begins with is that other one.
LEMMA PrefixIsWhole ==
  ASSUME NEW y \in Seq(Nat), NEW l, NEW b \in Seq(1..Len(y)), NEW c \in Seq(1..Len(y)),
         NEW lo \in Nat, NEW hi \in Nat,
         b # <<>>, Closed(y, l, b),
         IsCut(y, c, lo, hi), Packed(y, l, c),
         \A i \in 1..Len(b) : i <= Len(c) /\ b[i] = c[i]
  PROVE  b = c
<1>1. /\ Len(b) \in Nat /\ Len(c) \in Nat /\ Len(b) \in 1..Len(b)
      /\ Len(b) <= Len(c) /\ b[Len(b)] = c[Len(b)] /\ Len(b) \in 1..Len(c)
  BY EmptySeq
<1>2. \A n \in Records(y) : n \in Nat
  BY DEF Records
<1>3. SUFFICES ASSUME Len(b) < Len(c)
               PROVE  FALSE
  BY <1>1, SeqEqual
<1> DEFINE k == Len(b)
           m == c[k + 1]
<1>4. k \in 1..(Len(c) - 1) /\ k + 1 \in 1..Len(c)
  BY <1>1, <1>3, SMTT(30)
<1>5. \A i \in 1..Len(c) : c[i] \in Records(y) /\ c[i] \in Nat
  BY <1>2 DEF IsCut
<1>6. m \in Records(y) /\ b[k] < m
  BY <1>1, <1>4, <1>5, SMTT(30) DEF IsCut
<1>7. ASSUME NEW n \in Records(y), b[k] < n
      PROVE  m <= n
  <2>1. CASE n < hi
    <3>1. lo <= n
      BY <1>1, <1>2, <1>5, <1>7, SMTT(30) DEF IsCut
    <3>2. PICK i \in 1..Len(c) : c[i] = n
      BY <2>1, <3>1 DEF IsCut
    <3>3. c[k] < c[i] /\ c[k] \in Nat /\ c[i] \in Nat
      BY <1>1, <1>5, <1>7, <3>2
    <3>4. ~(i < k)
      <4>1. i < k => c[i] < c[k]
        BY <1>1 DEF IsCut
      <4>2. \A u, v \in Nat : u < v => ~(v < u)
        OBVIOUS
      <4> QED
        BY <3>3, <4>1, <4>2
    <3>5. i # k
      BY <3>3, SMTT(30)
    <3>6. i = k + 1 \/ k + 1 < i
      BY <1>1, <3>4, <3>5
    <3>7. k + 1 < i => c[k + 1] < c[i]
      BY <1>4 DEF IsCut
    <3>8. m \in Nat
      BY <1>2, <1>6
    <3>9. \A u, v \in Nat : u < v \/ u = v => u <= v
      OBVIOUS
    <3> QED
      BY <3>2, <3>3, <3>6, <3>7, <3>8, <3>9
  <2>2. CASE ~(n < hi)
    <3>1. m < hi
      BY <1>4 DEF IsCut
    <3> QED
      BY <1>2, <1>6, <2>2, <3>1
  <2> QED
    BY <2>1, <2>2
<1>8. ~RoomFor(y, l, b, m)
  BY <1>6, <1>7 DEF Closed
<1>9. SubSeq(c, 1, k) = b
  BY <1>1, PrefixIs
<1> QED
  BY <1>4, <1>8, <1>9 DEF Packed

\* A record that finds room in the beginning of a closed batch is its next line.
LEMMA RoomIsNextLine ==
  ASSUME NEW y \in Seq(Nat), NEW l, NEW b \in Seq(1..Len(y)), NEW c \in Seq(1..Len(y)),
         NEW lo \in Nat, NEW hi \in Nat, NEW n \in Records(y),
         c # <<>>, IsCut(y, c, lo, hi), Closed(y, l, c),
         IsCut(y, b, lo, n), lo <= n, RoomFor(y, l, b, n),
         \A i \in 1..Len(b) : i <= Len(c) /\ b[i] = c[i]
  PROVE  Len(b) < Len(c) /\ c[Len(b) + 1] = n
<1>1. /\ Len(b) \in Nat /\ Len(c) \in Nat
      /\ n \in Nat
      /\ Len(c) \in 1..Len(c)
  BY EmptySeq DEF Records
<1>2. \A m \in Records(y) : m \in Nat
  BY DEF Records
<1>3. \A i \in 1..Len(c) : c[i] \in Records(y) /\ c[i] \in Nat /\ lo <= c[i] /\ c[i] < hi
  BY <1>2 DEF IsCut
<1>4. Len(b) < Len(c)
  <2> SUFFICES ASSUME ~(Len(b) < Len(c))
               PROVE  FALSE
    OBVIOUS
  <2>1. Len(b) = Len(c)
    <3>1. CASE Len(b) = 0
      BY <1>1, <3>1
    <3>2. CASE Len(b) # 0
      <4>1. Len(b) \in 1..Len(b)
        BY <1>1, <3>2
      <4>2. Len(b) <= Len(c)
        BY <4>1
      <4> QED
        BY <1>1, <4>2
    <3> QED
      BY <3>1, <3>2
  <2>2. b = c
    BY <2>1, SeqEqual
  <2>3. c[Len(c)] < n /\ (\A m \in Records(y) : c[Len(c)] < m => n <= m)
    BY <1>1, <2>2, CutEnds
  <2> QED
    BY <2>2, <2>3 DEF Closed
<1> DEFINE k == Len(b) + 1
<1>5. k \in 1..Len(c)
  BY <1>1, <1>4
<1>6. n <= c[k]
  <2> SUFFICES ASSUME c[k] < n
               PROVE  FALSE
    BY <1>1, <1>3, <1>5
  <2>1. PICK i \in 1..Len(b) : b[i] = c[k]
    BY <1>3, <1>5 DEF IsCut
  <2>2. i < k /\ i \in 1..Len(c) /\ c[i] = c[k]
    BY <1>1, <1>4, <2>1
  <2>3. c[i] < c[k]
    BY <1>5, <2>2 DEF IsCut
  <2>4. c[k] \in Nat
    BY <1>3, <1>5
  <2>5. \A u \in Nat : ~(u < u)
    OBVIOUS
  <2> QED
    BY <2>2, <2>3, <2>4, <2>5
<1>7. n < hi
  BY <1>1, <1>3, <1>5, <1>6, CutEnds
<1>8. PICK j \in 1..Len(c) : c[j] = n
  BY <1>7 DEF IsCut
<1>9. ~(j < k)
  <2> SUFFICES ASSUME j < k
               PROVE  FALSE
    OBVIOUS
  <2>1. j \in 1..Len(b)
    BY <1>1
  <2>2. b[j] = n /\ b[j] < n
    BY <1>8, <2>1 DEF IsCut
  <2> QED
    BY <1>1, <2>2
<1>10. k < j => c[k] < c[j]
  BY <1>5 DEF IsCut
<1>11. c[k] \in Nat /\ j \in Nat /\ k \in Nat
  BY <1>1, <1>3, <1>5
<1>12. j = k
  <2>1. ~(k < j)
    BY <1>1, <1>6, <1>8, <1>10, <1>11, SMTT(30)
  <2> QED
    BY <1>9, <1>11, <2>1
<1> QED
  BY <1>4, <1>8, <1>12

-----------------------------------------------------------------------------
(* Types.                                                                  *)

LEMMA PayloadType ==
  ASSUME payload \in Payloads
  PROVE  payload \in Seq(Nat) /\ payload # <<>> /\ Len(payload) \in Nat
BY BatchingConstants

LEMMA TypeInit == Init => TypeOK
<1> SUFFICES ASSUME Init PROVE TypeOK
  OBVIOUS
<1>1. Len(payload) \in Nat
  BY PayloadType DEF Init
<1>2. <<>> \in Seq(Seq(1..Len(payload))) /\ <<>> \in Seq(1..Len(payload))
  OBVIOUS
<1> QED
  BY <1>1, <1>2, BatchingConstants DEF Init, TypeOK

LEMMA TypeStep == TypeOK /\ [Next]_vars => TypeOK'
<1> SUFFICES ASSUME TypeOK, [Next]_vars PROVE TypeOK'
  OBVIOUS
<1>1. payload \in Seq(Nat) /\ Len(payload) \in Nat
  BY PayloadType DEF TypeOK
<1>2. ASSUME Flush PROVE TypeOK'
  <2>1. stored' \in Seq(Seq(1..Len(payload)))
    <3>1. Append(stored, batch) \in Seq(Seq(1..Len(payload)))
      BY AppendProperties DEF TypeOK
    <3> QED
      BY <1>2, <3>1 DEF TypeOK, Flush, SkipBatch, PostBatch, PostFails, Keep
  <2>2. batch' \in Seq(1..Len(payload)) /\ index' \in Nat
    <3>1. <<>> \in Seq(1..Len(payload)) /\ index + 1 \in Nat
      BY DEF TypeOK
    <3> QED
      BY <1>2, <3>1 DEF TypeOK, Flush, SkipBatch, PostBatch, PostFails, NextBatch
  <2>3. pc' \in {"idle", "walk", "closed"}
    BY <1>2 DEF TypeOK, Flush, SkipBatch, PostBatch, PostFails
  <2> QED
    BY <1>2, <2>1, <2>2, <2>3 DEF TypeOK, Flush
<1>3. CASE Upload
  BY <1>1, <1>3, BatchingConstants DEF TypeOK, Upload
<1>4. CASE AddLine
  <2>1. pos \in 1..Len(payload) /\ pos + 1 \in 1..(Len(payload) + 1)
    BY <1>1, <1>4 DEF TypeOK, AddLine
  <2>2. Append(batch, pos) \in Seq(1..Len(payload))
    BY <2>1 DEF TypeOK
  <2> QED
    BY <1>4, <2>1, <2>2 DEF TypeOK, AddLine
<1>5. CASE SkipLine
  BY <1>1, <1>5 DEF TypeOK, SkipLine
<1>6. CASE Close
  BY <1>6 DEF TypeOK, Close, walk
<1>7. CASE UNCHANGED vars
  BY <1>7 DEF TypeOK, vars, walk
<1> QED
  BY <1>2, <1>3, <1>4, <1>5, <1>6, <1>7
  DEF Next, FlushFull, FlushBefore, FlushLast, Ended

THEOREM TypeCorrect == Spec => []TypeOK
BY TypeInit, TypeStep, PTL DEF Spec

-----------------------------------------------------------------------------
(* The invariant.                                                          *)

LEMMA RecordsOfPayload ==
  ASSUME TypeOK
  PROVE  \A n \in 1..Len(payload) : n \in Records(payload) <=> IsRecord(n)
<1>1. Len(payload) \in Nat
  BY PayloadType DEF TypeOK
<1> QED
  BY <1>1 DEF Records, IsRecord

\* Every batch begins at a line, and the kept ones have their types.
LEMMA StoredTypes ==
  ASSUME TypeOK, StoredIsCut
  PROVE  /\ Len(stored) \in Nat
         /\ \A k \in 1..Len(stored) :
              /\ stored[k] \in Seq(1..Len(payload)) /\ Len(stored[k]) \in Nat
              /\ Len(stored[k]) \in 1..Len(stored[k])
              /\ \A i \in 1..Len(stored[k]) : stored[k][i] \in Nat
              /\ From(stored, k + 1) = stored[k][Len(stored[k])] + 1
         /\ \A k \in 1..(Len(stored) + 1) : From(stored, k) \in Nat
<1>1. Len(stored) \in Nat /\ Len(payload) \in Nat
  BY PayloadType DEF TypeOK
<1>2. ASSUME NEW k \in 1..Len(stored)
      PROVE  /\ stored[k] \in Seq(1..Len(payload)) /\ Len(stored[k]) \in Nat
             /\ Len(stored[k]) \in 1..Len(stored[k])
             /\ \A i \in 1..Len(stored[k]) : stored[k][i] \in Nat
             /\ From(stored, k + 1) = stored[k][Len(stored[k])] + 1
  <2>1. stored[k] \in Seq(1..Len(payload)) /\ stored[k] # <<>>
    BY DEF TypeOK, StoredIsCut
  <2>2. Len(stored[k]) \in Nat /\ Len(stored[k]) \in 1..Len(stored[k])
    BY <2>1, EmptySeq
  <2>3. \A i \in 1..Len(stored[k]) : stored[k][i] \in Nat
    BY <1>1, <2>1
  <2>4. k + 1 # 1 /\ (k + 1) - 1 = k
    BY <1>1
  <2> QED
    BY <2>1, <2>2, <2>3, <2>4 DEF From
<1>3. ASSUME NEW k \in 1..(Len(stored) + 1)
      PROVE  From(stored, k) \in Nat
  <2>1. CASE k = 1
    BY <2>1 DEF From
  <2>2. CASE k # 1
    <3>1. k - 1 \in 1..Len(stored) /\ (k - 1) + 1 = k
      BY <1>1, <2>2
    <3>2. From(stored, k) = stored[k - 1][Len(stored[k - 1])] + 1
      BY <2>2 DEF From
    <3>3. stored[k - 1][Len(stored[k - 1])] \in Nat
      BY <1>2, <3>1
    <3> QED
      BY <3>2, <3>3
  <2> QED
    BY <2>1, <2>2
<1> QED
  BY <1>1, <1>2, <1>3

LEMMA FromType ==
  ASSUME TypeOK, StoredIsCut, index <= Len(stored)
  PROVE  From(stored, index + 1) \in Nat
<1>1. index + 1 \in 1..(Len(stored) + 1)
  BY DEF TypeOK
<1> QED
  BY <1>1, StoredTypes

\* Where EachBatch flushes, the batch in hand is not empty and closed.
LEMMA FlushedIsClosed ==
  ASSUME CutInv, FlushFull \/ FlushBefore \/ FlushLast
  PROVE  batch # <<>> /\ Closed(payload, limits, batch)
<1>1. /\ payload \in Seq(Nat) /\ Len(payload) \in Nat
      /\ batch \in Seq(1..Len(payload)) /\ pos \in Nat
      /\ limits.lines \in Nat \ {0}
  BY PayloadType, BatchingConstants DEF CutInv, TypeOK
<1>2. From(stored, index + 1) \in Nat
  BY FromType DEF CutInv, WalkIsCut, TypeOK
<1>3. batch # <<>>
  BY <1>1 DEF FlushFull, FlushBefore, FlushLast, Full, Overflows
<1>4. \A n \in Records(payload) : batch[Len(batch)] < n => pos <= n
  BY <1>1, <1>2, <1>3, CutEnds DEF CutInv, WalkIsCut
<1>5. CASE FlushFull
  BY <1>1, <1>3, <1>5 DEF FlushFull, Full, Closed, RoomFor
<1>6. CASE FlushBefore
  <2>1. pos \in Records(payload)
    BY <1>1, <1>6, RecordsOfPayload DEF FlushBefore, CutInv, TypeOK
  <2>2. batch[Len(batch)] < pos
    BY <1>1, <1>2, <1>3, CutEnds DEF CutInv, WalkIsCut
  <2>3. ~RoomFor(payload, limits, batch, pos)
    <3>1. BytesIn(payload, batch) + payload[pos] + 1 > limits.bytes
      BY <1>6 DEF FlushBefore, Overflows, Bytes
    <3> QED
      BY <1>3, <3>1 DEF RoomFor
  <2>4. ASSUME NEW m \in Records(payload), batch[Len(batch)] < m,
               \A n \in Records(payload) : batch[Len(batch)] < n => m <= n
        PROVE  m = pos
    BY <1>1, <1>4, <2>1, <2>2, <2>4 DEF Records
  <2> QED
    BY <1>3, <2>3, <2>4 DEF Closed
<1>7. CASE FlushLast
  <2>1. \A n \in Records(payload) : ~(batch[Len(batch)] < n)
    BY <1>1, <1>4, <1>7 DEF FlushLast, Records
  <2> QED
    BY <1>3, <2>1 DEF Closed
<1> QED
  BY <1>3, <1>5, <1>6, <1>7

\* The server keeps a new batch.
LEMMA KeepStep ==
  ASSUME CutInv, batch # <<>>, Closed(payload, limits, batch),
         index = Len(stored), stored' = Append(stored, batch),
         UNCHANGED <<payload, limits>>
  PROVE  /\ StoredIsCut' /\ StoredInOrder' /\ StoredCovers'
         /\ \A k \in 1..(Len(stored) + 1) : From(stored', k) = From(stored, k)
         /\ From(stored', Len(stored) + 2) = batch[Len(batch)] + 1
<1> DEFINE N == Len(stored)
           lo == From(stored, N + 1)
           last == batch[Len(batch)]
<1>1. /\ payload \in Seq(Nat) /\ Len(payload) \in Nat
      /\ batch \in Seq(1..Len(payload)) /\ Len(batch) \in Nat /\ pos \in Nat
      /\ Len(batch) \in 1..Len(batch)
      /\ stored \in Seq(Seq(1..Len(payload))) /\ N \in Nat
      /\ \A n \in Records(payload) : n \in Nat
  BY PayloadType, EmptySeq DEF CutInv, TypeOK, Records
<1>2. /\ Len(stored') = N + 1
      /\ \A k \in 1..N : stored'[k] = stored[k]
      /\ stored'[N + 1] = batch
      /\ \A k \in 1..(N + 1) : k \in 1..N \/ k = N + 1
  BY <1>1
<1>3. \A k \in 1..(N + 1) : From(stored', k) = From(stored, k)
  <2> TAKE k \in 1..(N + 1)
  <2>1. k # 1 => k - 1 \in 1..N
    BY <1>1
  <2> QED
    BY <1>2, <2>1 DEF From
<1>4. From(stored', N + 2) = last + 1
  <2>1. N + 2 # 1 /\ (N + 2) - 1 = N + 1
    BY <1>1
  <2> QED
    BY <1>2, <2>1 DEF From
<1>5. IsCut(payload, batch, lo, pos) /\ Packed(payload, limits, batch) /\ lo \in Nat
  BY StoredTypes, <1>1 DEF CutInv, WalkIsCut
<1>6. /\ last \in Nat /\ last < pos
      /\ IsCut(payload, batch, lo, last + 1)
      /\ \A i \in 1..Len(batch) : batch[i] \in Nat /\ lo <= batch[i] /\ batch[i] <= last
  <2>1. /\ last \in Records(payload) /\ last < pos
        /\ IsCut(payload, batch, lo, last + 1)
        /\ \A i \in 1..Len(batch) : batch[i] <= last
    BY <1>1, <1>5, CutEnds
  <2>2. \A i \in 1..Len(batch) : batch[i] \in Records(payload) /\ lo <= batch[i]
    BY <1>5 DEF IsCut
  <2> QED
    BY <1>1, <2>1, <2>2
<1>7. StoredIsCut'
  <2> SUFFICES ASSUME NEW k \in 1..(N + 1)
               PROVE  /\ stored'[k] # <<>>
                      /\ IsCut(payload, stored'[k], From(stored', k), From(stored', k + 1))
                      /\ Packed(payload, limits, stored'[k])
                      /\ Closed(payload, limits, stored'[k])
    BY <1>2 DEF StoredIsCut
  <2>1. CASE k \in 1..N
    <3>1. k + 1 \in 1..(N + 1)
      BY <1>1, <2>1
    <3> QED
      BY <1>2, <1>3, <2>1, <3>1 DEF CutInv, StoredIsCut
  <2>2. CASE k = N + 1
    <3>1. k + 1 = N + 2
      BY <1>1, <2>2
    <3> QED
      BY <1>2, <1>3, <1>4, <1>5, <1>6, <2>2, <3>1
  <2> QED
    BY <1>2, <2>1, <2>2
<1>8. \A k \in 1..N : \A i \in 1..Len(stored[k]) : stored[k][i] \in Nat /\ stored[k][i] < lo
  <2> TAKE k \in 1..N
  <2> TAKE i \in 1..Len(stored[k])
  <2>1. N \in 1..N /\ lo = stored[N][Len(stored[N])] + 1
    BY <1>1, StoredTypes, SMTT(30) DEF CutInv
  <2>2. CASE k = N
    <3>1. N + 1 \in 1..(N + 1) /\ N \in 1..(N + 1)
      BY <1>1, <2>1
    <3>2. IsCut(payload, stored[N], From(stored, N), lo)
      BY <2>1 DEF CutInv, StoredIsCut
    <3> QED
      BY <1>1, <2>2, <3>2 DEF IsCut
  <2>3. CASE k # N
    <3>1. k < N
      BY <1>1, <2>3
    <3>2. Len(stored[N]) \in 1..Len(stored[N])
      BY <2>1, StoredTypes DEF CutInv
    <3>3. stored[k][i] < stored[N][Len(stored[N])]
      BY <2>1, <3>1, <3>2 DEF CutInv, StoredInOrder
    <3>4. stored[k][i] \in Nat /\ stored[N][Len(stored[N])] \in Nat
      BY <2>1, <3>2, StoredTypes DEF CutInv
    <3> QED
      BY <2>1, <3>3, <3>4
  <2> QED
    BY <2>2, <2>3
<1>9. StoredInOrder'
  <2> SUFFICES ASSUME NEW k \in 1..(N + 1), NEW m \in 1..(N + 1), k < m,
                      NEW i \in 1..Len(stored'[k]), NEW j \in 1..Len(stored'[m])
               PROVE  stored'[k][i] < stored'[m][j]
    BY <1>2 DEF StoredInOrder
  <2>1. k \in 1..N /\ stored'[k] = stored[k]
    BY <1>1, <1>2
  <2>2. CASE m \in 1..N
    BY <1>2, <2>1, <2>2 DEF CutInv, StoredInOrder
  <2>3. CASE m = N + 1
    <3>1. stored'[m] = batch
      BY <1>2, <2>3
    <3>2. stored[k][i] \in Nat /\ stored[k][i] < lo
      BY <1>8, <2>1
    <3>3. batch[j] \in Nat /\ lo <= batch[j]
      BY <1>6, <3>1
    <3> QED
      BY <1>5, <2>1, <3>1, <3>2, <3>3
  <2> QED
    BY <1>2, <2>2, <2>3
<1>10. StoredCovers'
  <2> SUFFICES ASSUME NEW n \in Records(payload), n < last + 1
               PROVE  \E k \in 1..(N + 1) : \E i \in 1..Len(stored'[k]) : stored'[k][i] = n
    <3>1. Len(stored') + 1 = N + 2
      BY <1>1, <1>2
    <3> QED
      BY <1>2, <1>4, <3>1 DEF StoredCovers
  <2>1. CASE n < lo
    <3>1. PICK k \in 1..N : \E i \in 1..Len(stored[k]) : stored[k][i] = n
      BY <2>1 DEF CutInv, StoredCovers
    <3>2. k \in 1..(N + 1) /\ stored'[k] = stored[k]
      BY <1>1, <1>2
    <3>3. \E i \in 1..Len(stored'[k]) : stored'[k][i] = n
      BY <3>1, <3>2
    <3> QED
      BY <3>2, <3>3
  <2>2. CASE ~(n < lo)
    <3>1. lo <= n
      BY <1>1, <1>5, <2>2
    <3>2. \E i \in 1..Len(batch) : batch[i] = n
      BY <1>6, <3>1 DEF IsCut
    <3>3. N + 1 \in 1..(N + 1)
      BY <1>1
    <3> QED
      BY <1>2, <3>2, <3>3
  <2> QED
    BY <2>1, <2>2
<1> QED
  BY <1>3, <1>4, <1>7, <1>9, <1>10

\* Where the server has the batch that is flushed, it is that batch.
LEMMA FlushedIsStored ==
  ASSUME CutInv, batch # <<>>, Closed(payload, limits, batch), index < Len(stored)
  PROVE  batch = stored[index + 1]
<1>1. /\ payload \in Seq(Nat) /\ batch \in Seq(1..Len(payload))
      /\ index + 1 \in 1..Len(stored)
      /\ index + 1 \in 1..(Len(stored) + 1) /\ (index + 1) + 1 \in 1..(Len(stored) + 1)
  BY PayloadType DEF CutInv, TypeOK
<1>2. /\ stored[index + 1] \in Seq(1..Len(payload))
      /\ From(stored, index + 1) \in Nat /\ From(stored, (index + 1) + 1) \in Nat
  BY <1>1, StoredTypes DEF CutInv
<1>3. /\ IsCut(payload, stored[index + 1], From(stored, index + 1), From(stored, (index + 1) + 1))
      /\ Packed(payload, limits, stored[index + 1])
      /\ \A i \in 1..Len(batch) : i <= Len(stored[index + 1]) /\ batch[i] = stored[index + 1][i]
  BY <1>1 DEF CutInv, StoredIsCut, WalkIsCut
<1> QED
  BY <1>1, <1>2, <1>3, PrefixIsWhole

\* The walk that goes on behind a batch the server has.
LEMMA NextBatchStep ==
  ASSUME CutInv, batch # <<>>, NextBatch, UNCHANGED <<payload, limits, start, pos>>,
         index + 1 <= Len(stored'), Len(stored) <= Len(stored'), Len(stored') \in Nat,
         From(stored', index + 2) = batch[Len(batch)] + 1,
         index + 1 < Len(stored') => stored'[index + 2] \in Seq(1..Len(payload))
  PROVE  WalkIsCut'
<1>1. /\ payload \in Seq(Nat) /\ batch \in Seq(1..Len(payload)) /\ pos \in Nat
      /\ index \in Nat /\ start \in Nat /\ Len(stored) \in Nat
      /\ batch' = <<>> /\ index' = index + 1 /\ index' + 1 = index + 2
      /\ Len(batch) \in 1..Len(batch)
  BY PayloadType, EmptySeq DEF CutInv, TypeOK, NextBatch
<1>2. From(stored, index + 1) \in Nat
  BY FromType DEF CutInv, WalkIsCut
<1>3. /\ batch[Len(batch)] \in Records(payload) /\ batch[Len(batch)] < pos
      /\ IsCut(payload, <<>>, batch[Len(batch)] + 1, pos)
  BY <1>1, <1>2, CutEnds DEF CutInv, WalkIsCut
<1>4. batch[Len(batch)] + 1 <= pos
  BY <1>1, <1>3 DEF Records
<1>5. Packed(payload, limits, <<>>)
  BY DEF Packed
<1>6. index + 1 <= Len(stored') /\ start <= Len(stored')
  BY <1>1 DEF CutInv, WalkIsCut
<1>7. \A i \in 1..Len(<<>>) : FALSE
  OBVIOUS
<1> QED
  BY <1>1, <1>3, <1>4, <1>5, <1>6, <1>7 DEF WalkIsCut

\* Every outcome of a flush keeps the invariant.
LEMMA FlushStep ==
  ASSUME CutInv, TypeOK', pc = "walk", Flush, batch # <<>>, Closed(payload, limits, batch)
  PROVE  CutInv'
<1>1. /\ payload \in Seq(Nat) /\ batch \in Seq(1..Len(payload)) /\ pos \in Nat
      /\ index \in Nat /\ start \in Nat /\ Len(stored) \in Nat
      /\ stored \in Seq(Seq(1..Len(payload)))
      /\ index <= Len(stored) /\ start <= Len(stored)
      /\ UNCHANGED <<payload, limits, start, pos, tries>>
      /\ Len(stored') \in Nat /\ stored' \in Seq(Seq(1..Len(payload)))
  BY PayloadType, SMTT(30) DEF CutInv, TypeOK, WalkIsCut, Flush
<1>2. ClosedAtEnd'
  BY DEF Flush, SkipBatch, PostBatch, PostFails, ClosedAtEnd
<1>3. index < Len(stored) => batch = stored[index + 1]
  BY FlushedIsStored
<1>4. CASE stored' = stored
  <2>1. StoredIsCut' /\ StoredInOrder' /\ StoredCovers'
    BY <1>1, <1>4 DEF CutInv, StoredIsCut, StoredInOrder, StoredCovers
  <2>2. CASE NextBatch
    <3>1. index < Len(stored)
      <4>1. SkipBatch \/ (PostBatch /\ Keep)
        BY <1>1, <2>2 DEF Flush, SkipBatch, PostBatch, PostFails, NextBatch
      <4>2. CASE SkipBatch
        BY <1>1, <4>2 DEF SkipBatch
      <4>3. CASE Keep
        <5>1. Append(stored, batch) # stored
          BY <1>1, AppendProperties
        <5> QED
          BY <1>1, <1>4, <4>3, <5>1 DEF Keep
      <4> QED
        BY <4>1, <4>2, <4>3
    <3>2. /\ index + 1 \in 1..Len(stored) /\ (index + 1) + 1 = index + 2
          /\ index + 1 < Len(stored) => index + 2 \in 1..Len(stored)
      BY <1>1, <3>1
    <3>3. From(stored, index + 2) = batch[Len(batch)] + 1
      BY <1>3, <3>1, <3>2, StoredTypes DEF CutInv
    <3>4. index + 1 < Len(stored) => stored[index + 2] \in Seq(1..Len(payload))
      BY <1>1, <3>2
    <3>5. index + 1 <= Len(stored) /\ Len(stored) <= Len(stored')
      BY <1>1, <1>4, <3>2
    <3>6. WalkIsCut'
      BY <1>1, <1>4, <2>2, <3>3, <3>4, <3>5, NextBatchStep
    <3> QED
      BY <1>2, <2>1, <3>6 DEF CutInv
  <2>3. CASE ~NextBatch
    <3>1. UNCHANGED <<batch, index>>
      BY <2>3 DEF Flush, SkipBatch, PostBatch, PostFails
    <3>2. WalkIsCut'
      BY <1>1, <1>4, <3>1 DEF CutInv, WalkIsCut
    <3> QED
      BY <1>2, <2>1, <3>2 DEF CutInv
  <2> QED
    BY <2>2, <2>3
<1>5. CASE stored' # stored
  <2>1. index = Len(stored) /\ stored' = Append(stored, batch)
    BY <1>1, <1>5 DEF Flush, SkipBatch, PostBatch, PostFails, Keep
  <2>2. /\ StoredIsCut' /\ StoredInOrder' /\ StoredCovers'
        /\ \A k \in 1..(Len(stored) + 1) : From(stored', k) = From(stored, k)
        /\ From(stored', Len(stored) + 2) = batch[Len(batch)] + 1
    BY <1>1, <2>1, KeepStep
  <2>3. Len(stored') = index + 1 /\ stored'[index + 1] = batch
    BY <1>1, <2>1
  <2>4. CASE NextBatch
    <3>1. index + 1 <= Len(stored') /\ Len(stored) <= Len(stored') /\ ~(index + 1 < Len(stored'))
      BY <1>1, <2>1, <2>3
    <3>2. WalkIsCut'
      BY <1>1, <2>1, <2>2, <2>4, <3>1, NextBatchStep
    <3> QED
      BY <1>2, <2>2, <3>2 DEF CutInv
  <2>5. CASE ~NextBatch
    <3>1. UNCHANGED <<batch, index>>
      BY <2>5 DEF Flush, SkipBatch, PostBatch, PostFails
    <3>2. From(stored', index + 1) = From(stored, index + 1)
      BY <1>1, <2>1, <2>2
    <3>3. index <= Len(stored') /\ start <= Len(stored')
      BY <1>1, <2>1, <2>3
    <3>4. \A i \in 1..Len(batch) : i <= Len(stored'[index + 1]) /\ batch[i] = stored'[index + 1][i]
      BY <1>1, <2>3
    <3>5. WalkIsCut'
      BY <1>1, <3>1, <3>2, <3>3, <3>4 DEF CutInv, WalkIsCut
    <3> QED
      BY <1>2, <2>2, <3>5 DEF CutInv
  <2> QED
    BY <2>4, <2>5
<1> QED
  BY <1>4, <1>5

\* The line AddLine takes is the next one of the batch the server has, if any.
LEMMA AddLineStep ==
  ASSUME CutInv, TypeOK', AddLine
  PROVE  CutInv'
<1> DEFINE lo == From(stored, index + 1)
<1>1. /\ payload \in Seq(Nat) /\ batch \in Seq(1..Len(payload)) /\ Len(batch) \in Nat
      /\ index \in Nat /\ Len(stored) \in Nat /\ pos \in 1..Len(payload) /\ lo \in Nat
      /\ limits.lines \in Nat \ {0}
      /\ UNCHANGED <<payload, limits, stored, pc, start, index>>
      /\ batch' = Append(batch, pos) /\ pos' = pos + 1
  BY PayloadType, FromType, BatchingConstants DEF CutInv, TypeOK, WalkIsCut, AddLine
<1>2. pos \in Records(payload) /\ pos \in Nat
  BY <1>1, RecordsOfPayload DEF CutInv, AddLine
<1>3. RoomFor(payload, limits, batch, pos)
  <2>1. Len(batch) < limits.lines
    BY <1>1 DEF AddLine, Full
  <2> QED
    BY <2>1 DEF AddLine, Overflows, Bytes, RoomFor
<1>4. lo <= pos /\ IsCut(payload, batch, lo, pos) /\ Packed(payload, limits, batch)
  BY DEF CutInv, WalkIsCut
<1>5. IsCut(payload, batch', lo, pos + 1) /\ Packed(payload, limits, batch')
  BY <1>1, <1>2, <1>3, <1>4, CutGrows, PackedGrows
<1>6. ASSUME index < Len(stored), NEW i \in 1..(Len(batch) + 1)
      PROVE  i <= Len(stored[index + 1]) /\ batch'[i] = stored[index + 1][i]
  <2> DEFINE c == stored[index + 1]
  <2>1. index + 1 \in 1..Len(stored) /\ (index + 1) + 1 \in 1..(Len(stored) + 1)
    BY <1>1, <1>6
  <2>2. c \in Seq(1..Len(payload)) /\ Len(c) \in Nat /\ From(stored, (index + 1) + 1) \in Nat
    BY <2>1, StoredTypes DEF CutInv
  <2>3. /\ c # <<>> /\ Closed(payload, limits, c)
        /\ IsCut(payload, c, lo, From(stored, (index + 1) + 1))
        /\ \A j \in 1..Len(batch) : j <= Len(c) /\ batch[j] = c[j]
    BY <1>6, <2>1 DEF CutInv, StoredIsCut, WalkIsCut
  <2>4. Len(batch) < Len(c) /\ c[Len(batch) + 1] = pos
    <3> HIDE DEF c, lo
    <3> QED
      BY <1>1, <1>2, <1>3, <1>4, <2>2, <2>3, RoomIsNextLine
  <2>5. CASE i \in 1..Len(batch)
    <3>1. batch'[i] = batch[i]
      BY <1>1, <2>5
    <3> QED
      BY <2>3, <2>5, <3>1
  <2>6. CASE i = Len(batch) + 1
    <3>1. batch'[i] = pos
      BY <1>1, <2>6
    <3>2. i <= Len(c) /\ c[i] = pos
      <4> HIDE DEF c
      <4> QED
        BY <1>1, <2>2, <2>4, <2>6
    <3> QED
      BY <3>1, <3>2
  <2> QED
    BY <1>1, <2>5, <2>6
<1>7. Len(batch') = Len(batch) + 1 /\ lo <= pos + 1
  BY <1>1, <1>2, <1>4
<1>8. WalkIsCut'
  BY <1>1, <1>5, <1>6, <1>7 DEF CutInv, WalkIsCut
<1>9. StoredIsCut' /\ StoredInOrder' /\ StoredCovers'
  BY <1>1 DEF CutInv, StoredIsCut, StoredInOrder, StoredCovers
<1>10. ClosedAtEnd'
  BY DEF AddLine, ClosedAtEnd
<1> QED
  BY <1>8, <1>9, <1>10 DEF CutInv

LEMMA SkipLineStep ==
  ASSUME CutInv, TypeOK', SkipLine
  PROVE  CutInv'
<1>1. /\ payload \in Seq(Nat) /\ batch \in Seq(1..Len(payload))
      /\ pos \in 1..Len(payload) /\ pos \in Nat /\ From(stored, index + 1) \in Nat
      /\ UNCHANGED <<payload, limits, stored, pc, start, batch, index>> /\ pos' = pos + 1
  BY PayloadType, FromType DEF CutInv, TypeOK, WalkIsCut, SkipLine
<1>2. pos \notin Records(payload)
  BY <1>1, RecordsOfPayload DEF CutInv, SkipLine
<1>3. IsCut(payload, batch, From(stored, index + 1), pos + 1)
  BY <1>1, <1>2, CutSkips DEF CutInv, WalkIsCut
<1>4. From(stored, index + 1) <= pos + 1
  BY <1>1 DEF CutInv, WalkIsCut
<1>5. WalkIsCut'
  BY <1>1, <1>3, <1>4 DEF CutInv, WalkIsCut
<1>6. StoredIsCut' /\ StoredInOrder' /\ StoredCovers'
  BY <1>1 DEF CutInv, StoredIsCut, StoredInOrder, StoredCovers
<1>7. ClosedAtEnd'
  BY DEF SkipLine, ClosedAtEnd
<1> QED
  BY <1>5, <1>6, <1>7 DEF CutInv

\* A walk from the first line is at the beginning of the first batch.
LEMMA WalkStarts ==
  ASSUME payload \in Payloads
  PROVE  /\ From(stored, 1) = 1
         /\ IsCut(payload, <<>>, 1, 1) /\ Packed(payload, limits, <<>>)
BY PayloadType, CutEmpty DEF From, Packed

LEMMA UploadStep ==
  ASSUME CutInv, TypeOK', Upload
  PROVE  CutInv'
<1>1. /\ UNCHANGED <<payload, limits, stored>>
      /\ start' = Len(stored) /\ pos' = 1 /\ batch' = <<>> /\ index' = 0 /\ pc' = "walk"
      /\ Len(stored) \in Nat /\ payload \in Payloads
  BY DEF CutInv, TypeOK, Upload
<1>2. WalkIsCut'
  BY <1>1, WalkStarts DEF WalkIsCut
<1>3. StoredIsCut' /\ StoredInOrder' /\ StoredCovers'
  BY <1>1 DEF CutInv, StoredIsCut, StoredInOrder, StoredCovers
<1>4. ClosedAtEnd'
  BY <1>1 DEF ClosedAtEnd
<1> QED
  BY <1>2, <1>3, <1>4 DEF CutInv

\* At the end of the file with nothing in hand, the walk came past every batch.
LEMMA CloseStep ==
  ASSUME CutInv, TypeOK', Close
  PROVE  CutInv'
<1>1. UNCHANGED <<payload, limits, stored, start, pos, batch, index>>
  BY DEF Close, walk
<1>2. index = Len(stored)
  <2> SUFFICES ASSUME index # Len(stored)
               PROVE  FALSE
    OBVIOUS
  <2> DEFINE c == stored[index + 1]
  <2>1. /\ payload \in Seq(Nat) /\ Len(payload) \in Nat /\ pos \in Nat /\ Len(payload) < pos
        /\ index + 1 \in 1..Len(stored)
    BY PayloadType DEF CutInv, TypeOK, WalkIsCut, Close
  <2>2. 1 \in 1..Len(c)
    BY <2>1, StoredTypes DEF CutInv
  <2>3. c[1] \in Records(payload) /\ From(stored, index + 1) <= c[1]
    BY <2>1, <2>2 DEF CutInv, StoredIsCut, IsCut
  <2>4. c[1] < pos
    BY <2>1, <2>3 DEF Records
  <2>5. \E i \in 1..Len(batch) : batch[i] = c[1]
    BY <2>3, <2>4 DEF CutInv, WalkIsCut, IsCut
  <2> QED
    BY <2>5 DEF Close
<1>3. StoredIsCut' /\ StoredInOrder' /\ StoredCovers' /\ WalkIsCut'
  BY <1>1 DEF CutInv, StoredIsCut, StoredInOrder, StoredCovers, WalkIsCut
<1>4. ClosedAtEnd'
  BY <1>1, <1>2 DEF Close, ClosedAtEnd
<1> QED
  BY <1>3, <1>4 DEF CutInv

LEMMA CutInvInit == Init => CutInv
<1> SUFFICES ASSUME Init PROVE CutInv
  OBVIOUS
<1>1. TypeOK /\ payload \in Payloads
  BY TypeInit DEF Init
<1>2. Len(stored) = 0 /\ index = 0 /\ start = 0 /\ pos = 1 /\ batch = <<>> /\ pc = "idle"
  BY DEF Init
<1>3. WalkIsCut
  BY <1>1, <1>2, WalkStarts DEF WalkIsCut
<1>4. StoredIsCut /\ StoredInOrder
  BY <1>2 DEF StoredIsCut, StoredInOrder
<1>5. StoredCovers
  BY <1>1, <1>2, WalkStarts DEF StoredCovers, Records
<1>6. ClosedAtEnd
  BY <1>2 DEF ClosedAtEnd
<1> QED
  BY <1>1, <1>3, <1>4, <1>5, <1>6 DEF CutInv

LEMMA CutInvStep == CutInv /\ [Next]_vars => CutInv'
<1> SUFFICES ASSUME CutInv, [Next]_vars PROVE CutInv'
  OBVIOUS
<1>1. TypeOK'
  BY TypeStep DEF CutInv
<1>2. CASE Upload
  BY <1>1, <1>2, UploadStep
<1>3. CASE FlushFull \/ FlushBefore \/ FlushLast
  BY <1>1, <1>3, FlushedIsClosed, FlushStep DEF FlushFull, FlushBefore, FlushLast
<1>4. CASE AddLine
  BY <1>1, <1>4, AddLineStep
<1>5. CASE SkipLine
  BY <1>1, <1>5, SkipLineStep
<1>6. CASE Close
  BY <1>1, <1>6, CloseStep
<1>7. CASE UNCHANGED vars
  BY <1>1, <1>7, SMTT(30)
  DEF vars, walk, CutInv, StoredIsCut, StoredInOrder, StoredCovers, WalkIsCut, ClosedAtEnd
<1> QED
  BY <1>2, <1>3, <1>4, <1>5, <1>6, <1>7 DEF Next, Ended

-----------------------------------------------------------------------------
(* The theorems.                                                           *)

\* A batch that is sent or skipped under an index the server has is the batch
\* the server has, however many uploads died before this one and wherever
\* (Spool.EachBatch, and Send's resumption).
THEOREM SameBatchOnResumeAlways == Spec => SameBatchOnResume
<1>1. ASSUME CutInv, [Next]_vars
      PROVE  [index' = index + 1 /\ index < Len(stored) => batch = stored[index + 1]]_vars
  <2> SUFFICES ASSUME Next, index' = index + 1, index < Len(stored)
               PROVE  batch = stored[index + 1]
    BY <1>1
  <2>1. index \in Nat /\ index' # index
    BY <1>1 DEF CutInv, TypeOK
  <2>2. FlushFull \/ FlushBefore \/ FlushLast
    BY <2>1 DEF Next, Upload, AddLine, SkipLine, Close, Ended, walk, vars
  <2> QED
    BY <1>1, <2>2, FlushedIsClosed, FlushedIsStored
<1> QED
  BY <1>1, CutInvInit, CutInvStep, PTL DEF Spec, SameBatchOnResume

\* A scan that closes holds every record of its payload, each once and in the
\* payload's order, and nothing else.
THEOREM ClosedMeansCompleteAlways == Spec => []ClosedMeansComplete
<1>1. ASSUME CutInv
      PROVE  ClosedMeansComplete
  <2> SUFFICES ASSUME pc = "closed"
               PROVE  /\ \A b \in Range(stored) : \A n \in Range(b) : IsRecord(n)
                      /\ \A n \in DOMAIN payload :
                           IsRecord(n) => \E b \in Range(stored) : n \in Range(b)
                      /\ \A k, m \in DOMAIN stored :
                           \A i \in DOMAIN stored[k], j \in DOMAIN stored[m] :
                             k < m \/ (k = m /\ i < j) => stored[k][i] < stored[m][j]
    BY DEF ClosedMeansComplete
  <2>1. /\ payload \in Seq(Nat) /\ Len(payload) \in Nat /\ pos \in Nat
        /\ stored \in Seq(Seq(1..Len(payload)))
        /\ DOMAIN stored = 1..Len(stored) /\ DOMAIN payload = 1..Len(payload)
        /\ Len(payload) < pos /\ batch = <<>> /\ index = Len(stored)
    BY <1>1, PayloadType, LenProperties DEF CutInv, TypeOK, ClosedAtEnd
  <2>2. \A k \in 1..Len(stored) :
          stored[k] \in Seq(1..Len(payload)) /\ DOMAIN stored[k] = 1..Len(stored[k])
    BY <2>1
  <2>3. \A k \in 1..Len(stored) : \A i \in 1..Len(stored[k]) : IsRecord(stored[k][i])
    <3> TAKE k \in 1..Len(stored)
    <3> TAKE i \in 1..Len(stored[k])
    <3>1. stored[k][i] \in Records(payload) /\ stored[k][i] \in 1..Len(payload)
      BY <1>1, <2>2 DEF CutInv, StoredIsCut, IsCut
    <3> QED
      BY <1>1, <3>1, RecordsOfPayload DEF CutInv
  <2>4. \A b \in Range(stored) : \A n \in Range(b) : IsRecord(n)
    BY <2>1, <2>2, <2>3 DEF Range
  <2>5. ASSUME NEW n \in DOMAIN payload, IsRecord(n)
        PROVE  \E b \in Range(stored) : n \in Range(b)
    <3>1. n \in Records(payload) /\ n \in Nat /\ n < pos
      BY <1>1, <2>1, <2>5, RecordsOfPayload DEF CutInv
    <3>2. n < From(stored, Len(stored) + 1)
      <4> SUFFICES ASSUME ~(n < From(stored, Len(stored) + 1))
                   PROVE  FALSE
        OBVIOUS
      <4>1. From(stored, Len(stored) + 1) \in Nat
        BY <1>1, <2>1, FromType DEF CutInv, WalkIsCut
      <4>2. \E i \in 1..Len(batch) : batch[i] = n
        BY <1>1, <2>1, <3>1, <4>1 DEF CutInv, WalkIsCut, IsCut
      <4> QED
        BY <2>1, <4>2
    <3>3. PICK k \in 1..Len(stored) : \E i \in 1..Len(stored[k]) : stored[k][i] = n
      BY <1>1, <3>1, <3>2 DEF CutInv, StoredCovers
    <3> QED
      BY <2>1, <2>2, <3>3 DEF Range
  <2>6. ASSUME NEW k \in 1..Len(stored), NEW m \in 1..Len(stored),
               NEW i \in 1..Len(stored[k]), NEW j \in 1..Len(stored[m]),
               k < m \/ (k = m /\ i < j)
        PROVE  stored[k][i] < stored[m][j]
    BY <1>1, <2>6 DEF CutInv, StoredInOrder, StoredIsCut, IsCut
  <2> QED
    BY <2>1, <2>2, <2>4, <2>5, <2>6
<1> QED
  BY <1>1, CutInvInit, CutInvStep, PTL DEF Spec


-----------------------------------------------------------------------------
(* Induction over the natural numbers, for sets instead of predicates.     *)

LEMMA LeastNumber ==
  ASSUME NEW T, T \subseteq Nat, T # {}
  PROVE  \E x \in T : \A y \in T : x <= y
<1> DEFINE R == OpToRel(<, Nat)
<1>1. IsWellFoundedOn(R, Nat)
  BY NatLessThanWellFounded
<1> HIDE DEF R
<1>2. PICK x \in T : \A y \in T : ~ (<<y, x>> \in R)
  BY <1>1, WFMin, Zenon
<1>3. \A y, z \in Nat : y < z => <<y, z>> \in R
  BY DEF R, OpToRel
<1>4. \A y \in T : ~ (y < x)
  BY <1>2, <1>3
<1> QED
  BY <1>4

\* Induction, in the form the provers can apply: a set of numbers that has 0 and with
\* every number its successor has them all.
LEMMA AllNumbers ==
  ASSUME NEW T, 0 \in T, \A n \in Nat : n \in T => n + 1 \in T
  PROVE  Nat \subseteq T
<1> SUFFICES ASSUME Nat \ T # {} PROVE FALSE
  OBVIOUS
<1>1. PICK n \in Nat \ T : \A m \in Nat \ T : n <= m
  BY LeastNumber
<1>2. n - 1 \in Nat /\ n - 1 \in T
  BY <1>1
<1> QED
  BY <1>1, <1>2

\* The steps of a recursion over S, and what it computes from a.
Steps(S) == [Nat \X S -> S]
Computes(f, S, a, g) ==
  /\ f \in [Nat -> S] /\ f[0] = a
  /\ \A n \in Nat : f[n + 1] = g[<<n + 1, f[n]>>]

\* A recursion has a result.
LEMMA Recursion ==
  ASSUME NEW S, NEW a, a \in S, NEW g, g \in Steps(S)
  PROVE  \E f : Computes(f, S, a, g)
<1> USE DEF Steps
<1> DEFINE Upto(n, h) == /\ h \in [0..n -> S] /\ h[0] = a
                         /\ \A k \in 0..(n - 1) : h[k + 1] = g[<<k + 1, h[k]>>]
<1>1. \A n \in Nat : \E h : Upto(n, h)
  <2> DEFINE T == {n \in Nat : \E h : Upto(n, h)}
  <2>1. 0 \in T
    <3>1. Upto(0, [k \in 0..0 |-> a])
      OBVIOUS
    <3> QED
      BY <3>1
  <2>2. ASSUME NEW n \in Nat, n \in T PROVE n + 1 \in T
    <3>1. PICK h : Upto(n, h)
      BY <2>2
    <3> DEFINE e == [k \in 0..(n + 1) |-> IF k <= n THEN h[k] ELSE g[<<n + 1, h[n]>>]]
    <3>2. e \in [0..(n + 1) -> S]
      BY <3>1
    <3>3. e[0] = a
      BY <3>1
    <3>4. ASSUME NEW k \in 0..n PROVE e[k + 1] = g[<<k + 1, e[k]>>]
      <4>1. CASE k = n
        <5>1. k + 1 = n + 1 /\ ~(n + 1 <= n) /\ n <= n /\ k + 1 \in 0..(n + 1) /\ k \in 0..(n + 1)
          BY <4>1
        <5>2. e[k + 1] = g[<<n + 1, h[n]>>]
          BY <5>1
        <5>3. e[k] = h[n]
          BY <4>1, <5>1
        <5> QED
          BY <5>1, <5>2, <5>3
      <4>2. CASE k < n
        <5>1. k \in 0..(n - 1) /\ k + 1 \in 0..n
          BY <4>2
        <5> QED
          BY <5>1, <3>1
      <4> QED
        BY <4>1, <4>2
    <3>5. Upto(n + 1, e)
      <4> HIDE DEF e
      <4> QED
        BY <3>2, <3>3, <3>4
    <3>6. \E q : Upto(n + 1, q)
      <4> HIDE DEF Upto, e
      <4> QED
        BY <3>5
    <3> HIDE DEF Upto, e
    <3> QED
      BY <3>6
  <2> HIDE DEF Upto
  <2>3. Nat \subseteq T
    <3> HIDE DEF T
    <3> QED
      BY <2>1, <2>2, AllNumbers
  <2> QED
    BY <2>3
<1>2. ASSUME NEW n \in Nat, NEW m \in Nat, n <= m, NEW h, NEW e, Upto(n, h), Upto(m, e)
      PROVE  \A k \in 0..n : h[k] = e[k]
  <2> DEFINE T == {k \in Nat : k <= n => h[k] = e[k]}
  <2>1. 0 \in T
    BY <1>2
  <2>2. ASSUME NEW k \in Nat, k \in T PROVE k + 1 \in T
    <3> SUFFICES ASSUME k + 1 <= n PROVE h[k + 1] = e[k + 1]
      OBVIOUS
    <3>1. k \in 0..(n - 1) /\ k \in 0..(m - 1) /\ k <= n
      BY <1>2
    <3>2. h[k + 1] = g[<<k + 1, h[k]>>] /\ e[k + 1] = g[<<k + 1, e[k]>>]
      BY <1>2, <3>1
    <3> QED
      BY <2>2, <3>1, <3>2
  <2>3. Nat \subseteq T
    <3> HIDE DEF T
    <3> QED
      BY <2>1, <2>2, AllNumbers
  <2> QED
    BY <2>3
<1> DEFINE H == [n \in Nat |-> CHOOSE h : Upto(n, h)]
<1>3. ASSUME NEW n \in Nat PROVE Upto(n, H[n])
  <2> HIDE DEF Upto
  <2>1. PICK h : Upto(n, h)
    BY <1>1
  <2> QED
    BY <2>1
<1> HIDE DEF H
<1> DEFINE f == [n \in Nat |-> H[n][n]]
<1>4. f \in [Nat -> S]
  <2>1. ASSUME NEW n \in Nat PROVE f[n] \in S
    <3>1. H[n] \in [0..n -> S] /\ n \in 0..n
      BY <1>3
    <3> QED
      BY <3>1
  <2> QED
    BY <2>1
<1>5. f[0] = a
  BY <1>3
<1>6. ASSUME NEW n \in Nat PROVE f[n + 1] = g[<<n + 1, f[n]>>]
  <2>1. Upto(n + 1, H[n + 1]) /\ Upto(n, H[n])
    BY <1>3
  <2>2. n <= n + 1 /\ n + 1 \in Nat /\ n \in 0..n /\ n \in 0..(n + 1 - 1)
    OBVIOUS
  <2>4. H[n][n] = H[n + 1][n]
    <3> HIDE DEF Upto
    <3> QED
      BY <2>1, <2>2, <1>2
  <2>5. H[n + 1][n + 1] = g[<<n + 1, H[n + 1][n]>>]
    BY <2>1, <2>2, SMTT(30)
  <2> QED
    BY <2>4, <2>5
<1>7. Computes(f, S, a, g)
  <2> HIDE DEF f
  <2> QED
    BY <1>4, <1>5, <1>6 DEF Computes
<1> QED
  BY <1>7
-----------------------------------------------------------------------------
(* Powers of two, and words.                                               *)

LEMMA Power2Recursive == Power2 = [n \in Nat |-> IF n = 0 THEN 1 ELSE 2 * Power2[n - 1]]
<1> DEFINE g == [p \in Nat \X Nat |-> 2 * p[2]]
<1>1. g \in Steps(Nat)
  BY DEF Steps
<1> HIDE DEF g
<1>2. PICK f : Computes(f, Nat, 1, g)
  <2>1. 1 \in Nat
    OBVIOUS
  <2> QED
    BY <1>1, <2>1, Recursion
<1> USE DEF Computes
<1>3. ASSUME NEW n \in Nat, n # 0 PROVE f[n] = 2 * f[n - 1]
  <2>1. n - 1 \in Nat /\ n = (n - 1) + 1
    BY <1>3
  <2>2. f[n] = g[<<n, f[n - 1]>>] /\ f[n - 1] \in Nat
    BY <2>1, <1>2
  <2> QED
    BY <2>1, <2>2 DEF g
<1>4. f = [n \in Nat |-> IF n = 0 THEN 1 ELSE 2 * f[n - 1]]
  BY <1>2, <1>3
<1> QED
  BY <1>4 DEF Power2

LEMMA Power2Facts ==
  /\ Power2 \in [Nat -> Nat \ {0}]
  /\ Power2[0] = 1
  /\ \A n \in Nat : Power2[n + 1] = 2 * Power2[n]
<1>1. Power2[0] = 1
  BY Power2Recursive
<1>2. ASSUME NEW n \in Nat PROVE Power2[n + 1] = 2 * Power2[n]
  BY Power2Recursive
<1>3. ASSUME NEW n \in Nat PROVE Power2[n] \in Nat \ {0}
  <2> DEFINE T == {k \in Nat : Power2[k] \in Nat \ {0}}
  <2>1. 0 \in T
    BY <1>1
  <2>2. ASSUME NEW k \in Nat, k \in T PROVE k + 1 \in T
    BY <1>2, <2>2
  <2>3. Nat \subseteq T
    <3> HIDE DEF T
    <3> QED
      BY <2>1, <2>2, AllNumbers
  <2> QED
    BY <2>3
<1>4. Power2 = [n \in Nat |-> Power2[n]]
  BY Power2Recursive
<1> QED
  BY <1>1, <1>2, <1>3, <1>4

LEMMA Power2Sum ==
  ASSUME NEW m \in Nat, NEW n \in Nat
  PROVE  Power2[m + n] = Power2[m] * Power2[n]
<1> DEFINE T == {k \in Nat : Power2[m + k] = Power2[m] * Power2[k]}
<1>1. 0 \in T
  BY Power2Facts
<1>2. ASSUME NEW k \in Nat, k \in T PROVE k + 1 \in T
  <2>1. Power2[m + (k + 1)] = 2 * Power2[m + k]
    <3>1. m + (k + 1) = (m + k) + 1 /\ m + k \in Nat
      OBVIOUS
    <3> QED
      BY <3>1, Power2Facts
  <2>2. Power2[k + 1] = 2 * Power2[k]
    BY Power2Facts
  <2>3. \A u, v \in Nat : 2 * (u * v) = u * (2 * v)
    OBVIOUS
  <2>4. Power2[m] \in Nat /\ Power2[k] \in Nat
    BY Power2Facts
  <2> QED
    BY <1>2, <2>1, <2>2, <2>3, <2>4
<1>3. Nat \subseteq T
  <2> HIDE DEF T
  <2> QED
    BY <1>1, <1>2, AllNumbers
<1> QED
  BY <1>3

\* The remainder is the only one there is.
LEMMA RemainderIsUnique ==
  ASSUME NEW m \in Nat \ {0}, NEW q \in Nat, NEW r \in Nat, r < m
  PROVE  (m * q + r) % m = r
OBVIOUS

\* A shift that does not overflow is exact; one that does leaves nothing, or something
\* negative, or no less than what was shifted, if that is small enough for its square to
\* be a duration.
BaseFits == Base * Base <= Power2[WordBits - 1]

LEMMA WordFacts ==
  /\ Power2[WordBits] \in Nat \ {0} /\ Power2[WordBits - 1] \in Nat \ {0}
  /\ Power2[WordBits] = 2 * Power2[WordBits - 1]
<1>1. WordBits - 1 \in Nat /\ WordBits = (WordBits - 1) + 1
  BY RetryConstants
<1> QED
  BY <1>1, Power2Facts, RetryConstants

LEMMA WrapIsExact ==
  ASSUME NEW x \in Nat, x < Power2[WordBits - 1]
  PROVE  Wrap(x) = x
<1>1. x % Power2[WordBits] = x
  <2>1. (Power2[WordBits] * 0 + x) % Power2[WordBits] = x
    BY WordFacts, RemainderIsUnique
  <2> QED
    BY <2>1, WordFacts
<1> QED
  BY <1>1, WordFacts DEF Wrap

LEMMA WrapIsInteger ==
  ASSUME NEW x \in Nat
  PROVE  Wrap(x) \in Int
BY WordFacts DEF Wrap

LEMMA ShiftIsLarge ==
  ASSUME BaseFits, NEW k \in Nat, Wrap(Base * Power2[k]) > 0
  PROVE  Wrap(Base * Power2[k]) >= Base
<1> DEFINE P == Power2[k]
           M == Power2[WordBits]
           H == Power2[WordBits - 1]
<1>0. P \in Nat \ {0} /\ Base \in Nat \ {0} /\ WordBits \in Nat
  BY Power2Facts, RetryConstants
<1>1. CASE k <= WordBits
  <2>1. PICK Q \in Nat \ {0} : M = P * Q
    <3>1. WordBits - k \in Nat /\ WordBits = k + (WordBits - k)
      BY <1>0, <1>1
    <3>2. M = P * Power2[WordBits - k]
      BY <3>1, Power2Sum
    <3>3. Power2[WordBits - k] \in Nat \ {0}
      BY <3>1, Power2Facts
    <3> QED
      BY <3>2, <3>3
  <2>2. PICK q, r \in Nat : Base = Q * q + r /\ r < Q
    <3>1. \A a \in Nat, b \in Nat \ {0} : a % b \in Nat /\ a % b < b
      OBVIOUS
    <3>2. \A a \in Nat, b \in Nat \ {0} : a \div b \in Nat
      OBVIOUS
    <3>3. ASSUME NEW a \in Nat, NEW b \in Nat \ {0} PROVE a % b = a - b * (a \div b)
      OBVIOUS
    <3>4. PICK u, v \in Nat : u = Base \div Q /\ v = Base % Q /\ v < Q
      BY <1>0, <2>1, <3>1, <3>2
    <3>5. v = Base - Q * u
      BY <1>0, <2>1, <3>3, <3>4
    <3>6. PICK w \in Nat : w = Q * u
      BY <2>1, <3>4
    <3>7. Base = w + v
      BY <1>0, <3>4, <3>5, <3>6
    <3> QED
      BY <3>4, <3>6, <3>7
  <2>3. Base * P = M * q + P * r
    <3>1. \A a, b, c, d \in Nat : (a * b + c) * d = (d * a) * b + d * c
      OBVIOUS
    <3> QED
      BY <3>1, <1>0, <2>1, <2>2
  <2>4. P * r \in Nat /\ P * r < M
    <3>1. \A a, b \in Nat, c \in Nat \ {0} : a < b => c * a \in Nat /\ c * a < c * b
      OBVIOUS
    <3> QED
      BY <3>1, <1>0, <2>1, <2>2
  <2>5. (Base * P) % M = P * r
    BY <2>3, <2>4, WordFacts, RemainderIsUnique
  <2>6. P * r > 0 /\ P * r < H /\ Wrap(Base * P) = P * r
    BY <2>4, <2>5, WordFacts DEF Wrap
  <2>7. CASE Base * P < H
    <3>1. Wrap(Base * P) = Base * P
      <4>1. Base * P \in Nat
        BY <1>0
      <4> QED
        BY <2>7, <4>1, WrapIsExact
    <3>2. \A a \in Nat, b \in Nat \ {0} : a * b >= a
      OBVIOUS
    <3> QED
      BY <3>1, <3>2, <1>0
  <2>8. CASE Base * P >= H
    <3>1. Base * P >= Base * Base
      BY <2>8, <1>0, WordFacts DEF BaseFits
    <3>2. \A a, b \in Nat \ {0} : a * b >= a * a => b >= a
      OBVIOUS
    <3>3. P >= Base
      BY <3>1, <3>2, <1>0
    <3>4. r > 0
      BY <2>6, <2>2, <1>0
    <3>5. \A a, b \in Nat \ {0} : a * b >= a
      OBVIOUS
    <3>6. P * r >= P
      BY <3>4, <3>5, <2>2, <1>0
    <3> QED
      BY <3>3, <3>6, <2>4, <2>6, <1>0
  <2> QED
    BY <2>7, <2>8, <1>0, WordFacts
<1>2. CASE k > WordBits
  <2>1. PICK Q \in Nat : P = M * Q
    <3>1. k - WordBits \in Nat /\ k = WordBits + (k - WordBits)
      BY <1>0, <1>2
    <3>2. P = M * Power2[k - WordBits]
      BY <3>1, <1>0, Power2Sum
    <3>3. Power2[k - WordBits] \in Nat
      BY <3>1, Power2Facts
    <3> QED
      BY <3>2, <3>3
  <2>2. Base * P = M * (Base * Q) + 0
    <3>1. \A a, b, c \in Nat : a * (b * c) = b * (a * c) + 0
      OBVIOUS
    <3> QED
      BY <3>1, <2>1, <1>0, WordFacts
  <2>3. Base * Q \in Nat
    BY <1>0, <2>1
  <2>4. (Base * P) % M = 0
    BY <2>2, <2>3, WordFacts, RemainderIsUnique
  <2> QED
    BY <2>4, WordFacts DEF Wrap
<1> QED
  BY <1>0, <1>1, <1>2

-----------------------------------------------------------------------------
(* What is drawn from, and what is asked for.                              *)

LEMMA BackoffBounds ==
  ASSUME BaseFits, NEW n \in Nat \ {0}, NEW b \in Backoff(n)
  PROVE  b \in Nat /\ Base \div 2 <= b /\ b <= MaxWait
<1>1. n - 1 \in Nat
  OBVIOUS
<1>2. Interval(n) \in Nat /\ Base <= Interval(n) /\ Interval(n) <= MaxWait
  <2>1. Wrap(Base * Power2[n - 1]) \in Int
    <3>1. Power2[n - 1] \in Nat /\ Base \in Nat
      BY <1>1, Power2Facts, RetryConstants
    <3>2. Base * Power2[n - 1] \in Nat
      BY <3>1
    <3> QED
      BY <3>2, WrapIsInteger
  <2>2. Wrap(Base * Power2[n - 1]) > 0 => Wrap(Base * Power2[n - 1]) >= Base
    BY <1>1, ShiftIsLarge
  <2> QED
    BY <2>1, <2>2, RetryConstants DEF Interval
<1>3. \A u, v \in Nat : u <= v => u \div 2 <= v \div 2 /\ u \div 2 \in Nat /\ 2 * (v \div 2) <= v
  OBVIOUS
<1>4. Base \div 2 <= Interval(n) \div 2 /\ Interval(n) \div 2 \in Nat /\ 2 * (Interval(n) \div 2) <= Interval(n)
  BY <1>2, <1>3, RetryConstants
<1> QED
  BY <1>2, <1>4, RetryConstants DEF Backoff

LEMMA RetryAfterBounds ==
  ASSUME NEW n \in Nat
  PROVE  /\ RetryAfter(n) \in Int /\ RetryAfter(n) <= RetryAfterCap
         /\ n * Second <= RetryAfterCap => RetryAfter(n) = n * Second
<1>1. n * Second \in Nat
  BY RetryConstants
<1>2. Wrap(n * Second) \in Int
  BY <1>1, WrapIsInteger
<1>3. n * Second <= RetryAfterCap => Wrap(n * Second) = n * Second
  BY <1>1, WrapIsExact, WordFacts, RetryConstants
<1> QED
  BY <1>1, <1>2, <1>3, RetryConstants DEF RetryAfter

-----------------------------------------------------------------------------
(* The state.                                                              *)

\* Every attempt is seen by the server at most once, and none is waited for after the last.
RetryTypeInv ==
  /\ RetryTypes
  /\ phase = "try" => seen < attempt
  /\ seen <= attempt
  /\ phase = "wait" => attempt < Attempts

RetryInv == RetryTypeInv /\ WaitIsBounded

\* What a failure leads to, when it is retried.
LEMMA RetryableWaits ==
  ASSUME BaseFits, RetryTypeInv, phase = "try",
         NEW t \in 0..Deadline, NEW n \in Asked \cup {0}, Retryable(t, n), now' = t
  PROVE  /\ phase' \in {"wait", "done"} /\ until' \in Nat /\ asked' = n /\ result' \in Results
         /\ phase' = "wait" => attempt < Attempts
         /\ WaitIsBounded'
<1>0. /\ attempt \in Nat \ {0} /\ n \in Nat /\ t \in Nat /\ until \in Nat /\ result \in Results
      /\ Deadline \in Nat /\ RetryAfterCap \in Nat /\ MaxWait \in Nat /\ Base \in Nat /\ Attempts \in Nat
      /\ attempt <= Attempts
  BY RetryConstants DEF RetryTypeInv, RetryTypes
<1>1. CASE t = Deadline \/ attempt = Attempts
  <2>1. phase' = "done" /\ result' \in Results /\ until' = until /\ asked' = n
    BY <1>1 DEF Retryable, Return, Results
  <2> QED
    BY <2>1, <1>0 DEF WaitIsBounded
<1>2. CASE t # Deadline /\ attempt # Attempts
  <2>1. PICK b \in Backoff(attempt) :
          until' = t + (IF n > 0 /\ RetryAfter(n) > b THEN RetryAfter(n) ELSE b)
    BY <1>2 DEF Retryable
  <2>2. phase' = "wait" /\ result' = result /\ asked' = n
    BY <1>2 DEF Retryable
  <2>3. b \in Nat /\ Base \div 2 <= b /\ b <= MaxWait
    BY <1>0, BackoffBounds
  <2>4. /\ RetryAfter(n) \in Int /\ RetryAfter(n) <= RetryAfterCap
        /\ n * Second <= RetryAfterCap => RetryAfter(n) = n * Second
    BY <1>0, RetryAfterBounds
  <2>5. Base \div 2 \in Int /\ n * Second \in Int
    BY <1>0, RetryConstants
  <2>6. PICK w \in Nat : /\ until' = t + w /\ Base \div 2 <= w
                         /\ w <= (IF RetryAfterCap > MaxWait THEN RetryAfterCap ELSE MaxWait)
                         /\ n > 0 /\ n * Second <= RetryAfterCap => w >= n * Second
    <3>1. CASE n > 0 /\ RetryAfter(n) > b
      <4>1. until' = t + RetryAfter(n) /\ RetryAfter(n) \in Nat /\ Base \div 2 <= RetryAfter(n)
        BY <3>1, <2>1, <2>3, <2>4, <2>5
      <4> QED
        BY <4>1, <2>4, <1>0
    <3>2. CASE ~(n > 0 /\ RetryAfter(n) > b)
      <4>1. until' = t + b
        BY <3>2, <2>1
      <4>2. n > 0 /\ n * Second <= RetryAfterCap => b >= n * Second
        BY <3>2, <2>3, <2>4, <2>5
      <4> QED
        BY <4>1, <4>2, <2>3, <1>0
    <3> QED
      BY <3>1, <3>2
  <2>7. until' - now' = w
    BY <2>6, <1>0
  <2>8. WaitIsBounded'
    BY <2>2, <2>6, <2>7 DEF WaitIsBounded
  <2> QED
    BY <2>2, <2>6, <2>8, <1>0, <1>2
<1> QED
  BY <1>1, <1>2

LEMMA RetryStep == BaseFits /\ RetryInv /\ [RetryNext]_retryVars => RetryInv'
<1> SUFFICES ASSUME BaseFits, RetryInv, [RetryNext]_retryVars PROVE RetryInv'
  OBVIOUS
<1>c. Attempts \in Nat \ {0} /\ Deadline \in Nat
  BY RetryConstants
<1>t. RetryTypeInv /\ WaitIsBounded /\ RetryTypes
  BY DEF RetryInv, RetryTypeInv
<1>1. CASE Succeeds \/ Refused
  <2>1. PICK t \in now..Deadline :
          /\ phase = "try" /\ now' = t /\ attempt' = attempt /\ phase' = "done" /\ until' = until
          /\ result' \in {"ok", "permanent"} /\ seen' = seen + 1 /\ asked' = asked
          /\ refused' \in {TRUE, refused}
    BY <1>1 DEF Succeeds, Refused, Try, Return
  <2>2. t \in 0..Deadline /\ seen + 1 \in 0..Attempts /\ seen + 1 <= attempt
    BY <2>1, <1>c, <1>t DEF RetryTypeInv, RetryTypes
  <2>3. RetryTypes'
    BY <2>1, <2>2, <1>t DEF RetryTypes, Results
  <2>4. WaitIsBounded'
    BY <2>1 DEF WaitIsBounded
  <2> QED
    BY <2>1, <2>2, <2>3, <2>4 DEF RetryInv, RetryTypeInv
<1>2. CASE Throttled \/ Fails
  <2>1. PICK t \in now..Deadline, n \in Asked \cup {0} :
          /\ phase = "try" /\ now' = t /\ attempt' = attempt /\ Retryable(t, n)
          /\ seen' \in {seen, seen + 1} /\ refused' = refused
    <3>1. seen \in Nat
      BY <1>t DEF RetryTypes
    <3>2. CASE Throttled
      BY <3>2 DEF Throttled, Try
    <3>3. CASE Fails
      BY <3>1, <3>3 DEF Fails, Try
    <3> QED
      BY <1>2, <3>2, <3>3
  <2>2. t \in 0..Deadline
    BY <1>t, <1>c DEF RetryTypes
  <2>3. /\ phase' \in {"wait", "done"} /\ until' \in Nat /\ asked' = n /\ result' \in Results
        /\ phase' = "wait" => attempt < Attempts
        /\ WaitIsBounded'
    BY <2>1, <2>2, <1>t, RetryableWaits
  <2> QED
    BY <2>1, <2>2, <2>3, <1>c, <1>t DEF RetryInv, RetryTypeInv, RetryTypes
<1>3. CASE TimerFires
  BY <1>3, <1>c, <1>t DEF TimerFires, RetryInv, RetryTypeInv, RetryTypes, WaitIsBounded
<1>4. CASE ContextEnds
  <2>1. /\ phase' = "done" /\ now' = Deadline /\ result' = "deadline"
        /\ UNCHANGED <<until, attempt, asked, seen, refused>>
    BY <1>4 DEF ContextEnds, Return
  <2>2. WaitIsBounded'
    BY <2>1 DEF WaitIsBounded
  <2>3. RetryTypes'
    <3>1. phase' \in {"try", "wait", "done"} /\ result' \in Results /\ now' \in 0..Deadline
      BY <2>1, <1>c DEF Results
    <3> QED
      BY <2>1, <3>1, <1>t DEF RetryTypes
  <2> QED
    BY <2>1, <2>2, <2>3, <1>t DEF RetryInv, RetryTypeInv
<1>5. CASE UNCHANGED retryVars
  BY <1>5, <1>t DEF retryVars, RetryInv, RetryTypeInv, RetryTypes, WaitIsBounded
<1> QED
  BY <1>1, <1>2, <1>3, <1>4, <1>5 DEF RetryNext

LEMMA RetryInvInit == RetryInit => RetryInv
<1> SUFFICES ASSUME RetryInit PROVE RetryInv
  OBVIOUS
<1>1. WaitIsBounded
  BY DEF RetryInit, WaitIsBounded
<1>2. RetryTypes
  <2>1. phase \in {"try", "wait", "done"} /\ result \in Results /\ refused \in BOOLEAN
    BY DEF RetryInit, Results
  <2>2. attempt \in 1..Attempts /\ now \in 0..Deadline /\ seen \in 0..Attempts
    BY RetryConstants DEF RetryInit
  <2> QED
    BY <2>1, <2>2 DEF RetryInit, RetryTypes
<1> QED
  BY <1>1, <1>2 DEF RetryInit, RetryInv, RetryTypeInv

\* Where the square of the base is a duration, as it is for retryBase, the half a second
\* of http.go:197, every wait is at least half of the base, at least what the server
\* asked for up to the cap, and no longer than the larger of the two caps: for every number
\* of attempts, every word size and every header.
THEOREM WaitIsBoundedAlways ==
  ASSUME BaseFits
  PROVE  RetrySpec => []WaitIsBounded
<1>1. RetryInv => WaitIsBounded
  BY DEF RetryInv
<1>2. RetryInv /\ [RetryNext]_retryVars => RetryInv'
  BY RetryStep
<1> QED
  BY <1>1, <1>2, RetryInvInit, PTL DEF RetrySpec


-----------------------------------------------------------------------------
(* Reports on the disk.                                                    *)

\* A file as it may be after a power loss without a reader noticing.
Durable(f) == f # NoFile => f.whole /\ f.synced /\ f.moded

\* A report of r, or of a run that replaced it.
OfOrAfter(f, r) == f # NoFile /\ f.by \in {r} \union newer[r]

Writing == {"write", "flush", "sync", "chmod", "close", "rename"}
Linking == {"unlink", "symlink", "relink"}

-----------------------------------------------------------------------------
(* The invariant.                                                          *)

\* How far the temporary file of a run has come.
Staging ==
  \A r \in Runs :
    /\ at[r] \in Writing => staged[r] \in File /\ staged[r].by = r
    /\ at[r] \in {"sync", "chmod", "close", "rename"} => staged[r].whole
    /\ at[r] \in {"chmod", "close", "rename"} => staged[r].synced
    /\ at[r] \in {"close", "rename"} => staged[r].moded

\* Whatever a name may be after a power loss is durable, what it is now among it.
AnyOutcome ==
  \A t \in Paths : file[t] \in onDisk[t] /\ \A f \in onDisk[t] : Durable(f)

\* A report renamed into place stays, or gives way to a later one; once the
\* directory is synced, in every outcome.
Kept ==
  \A r \in Runs :
    /\ at[r] = "syncdir" => OfOrAfter(file[target[r]], r)
    /\ returned[r] = "ok" => \A f \in onDisk[target[r]] : OfOrAfter(f, r)

\* Success is returned after the last operation on the report, and the link is
\* moved after a success only.
Returned ==
  \A r \in Runs :
    /\ returned[r] = "ok" => at[r] \in Linking \union {"droplink", "synclink", "end"}
    /\ at[r] \in Linking => returned[r] = "ok"

\* Whatever the link may be after a power loss names a report in every outcome.
LinkHolds ==
  /\ link \in linkDisk
  /\ \A t \in linkDisk : t # NoFile => \A f \in onDisk[t] : f # NoFile

-----------------------------------------------------------------------------
(* Types.                                                                  *)

\* A fault is taken from a budget that is not used up.
LEMMA SpendTypes ==
  ASSUME FileTypeOK, NEW k \in FaultKinds, Spend(k)
  PROVE  left' \in [FaultKinds -> Nat]
<1>1. left \in [FaultKinds -> Nat] /\ left[k] \in Nat
  BY DEF FileTypeOK
<1>2. left[k] - 1 \in Nat
  BY <1>1 DEF Spend
<1> QED
  BY <1>1, <1>2 DEF Spend

\* What a power loss leaves of a file is a file.
LEMMA SurvivesTypes ==
  ASSUME NEW f \in File \union {NoFile}
  PROVE  Survives(f) \in File \union {NoFile}
BY DEF Survives, File

\* A durable file comes through a power loss as it is.
LEMMA DurableSurvives ==
  ASSUME NEW f \in File \union {NoFile}, Durable(f)
  PROVE  Survives(f) = f
<1>1. CASE f = NoFile
  BY <1>1 DEF Survives
<1>2. CASE f # NoFile
  <2>1. f \in File /\ f.whole = TRUE /\ f.synced = TRUE
    BY <1>2 DEF Durable, File
  <2>2. (f.whole /\ f.synced) = f.whole
    BY <2>1
  <2> QED
    BY <1>2, <2>1, <2>2 DEF Survives, File
<1> QED
  BY <1>1, <1>2

TypeInv == FileTypeOK /\ Staging

LEMMA FileTypeInit == FileInit => TypeInv
BY FileConstants DEF FileInit, TypeInv, FileTypeOK, PCs, Staging, Writing

\* A failed operation keeps the types of what it touches.
LEMMA FailsToTypes ==
  ASSUME FileTypeOK, NEW r \in Runs, NEW next \in PCs, FailsTo(r, next)
  PROVE  /\ at' \in [Runs -> PCs] /\ left' \in [FaultKinds -> Nat]
         /\ returned' \in [Runs -> {"none", "ok", "failed"}]
BY SpendTypes DEF FailsTo, FileTypeOK, FaultKinds

LEMMA StepTypes ==
  ASSUME FileTypeOK, NEW r \in Runs, NEW from, NEW to \in PCs, Step(r, from, to)
  PROVE  at' \in [Runs -> PCs]
BY DEF Step, FileTypeOK

LEMMA LinkFailsToTypes ==
  ASSUME FileTypeOK, NEW r \in Runs, NEW next \in PCs, LinkFailsTo(r, next)
  PROVE  at' \in [Runs -> PCs] /\ left' \in [FaultKinds -> Nat]
BY SpendTypes DEF LinkFailsTo, FileTypeOK, FaultKinds

LEMMA StageTypes ==
  ASSUME FileTypeOK, NEW r \in Runs, NEW f \in File \union {NoFile}, Stage(r, f)
  PROVE  staged' \in [Runs -> File \union {NoFile}]
BY DEF Stage, FileTypeOK

\* The directory's fsync leaves one outcome for each name.
LEMMA DirSyncedTypes ==
  ASSUME FileTypeOK, DirSynced
  PROVE  /\ onDisk' \in [Paths -> SUBSET (File \union {NoFile})]
         /\ linkDisk' \subseteq Paths \union {NoFile}
BY DEF DirSynced, FileTypeOK, disk

LEMMA FileTypeNext == TypeInv /\ [FileNext]_fileVars => FileTypeOK'
<1> SUFFICES ASSUME TypeInv, [FileNext]_fileVars PROVE FileTypeOK'
  OBVIOUS
<1>0. FileTypeOK /\ \A r \in Runs : at[r] \in Writing => staged[r] \in File
  BY DEF TypeInv, Staging
<1>1. ASSUME NEW r \in Runs, Acts(r), UNCHANGED target PROVE FileTypeOK'
  <2> USE <1>0, <1>1, FailsToTypes, LinkFailsToTypes, StepTypes DEF PCs
  <2>1. CASE ClearStale(r)
    BY <2>1 DEF FileTypeOK, ClearStale, memory, disk
  <2>2. CASE Create(r)
    <3>1. [by |-> r, whole |-> FALSE, synced |-> FALSE, moded |-> FALSE] \in File
      BY DEF File
    <3>2. staged' \in [Runs -> File \union {NoFile}]
      BY <2>2, <3>1, StageTypes DEF Create, FileTypeOK
    <3> QED
      BY <2>2, <3>2 DEF FileTypeOK, Create, disk
  <2>3. CASE Write(r)
    BY <2>3 DEF FileTypeOK, Write, memory, disk
  <2>4. CASE FlushFile(r)
    <3>1. CASE Step(r, "flush", "sync") /\ Stage(r, [staged[r] EXCEPT !.whole = TRUE]) /\ UNCHANGED <<returned, left>>
      <4>1. [staged[r] EXCEPT !.whole = TRUE] \in File
        BY <3>1 DEF Step, Writing, File
      <4> QED
        BY <2>4, <3>1, <4>1, StageTypes DEF FileTypeOK, FlushFile, disk
    <3> QED
      BY <2>4, <3>1 DEF FileTypeOK, FlushFile, disk
  <2>5. CASE SyncFile(r)
    <3>1. CASE Step(r, "sync", "chmod") /\ Stage(r, [staged[r] EXCEPT !.synced = TRUE]) /\ UNCHANGED <<returned, left>>
      <4>1. [staged[r] EXCEPT !.synced = TRUE] \in File
        BY <3>1 DEF Step, Writing, File
      <4> QED
        BY <2>5, <3>1, <4>1, StageTypes DEF FileTypeOK, SyncFile, disk
    <3> QED
      BY <2>5, <3>1 DEF FileTypeOK, SyncFile, disk
  <2>6. CASE Chmod(r)
    <3>1. CASE Step(r, "chmod", "close") /\ Stage(r, [staged[r] EXCEPT !.moded = TRUE]) /\ UNCHANGED <<returned, left>>
      <4>1. [staged[r] EXCEPT !.moded = TRUE] \in File
        BY <3>1 DEF Step, Writing, File
      <4> QED
        BY <2>6, <3>1, <4>1, StageTypes DEF FileTypeOK, Chmod, disk
    <3> QED
      BY <2>6, <3>1 DEF FileTypeOK, Chmod, disk
  <2>7. CASE CloseFile(r)
    BY <2>7 DEF FileTypeOK, CloseFile, memory, disk
  <2>8. CASE Rename(r)
    <3>1. CASE at[r] = "rename" /\ FailsTo(r, "unstage") /\ UNCHANGED <<file, onDisk, newer, staged>>
      BY <2>8, <3>1 DEF FileTypeOK, Rename
    <3>2. CASE /\ Step(r, "rename", "syncdir")
               /\ file' = [file EXCEPT ![target[r]] = staged[r]]
               /\ onDisk' = [onDisk EXCEPT ![target[r]] = @ \union {staged[r]}]
               /\ newer' = [q \in Runs |-> IF q # r /\ target[q] = target[r]
                                           THEN newer[q] \union {r} ELSE newer[q]]
               /\ Stage(r, NoFile) /\ UNCHANGED <<returned, left>>
      <4>1. staged[r] \in File
        BY <3>2 DEF Step, Writing
      <4>2. file' \in [Paths -> File \union {NoFile}]
        BY <3>2, <4>1 DEF FileTypeOK
      <4>3. onDisk' \in [Paths -> SUBSET (File \union {NoFile})]
        BY <3>2, <4>1 DEF FileTypeOK
      <4>4. newer' \in [Runs -> SUBSET Runs]
        BY <3>2 DEF FileTypeOK
      <4>5. staged' \in [Runs -> File \union {NoFile}]
        BY <3>2, StageTypes
      <4> QED
        BY <2>8, <3>2, <4>2, <4>3, <4>4, <4>5 DEF FileTypeOK, Rename
    <3> QED
      BY <2>8, <3>1, <3>2 DEF Rename
  <2>9. CASE Unstage(r)
    <3>1. left' \in [FaultKinds -> Nat]
      BY <2>9, SpendTypes DEF Unstage, FileTypeOK, FaultKinds
    <3>2. staged' \in [Runs -> File \union {NoFile}]
      BY <2>9, StageTypes DEF Unstage, FileTypeOK
    <3> QED
      BY <2>9, <3>1, <3>2 DEF FileTypeOK, Unstage, disk
  <2>10. CASE SyncDir(r)
    <3>1. onDisk' \in [Paths -> SUBSET (File \union {NoFile})] /\ linkDisk' \subseteq Paths \union {NoFile}
      BY <2>10, DirSyncedTypes DEF SyncDir, FileTypeOK, disk
    <3> QED
      BY <2>10, <3>1 DEF FileTypeOK, SyncDir, memory
  <2>11. CASE RemoveStaleLink(r)
    BY <2>11 DEF FileTypeOK, RemoveStaleLink, disk
  <2>12. CASE CreateLink(r)
    BY <2>12 DEF FileTypeOK, CreateLink, disk
  <2>13. CASE Relink(r)
    <3>1. target[r] \in Paths
      BY FileConstants DEF FileTypeOK
    <3> QED
      BY <2>13, <3>1 DEF FileTypeOK, Relink
  <2>14. CASE DropLink(r)
    <3>1. left' \in [FaultKinds -> Nat]
      BY <2>14, SpendTypes DEF DropLink, FileTypeOK, FaultKinds
    <3> QED
      BY <2>14, <3>1 DEF FileTypeOK, DropLink, disk
  <2>15. CASE SyncLink(r)
    <3>1. onDisk' \in [Paths -> SUBSET (File \union {NoFile})] /\ linkDisk' \subseteq Paths \union {NoFile}
      BY <2>15, DirSyncedTypes DEF SyncLink, FileTypeOK, disk
    <3> QED
      BY <2>15, <3>1 DEF FileTypeOK, SyncLink, memory
  <2> QED
    BY <2>1, <2>2, <2>3, <2>4, <2>5, <2>6, <2>7, <2>8, <2>9, <2>10, <2>11, <2>12, <2>13, <2>14, <2>15
    DEF Acts
<1>2. ASSUME NEW r \in Runs, Kill(r), UNCHANGED target PROVE FileTypeOK'
  <2>1. left' \in [FaultKinds -> Nat]
    BY <1>0, <1>2, SpendTypes DEF Kill, FaultKinds
  <2> QED
    BY <1>0, <1>2, <2>1 DEF Kill, FileTypeOK, memory, disk, PCs
<1>3. ASSUME PowerLoss, UNCHANGED target PROVE FileTypeOK'
  <2>1. left' \in [FaultKinds -> Nat]
    BY <1>0, <1>3, SpendTypes DEF PowerLoss, FaultKinds
  <2>2. file' \in [Paths -> File \union {NoFile}]
    <3>1. PICK after \in [Paths -> UNION {onDisk[t] : t \in Paths}] :
            /\ \A t \in Paths : after[t] \in onDisk[t]
            /\ file' = [t \in Paths |-> Survives(after[t])]
      BY <1>3 DEF PowerLoss
    <3>2. \A t \in Paths : after[t] \in File \union {NoFile}
      BY <1>0, <3>1 DEF FileTypeOK
    <3> QED
      BY <3>1, <3>2, SurvivesTypes
  <2>3. staged' \in [Runs -> File \union {NoFile}]
    BY <1>0, <1>3, SurvivesTypes DEF PowerLoss, FileTypeOK
  <2>4. link' \in Paths \union {NoFile} /\ linkDisk' \subseteq Paths \union {NoFile}
    BY <1>0, <1>3 DEF PowerLoss, FileTypeOK
  <2>5. onDisk' \in [Paths -> SUBSET (File \union {NoFile})]
    BY <1>3, <2>2 DEF PowerLoss
  <2>6. at' \in [Runs -> PCs]
    BY <1>3 DEF PowerLoss, PCs
  <2> QED
    BY <1>0, <1>3, <2>1, <2>2, <2>3, <2>4, <2>5, <2>6 DEF PowerLoss, FileTypeOK
<1>4. CASE UNCHANGED fileVars
  BY <1>0, <1>4 DEF FileTypeOK, fileVars, memory, disk
<1> QED
  BY <1>1, <1>2, <1>3, <1>4 DEF FileNext, AllEnded

\* A step that leaves r at "to" with the temporary file f keeps the stages.
LEMMA StagedTo ==
  ASSUME FileTypeOK, Staging, NEW r \in Runs, NEW f, NEW to \in PCs, Stage(r, f),
         at' = [at EXCEPT ![r] = to],
         to \in Writing => f \in File /\ f.by = r,
         to \in {"sync", "chmod", "close", "rename"} => f.whole,
         to \in {"chmod", "close", "rename"} => f.synced,
         to \in {"close", "rename"} => f.moded
  PROVE  Staging'
BY DEF FileTypeOK, Staging, Stage

\* So does a step that leaves the temporary files alone and writes no more.
LEMMA StagedAside ==
  ASSUME FileTypeOK, Staging, NEW r \in Runs, NEW to \in PCs \ Writing,
         at' = [at EXCEPT ![r] = to], UNCHANGED staged
  PROVE  Staging'
BY DEF FileTypeOK, Staging, Writing

LEMMA StagingNext == TypeInv /\ [FileNext]_fileVars => Staging'
<1> SUFFICES ASSUME TypeInv, [FileNext]_fileVars PROVE Staging'
  OBVIOUS
<1>0. FileTypeOK /\ Staging
  BY DEF TypeInv
<1>1. ASSUME NEW r \in Runs, Acts(r), UNCHANGED target PROVE Staging'
  <2> USE <1>0, <1>1 DEF FileTypeOK, Staging, Writing
  <2>1. CASE ClearStale(r)
    BY <2>1 DEF ClearStale, Step, FailsTo, memory
  <2>2. CASE Create(r)
    <3> DEFINE f == [by |-> r, whole |-> FALSE, synced |-> FALSE, moded |-> FALSE]
    <3>1. CASE Step(r, "create", "write") /\ Stage(r, f)
      <4>1. f \in File /\ f.by = r /\ "write" \in PCs
        BY DEF File, PCs
      <4>2. at' = [at EXCEPT ![r] = "write"]
        BY <3>1 DEF Step
      <4> HIDE DEF f
      <4> QED
        BY <3>1, <4>1, <4>2, StagedTo
    <3>2. CASE FailsTo(r, "end") /\ UNCHANGED staged
      BY <3>2, StagedAside DEF FailsTo, PCs
    <3> QED
      BY <2>2, <3>1, <3>2 DEF Create
  <2>3. CASE Write(r)
    BY <2>3 DEF Write, Step, FailsTo, memory
  <2>4. CASE FlushFile(r)
    <3>1. CASE Step(r, "flush", "sync") /\ Stage(r, [staged[r] EXCEPT !.whole = TRUE])
      <4> DEFINE f == [staged[r] EXCEPT !.whole = TRUE]
      <4>1. staged[r] \in File /\ staged[r].by = r
        BY <3>1 DEF Step
      <4>2. /\ f \in File /\ f.by = r /\ f.whole
            /\ staged[r].whole => f.whole
            /\ staged[r].synced => f.synced
        BY <4>1 DEF File
      <4>3. at' = [at EXCEPT ![r] = "sync"] /\ Stage(r, f)
        BY <3>1 DEF Step
      <4>4. at[r] = "flush"
        BY <3>1 DEF Step
      <4>5. "sync" \in PCs
        BY DEF PCs
      <4> HIDE DEF f
      <4> QED
        BY <4>2, <4>3, <4>4, <4>5, StagedTo
    <3>2. CASE FailsTo(r, "unstage") /\ UNCHANGED staged
      BY <3>2, StagedAside DEF FailsTo, PCs
    <3> QED
      BY <2>4, <3>1, <3>2 DEF FlushFile
  <2>5. CASE SyncFile(r)
    <3>1. CASE Step(r, "sync", "chmod") /\ Stage(r, [staged[r] EXCEPT !.synced = TRUE])
      <4> DEFINE f == [staged[r] EXCEPT !.synced = TRUE]
      <4>1. staged[r] \in File /\ staged[r].by = r
        BY <3>1 DEF Step
      <4>2. /\ f \in File /\ f.by = r /\ f.synced
            /\ staged[r].whole => f.whole
            /\ staged[r].synced => f.synced
        BY <4>1 DEF File
      <4>3. at' = [at EXCEPT ![r] = "chmod"] /\ Stage(r, f)
        BY <3>1 DEF Step
      <4>4. at[r] = "sync"
        BY <3>1 DEF Step
      <4>5. "chmod" \in PCs
        BY DEF PCs
      <4> HIDE DEF f
      <4> QED
        BY <4>2, <4>3, <4>4, <4>5, StagedTo
    <3>2. CASE FailsTo(r, "unstage") /\ UNCHANGED staged
      BY <3>2, StagedAside DEF FailsTo, PCs
    <3> QED
      BY <2>5, <3>1, <3>2 DEF SyncFile
  <2>6. CASE Chmod(r)
    <3>1. CASE Step(r, "chmod", "close") /\ Stage(r, [staged[r] EXCEPT !.moded = TRUE])
      <4> DEFINE f == [staged[r] EXCEPT !.moded = TRUE]
      <4>1. staged[r] \in File /\ staged[r].by = r
        BY <3>1 DEF Step
      <4>2. /\ f \in File /\ f.by = r /\ f.moded
            /\ staged[r].whole => f.whole
            /\ staged[r].synced => f.synced
        BY <4>1 DEF File
      <4>3. at' = [at EXCEPT ![r] = "close"] /\ Stage(r, f)
        BY <3>1 DEF Step
      <4>4. at[r] = "chmod"
        BY <3>1 DEF Step
      <4>5. "close" \in PCs
        BY DEF PCs
      <4> HIDE DEF f
      <4> QED
        BY <4>2, <4>3, <4>4, <4>5, StagedTo
    <3>2. CASE FailsTo(r, "unstage") /\ UNCHANGED staged
      BY <3>2, StagedAside DEF FailsTo, PCs
    <3> QED
      BY <2>6, <3>1, <3>2 DEF Chmod
  <2>7. CASE CloseFile(r)
    BY <2>7 DEF CloseFile, Step, FailsTo, memory
  <2>8. CASE Rename(r)
    BY <2>8 DEF Rename, Step, FailsTo, Stage
  <2>9. CASE Unstage(r)
    BY <2>9 DEF Unstage, Step, Stage
  <2>10. CASE SyncDir(r)
    BY <2>10 DEF SyncDir, Step, FailsTo, memory
  <2>11. CASE RemoveStaleLink(r)
    BY <2>11 DEF RemoveStaleLink, Step, LinkFailsTo
  <2>12. CASE CreateLink(r)
    BY <2>12 DEF CreateLink, Step, LinkFailsTo
  <2>13. CASE Relink(r)
    BY <2>13 DEF Relink, Step, LinkFailsTo
  <2>14. CASE DropLink(r)
    BY <2>14 DEF DropLink, Step
  <2>15. CASE SyncLink(r)
    BY <2>15 DEF SyncLink, Step, LinkFailsTo, memory
  <2> QED
    BY <2>1, <2>2, <2>3, <2>4, <2>5, <2>6, <2>7, <2>8, <2>9, <2>10, <2>11, <2>12, <2>13, <2>14, <2>15 DEF Acts
<1>2. ASSUME NEW r \in Runs, Kill(r), UNCHANGED target PROVE Staging'
  BY <1>0, <1>2 DEF Kill, memory, FileTypeOK, Staging, Writing
<1>3. ASSUME PowerLoss, UNCHANGED target PROVE Staging'
  BY <1>3 DEF PowerLoss, Staging, Writing
<1>4. CASE UNCHANGED fileVars
  BY <1>0, <1>4 DEF Staging, fileVars, memory
<1> QED
  BY <1>1, <1>2, <1>3, <1>4 DEF FileNext, AllEnded

LEMMA TypeInvNext == TypeInv /\ [FileNext]_fileVars => TypeInv'
BY FileTypeNext, StagingNext DEF TypeInv

\* The state of every file, name, run and fault budget stays of its kind.
THEOREM FilesTyped == FileSpec => []FileTypeOK
<1>1. FileSpec => []TypeInv
  BY FileTypeInit, TypeInvNext, PTL DEF FileSpec
<1>2. TypeInv => FileTypeOK
  BY DEF TypeInv
<1> QED
  BY <1>1, <1>2, PTL

-----------------------------------------------------------------------------
(* A reader sees whole reports only.                                       *)

LEMMA AnyOutcomeInit == FileInit => AnyOutcome
BY DEF FileInit, AnyOutcome, Durable

\* Syncing the directory keeps what was durable so.
LEMMA AnyOutcomeSynced ==
  ASSUME FileTypeOK, AnyOutcome, DirSynced, UNCHANGED file
  PROVE  AnyOutcome'
BY DEF DirSynced, AnyOutcome, FileTypeOK, disk

\* A power loss picks one of the outcomes, and none of them loses data.
LEMMA PowerLossKeeps ==
  ASSUME FileTypeOK, AnyOutcome, PowerLoss
  PROVE  \A t \in Paths : file'[t] \in onDisk[t] /\ onDisk'[t] = {file'[t]}
<1>1. PICK after \in [Paths -> UNION {onDisk[t] : t \in Paths}] :
        /\ \A t \in Paths : after[t] \in onDisk[t]
        /\ file' = [t \in Paths |-> Survives(after[t])]
  BY DEF PowerLoss
<1>2. ASSUME NEW t \in Paths PROVE file'[t] = after[t]
  <2>1. Durable(after[t]) /\ after[t] \in File \union {NoFile}
    BY <1>1 DEF AnyOutcome, FileTypeOK
  <2> QED
    BY <1>1, <2>1, DurableSurvives
<1>3. onDisk' = [t \in Paths |-> {file'[t]}]
  BY DEF PowerLoss
<1> QED
  BY <1>1, <1>2, <1>3

LEMMA AnyOutcomeNext == TypeInv /\ AnyOutcome /\ [FileNext]_fileVars => AnyOutcome'
<1> SUFFICES ASSUME TypeInv, AnyOutcome, [FileNext]_fileVars PROVE AnyOutcome'
  OBVIOUS
<1>0. FileTypeOK /\ Staging
  BY DEF TypeInv
<1>1. ASSUME NEW r \in Runs, Acts(r) PROVE AnyOutcome'
  <2>1. CASE UNCHANGED <<file, onDisk>>
    BY <2>1 DEF AnyOutcome
  <2>2. CASE Rename(r) /\ ~ UNCHANGED <<file, onDisk>>
    <3>1. /\ at[r] = "rename"
          /\ file' = [file EXCEPT ![target[r]] = staged[r]]
          /\ onDisk' = [onDisk EXCEPT ![target[r]] = @ \union {staged[r]}]
      BY <2>2 DEF Rename, Step
    <3>2. Durable(staged[r])
      BY <1>0, <3>1 DEF Staging, Durable
    <3> QED
      BY <1>0, <3>1, <3>2 DEF AnyOutcome, FileTypeOK
  <2>3. CASE SyncDir(r) /\ DirSynced
    BY <1>0, <2>3, AnyOutcomeSynced DEF SyncDir, memory
  <2>4. CASE SyncLink(r) /\ DirSynced
    BY <1>0, <2>4, AnyOutcomeSynced DEF SyncLink, memory
  <2> QED
    BY <1>1, <2>1, <2>2, <2>3, <2>4
    DEF Acts, ClearStale, Create, Write, FlushFile, SyncFile, Chmod, CloseFile, Unstage,
        SyncDir, RemoveStaleLink, CreateLink, Relink, DropLink, SyncLink, memory, disk
<1>2. ASSUME NEW r \in Runs, Kill(r) PROVE AnyOutcome'
  BY <1>2 DEF Kill, memory, disk, AnyOutcome
<1>3. ASSUME PowerLoss PROVE AnyOutcome'
  BY <1>0, <1>3, PowerLossKeeps DEF AnyOutcome
<1>4. CASE UNCHANGED fileVars
  BY <1>4 DEF AnyOutcome, fileVars, memory, disk
<1> QED
  BY <1>1, <1>2, <1>3, <1>4 DEF FileNext, AllEnded

WholeInv == TypeInv /\ AnyOutcome

\* Whatever fails, is killed or loses power, every report a reader can open is
\* complete and has its mode.
THEOREM ReadersSeeWholeAlways == FileSpec => []ReadersSeeWhole
<1>1. FileInit => WholeInv
  BY FileTypeInit, AnyOutcomeInit DEF WholeInv
<1>2. WholeInv /\ [FileNext]_fileVars => WholeInv'
  BY TypeInvNext, AnyOutcomeNext DEF WholeInv
<1>3. WholeInv => ReadersSeeWhole
  BY DEF WholeInv, AnyOutcome, Durable, ReadersSeeWhole
<1> QED
  BY <1>1, <1>2, <1>3, PTL DEF FileSpec

-----------------------------------------------------------------------------
(* What success promises, where the directory can be synced.               *)

Inv == TypeInv /\ AnyOutcome /\ Kept /\ Returned /\ LinkHolds

LEMMA InvInit == FileInit => Inv
<1>1. FileInit => Kept /\ Returned /\ LinkHolds
  BY DEF FileInit, Kept, Returned, LinkHolds, Linking
<1> QED
  BY <1>1, FileTypeInit, AnyOutcomeInit DEF Inv

\* The success of a write is set by the directory's fsync and by nothing else.
LEMMA ReturnedNext == FileTypeOK /\ Returned /\ [FileNext]_fileVars => Returned'
<1> SUFFICES ASSUME FileTypeOK, Returned, [FileNext]_fileVars PROVE Returned'
  OBVIOUS
<1> USE DEF FileTypeOK, Returned, Linking
<1>1. ASSUME NEW r \in Runs, Acts(r) PROVE Returned'
  BY <1>1 DEF Acts, ClearStale, Create, Write, FlushFile, SyncFile, Chmod, CloseFile,
     Rename, Unstage, SyncDir, RemoveStaleLink, CreateLink, Relink, DropLink, SyncLink,
     Step, FailsTo, LinkFailsTo
<1>2. ASSUME NEW r \in Runs, Kill(r) PROVE Returned'
  BY <1>2 DEF Kill
<1>3. ASSUME PowerLoss PROVE Returned'
  BY <1>3 DEF PowerLoss
<1>4. CASE UNCHANGED fileVars
  BY <1>4 DEF fileVars
<1> QED
  BY <1>1, <1>2, <1>3, <1>4 DEF FileNext, AllEnded

\* A rename takes the name over from the reports that were there before.
LEMMA RenameKeeps ==
  ASSUME TypeInv, Kept, Returned, NEW r \in Runs, Rename(r), UNCHANGED target,
         ~ FailsTo(r, "unstage")
  PROVE  Kept' /\ \A t \in Paths : \A f \in onDisk'[t] : f \in onDisk[t] \/ f # NoFile
<1> DEFINE t == target[r]
<1>0. FileTypeOK /\ Staging /\ t \in Paths
  BY FileConstants DEF TypeInv, FileTypeOK
<1>1. /\ at[r] = "rename" /\ at' = [at EXCEPT ![r] = "syncdir"]
      /\ file' = [file EXCEPT ![t] = staged[r]]
      /\ onDisk' = [onDisk EXCEPT ![t] = @ \union {staged[r]}]
      /\ newer' = [q \in Runs |-> IF q # r /\ target[q] = t
                                  THEN newer[q] \union {r} ELSE newer[q]]
      /\ returned' = returned
  BY DEF Rename, Step
<1>2. staged[r] \in File /\ staged[r].by = r /\ staged[r] # NoFile
  BY <1>0, <1>1, FileConstants DEF Staging, Writing
<1>3. returned[r] # "ok"
  BY <1>1 DEF Returned, Linking
<1>4. ASSUME NEW q \in Runs, NEW f, OfOrAfter(f, q) PROVE OfOrAfter(f, q)'
  BY <1>0, <1>1, <1>4 DEF OfOrAfter, FileTypeOK
<1>5. ASSUME NEW q \in Runs, target[q] = t, NEW f, f = staged[r] PROVE OfOrAfter(f, q)'
  BY <1>0, <1>1, <1>2, <1>5 DEF OfOrAfter, FileTypeOK
<1>6. ASSUME NEW q \in Runs
      PROVE  /\ at'[q] = "syncdir" => OfOrAfter(file[target[q]], q)'
             /\ returned'[q] = "ok" => \A f \in onDisk'[target[q]] : OfOrAfter(f, q)'
  <2>1. CASE target[q] = t
    <3>1. OfOrAfter(file[target[q]], q)'
      <4>1. file'[target'[q]] = staged[r]
        BY <1>0, <1>1, <2>1 DEF FileTypeOK
      <4> QED
        BY <1>5, <2>1, <4>1 DEF OfOrAfter
    <3>2. ASSUME returned'[q] = "ok", NEW f \in onDisk'[target[q]] PROVE OfOrAfter(f, q)'
      <4>1. CASE f \in onDisk[t]
        BY <1>1, <1>4, <2>1, <3>2, <4>1 DEF Kept
      <4>2. CASE f = staged[r]
        BY <1>5, <2>1, <4>2
      <4> QED
        BY <1>0, <1>1, <2>1, <3>2, <4>1, <4>2 DEF FileTypeOK
    <3> QED
      BY <3>1, <3>2
  <2>2. CASE target[q] # t
    <3>1. q # r /\ at'[q] = at[q] /\ returned'[q] = returned[q] /\ target[q] \in Paths
      BY <1>0, <1>1, <2>2, FileConstants DEF FileTypeOK
    <3>2. file'[target[q]] = file[target[q]] /\ onDisk'[target[q]] = onDisk[target[q]]
      BY <1>0, <1>1, <2>2, <3>1 DEF FileTypeOK
    <3>3. at'[q] = "syncdir" => OfOrAfter(file[target[q]], q)'
      BY <1>4, <3>1, <3>2 DEF Kept, OfOrAfter
    <3>4. returned'[q] = "ok" => \A f \in onDisk'[target[q]] : OfOrAfter(f, q)'
      BY <1>4, <3>1, <3>2 DEF Kept, OfOrAfter
    <3> QED
      BY <3>3, <3>4
  <2> QED
    BY <2>1, <2>2
<1>7. Kept'
  BY <1>6 DEF Kept
<1>8. \A u \in Paths : \A f \in onDisk'[u] : f \in onDisk[u] \/ f # NoFile
  BY <1>0, <1>1, <1>2 DEF FileTypeOK
<1> QED
  BY <1>7, <1>8

LEMMA KeptNext ==
  ASSUME DirSync PROVE TypeInv /\ AnyOutcome /\ Kept /\ Returned /\ [FileNext]_fileVars => Kept'
<1> SUFFICES ASSUME TypeInv, AnyOutcome, Kept, Returned, [FileNext]_fileVars PROVE Kept'
  OBVIOUS
<1>0. FileTypeOK /\ \A r \in Runs : target[r] \in Paths
  BY FileConstants DEF TypeInv, FileTypeOK
<1>1. ASSUME NEW r \in Runs, Acts(r), UNCHANGED target PROVE Kept'
  <2> USE <1>0, <1>1 DEF FileTypeOK
  <2>1. CASE Rename(r) /\ ~ FailsTo(r, "unstage")
    BY <2>1, RenameKeeps
  <2>2. CASE SyncDir(r) /\ ~ FailsTo(r, "end")
    <3>1. /\ at[r] = "syncdir" /\ at' = [at EXCEPT ![r] = "unlink"]
          /\ returned' = [returned EXCEPT ![r] = "ok"]
          /\ onDisk' = [t \in Paths |-> {file[t]}] /\ UNCHANGED <<file, newer>>
      BY <2>2 DEF SyncDir, Step, DirSynced, memory
    <3>2. \A t \in Paths : onDisk'[t] = {file[t]} /\ file[t] \in onDisk[t]
      BY <3>1 DEF AnyOutcome
    <3> QED
      BY <3>1, <3>2 DEF Kept, OfOrAfter
  <2>3. CASE SyncLink(r) /\ DirSynced
    <3>1. /\ at' = [at EXCEPT ![r] = "end"] /\ UNCHANGED <<file, newer, returned>>
          /\ onDisk' = [t \in Paths |-> {file[t]}]
      BY <2>3 DEF SyncLink, Step, LinkFailsTo, DirSynced, memory
    <3>2. \A t \in Paths : onDisk'[t] = {file[t]} /\ file[t] \in onDisk[t]
      BY <3>1 DEF AnyOutcome
    <3> QED
      BY <3>1, <3>2 DEF Kept, OfOrAfter
  <2>4. CASE /\ UNCHANGED <<file, onDisk, newer>>
             /\ \A q \in Runs : at'[q] = "syncdir" => at[q] = "syncdir"
             /\ \A q \in Runs : returned'[q] = "ok" => returned[q] = "ok"
    BY <2>4 DEF Kept, OfOrAfter
  <2> QED
    BY <2>1, <2>2, <2>3, <2>4
    DEF Acts, ClearStale, Create, Write, FlushFile, SyncFile, Chmod, CloseFile, Rename, Unstage,
        SyncDir, RemoveStaleLink, CreateLink, Relink, DropLink, SyncLink,
        Step, FailsTo, LinkFailsTo, memory, disk
<1>2. ASSUME NEW r \in Runs, Kill(r), UNCHANGED target PROVE Kept'
  BY <1>0, <1>2 DEF Kill, memory, disk, Kept, OfOrAfter, FileTypeOK
<1>3. ASSUME PowerLoss, UNCHANGED target PROVE Kept'
  <2>1. \A t \in Paths : file'[t] \in onDisk[t] /\ onDisk'[t] = {file'[t]}
    BY <1>0, <1>3, PowerLossKeeps
  <2>2. \A q \in Runs : at'[q] # "syncdir"
    BY <1>3 DEF PowerLoss
  <2>3. UNCHANGED <<returned, newer>>
    BY <1>3 DEF PowerLoss
  <2> QED
    BY <1>0, <1>3, <2>1, <2>2, <2>3 DEF Kept, OfOrAfter
<1>4. CASE UNCHANGED fileVars
  BY <1>4 DEF Kept, OfOrAfter, fileVars, memory, disk
<1> QED
  BY <1>1, <1>2, <1>3, <1>4 DEF FileNext, AllEnded

LEMMA LinkHoldsNext == ASSUME DirSync PROVE Inv /\ [FileNext]_fileVars => LinkHolds'
<1> SUFFICES ASSUME Inv, [FileNext]_fileVars PROVE LinkHolds'
  OBVIOUS
<1>0. TypeInv /\ FileTypeOK /\ Kept /\ Returned /\ AnyOutcome /\ LinkHolds
  BY DEF Inv, TypeInv
<1>1. ASSUME NEW r \in Runs, Acts(r), UNCHANGED target PROVE LinkHolds'
  <2>1. CASE Rename(r) /\ ~ FailsTo(r, "unstage")
    <3>1. \A t \in Paths : \A f \in onDisk'[t] : f \in onDisk[t] \/ f # NoFile
      BY <1>0, <1>1, <2>1, RenameKeeps
    <3>2. UNCHANGED <<link, linkDisk>>
      BY <2>1 DEF Rename
    <3> QED
      BY <1>0, <3>1, <3>2 DEF LinkHolds, FileTypeOK
  <2>2. CASE DirSynced /\ UNCHANGED <<file, link>>
    <3>1. onDisk' = [t \in Paths |-> {file[t]}] /\ linkDisk' = {link} /\ link' = link
      BY <2>2 DEF DirSynced
    <3>2. link # NoFile => onDisk'[link] = {file[link]} /\ file[link] \in onDisk[link]
      BY <1>0, <3>1 DEF AnyOutcome, FileTypeOK
    <3> QED
      BY <1>0, <3>1, <3>2 DEF LinkHolds
  <2>3. CASE Relink(r) /\ ~ LinkFailsTo(r, "droplink")
    <3>1. /\ at[r] = "relink" /\ link' = target[r] /\ onDisk' = onDisk
          /\ linkDisk' = linkDisk \union {target[r]}
      BY <2>3 DEF Relink, Step
    <3>2. \A f \in onDisk[target[r]] : f # NoFile
      BY <1>0, <3>1 DEF Kept, Returned, Linking, OfOrAfter
    <3> QED
      BY <1>0, <3>1, <3>2 DEF LinkHolds
  <2>4. CASE UNCHANGED <<link, linkDisk, onDisk>>
    BY <1>0, <2>4 DEF LinkHolds
  <2> QED
    BY <1>0, <1>1, <2>1, <2>2, <2>3, <2>4
    DEF Acts, ClearStale, Create, Write, FlushFile, SyncFile, Chmod, CloseFile, Rename, Unstage,
        SyncDir, RemoveStaleLink, CreateLink, Relink, DropLink, SyncLink,
        Step, FailsTo, LinkFailsTo, FileTypeOK, memory, disk
<1>2. ASSUME NEW r \in Runs, Kill(r) PROVE LinkHolds'
  BY <1>0, <1>2 DEF Kill, memory, disk, LinkHolds
<1>3. ASSUME PowerLoss PROVE LinkHolds'
  <2>1. \A t \in Paths : file'[t] \in onDisk[t] /\ onDisk'[t] = {file'[t]}
    BY <1>0, <1>3, PowerLossKeeps
  <2>2. link' \in linkDisk /\ linkDisk' = {link'}
    BY <1>3 DEF PowerLoss
  <2>3. link' # NoFile => link' \in Paths
    BY <1>0, <2>2 DEF FileTypeOK
  <2> QED
    BY <1>0, <2>1, <2>2, <2>3 DEF LinkHolds
<1>4. CASE UNCHANGED fileVars
  BY <1>0, <1>4 DEF LinkHolds, fileVars, memory, disk
<1> QED
  BY <1>1, <1>2, <1>3, <1>4 DEF FileNext, AllEnded

LEMMA InvAlways == ASSUME DirSync PROVE FileSpec => []Inv
<1>1. Inv /\ [FileNext]_fileVars => Inv'
  BY TypeInvNext, AnyOutcomeNext, KeptNext, ReturnedNext, LinkHoldsNext DEF Inv, TypeInv
<1> QED
  BY InvInit, <1>1, PTL DEF FileSpec

\* Where the directory can be synced, a report whose write returned success is
\* still what its name names after any power loss, unless a later run replaced
\* it.
THEOREM SuccessSurvivesAlways == ASSUME DirSync PROVE FileSpec => []SuccessSurvives
<1>1. Inv => SuccessSurvives
  <2> SUFFICES ASSUME Inv, NEW r \in Runs, returned[r] = "ok"
               PROVE  OfOrAfter(file[target[r]], r)
    BY DEF SuccessSurvives, OfOrAfter
  <2>1. target[r] \in Paths
    BY FileConstants DEF Inv, TypeInv, FileTypeOK
  <2>2. file[target[r]] \in onDisk[target[r]]
    BY <2>1 DEF Inv, AnyOutcome
  <2> QED
    BY <2>2 DEF Inv, Kept
<1> QED
  BY InvAlways, <1>1, PTL

\* Where the directory can be synced, the "-latest" link names a report or
\* nothing at all, whatever a power loss undoes.
THEOREM LinkNeverDanglesAlways == ASSUME DirSync PROVE FileSpec => []LinkNeverDangles
<1>1. Inv => LinkNeverDangles
  BY DEF Inv, TypeInv, FileTypeOK, LinkHolds, AnyOutcome, LinkNeverDangles
<1> QED
  BY InvAlways, <1>1, PTL
=============================================================================
