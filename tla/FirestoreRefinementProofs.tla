--------------------- MODULE FirestoreRefinementProofs ---------------------
(***************************************************************************)
(* Proofs about FirestoreWrites, for any sets of users and messages and    *)
(* any pipeline limit.  First: the inductive invariant of the pipeline,    *)
(* wire, timer and stream, and with it the safety properties of the write  *)
(* path.  Then the completion blocks: a block waits for its own write,     *)
(* "saved" is the truth, and a result does not change.  Then: the backend  *)
(* creates the messages of a user in the order they were written.  Last,   *)
(* the refinement: the initial states map to initial states of             *)
(* MessageStore, and each step to one of its steps or to none.  A message  *)
(* is settled when its row is gone, and waiting while its block is         *)
(* registered.                                                             *)
(***************************************************************************)
EXTENDS FirestoreWrites, SequenceTheorems, NaturalsInduction, WellFoundedInduction, TLAPS

(***************************************************************************)
(* Facts about the operators.                                              *)
(***************************************************************************)

\* A set of naturals with an upper bound has a largest element.
LEMMA BoundedSetHasMax ==
    ASSUME NEW S \in SUBSET Nat, S # {}, NEW n \in Nat, \A x \in S : x < n
    PROVE  /\ Max(S) \in S
           /\ \A x \in S : x <= Max(S)
<1> DEFINE Bounds == {k \in Nat : \A x \in S : x <= k}
           Less == OpToRel(<, Nat)
<1>1. Bounds # {} /\ Bounds \subseteq Nat
    <2>1. n \in Bounds
        OBVIOUS
    <2>2. QED
        BY <2>1
<1>2. IsWellFoundedOn(Less, Nat)
    BY NatLessThanWellFounded
<1>3. \A j, k \in Nat : j < k => <<j, k>> \in Less
    BY Zenon DEF OpToRel
<1> HIDE DEF Less
<1>4. PICK k \in Bounds : \A j \in Bounds : ~(<<j, k>> \in Less)
    BY <1>1, <1>2, WFMin
<1>5. ASSUME NEW j \in Bounds PROVE k <= j
    <2>1. j \in Nat /\ k \in Nat
        BY <1>1
    <2>2. ~(j < k)
        BY <2>1, <1>3, <1>4, Zenon
    <2>3. QED
        BY <2>1, <2>2
<1>6. k \in S
    <2>1. SUFFICES ASSUME k \notin S PROVE FALSE
        OBVIOUS
    <2>2. PICK x \in S : TRUE
        OBVIOUS
    <2>3. k - 1 \in Bounds
        BY <2>1, <2>2
    <2>4. QED
        BY <2>3, <1>5
<1>7. \E x \in S : \A y \in S : x >= y
    BY <1>6
<1>8. QED
    BY <1>7 DEF Max

LEMMA RowType ==
    ASSUME NEW rows \in Seq(Batch), NEW i \in 1..Len(rows)
    PROVE  rows[i] \in Batch /\ rows[i].id \in Nat /\ rows[i].doc \in Message
<1>1. rows[i] \in Batch
    BY ElementOfSeq
<1>2. QED
    BY <1>1 DEF Batch

LEMMA LoadedIdIsFree ==
    ASSUME NEW q \in [User -> Seq(Batch)], NEW n \in Nat,
           \A u \in User : \A i \in 1..Len(q[u]) : q[u][i].id < n
    PROVE  /\ LoadNextBatchIdFromDb(q) \in Nat
           /\ \A u \in User : \A i \in 1..Len(q[u]) : q[u][i].id < LoadNextBatchIdFromDb(q)
<1> DEFINE Ids == {0} \cup UNION {IdsOf(q[u]) : u \in User}
<1>1. \A u \in User : \A i \in 1..Len(q[u]) : q[u][i].id \in Ids
    BY DEF IdsOf
<1>2. \A x \in Ids : x \in Nat /\ x < n + 1
    <2>1. \A u \in User : \A i \in 1..Len(q[u]) : q[u][i].id \in Nat
        BY RowType
    <2>2. \A u \in User : DOMAIN q[u] = 1..Len(q[u])
        BY LenProperties
    <2>3. QED
        BY <2>1, <2>2 DEF IdsOf
<1>3. 0 \in Ids
    OBVIOUS
<1> HIDE DEF Ids
<1>4. Max(Ids) \in Ids /\ \A x \in Ids : x <= Max(Ids)
    <2>1. Ids # {} /\ Ids \in SUBSET Nat
        BY <1>3, <1>2
    <2>2. n + 1 \in Nat
        OBVIOUS
    <2>3. QED
        BY <2>1, <2>2, <1>2, BoundedSetHasMax
<1>5. LoadNextBatchIdFromDb(q) = Max(Ids) + 1
    BY DEF LoadNextBatchIdFromDb, Ids
<1>6. QED
    BY <1>1, <1>2, <1>4, <1>5

LEMMA MinOfTwo ==
    ASSUME NEW a \in Int, NEW b \in Int
    PROVE  Min({a, b}) = IF a <= b THEN a ELSE b
<1> DEFINE least == IF a <= b THEN a ELSE b
<1>1. least \in {a, b} /\ \A y \in {a, b} : least <= y
    OBVIOUS
<1>2. \A x \in {a, b} : (\A y \in {a, b} : x <= y) => x = least
    OBVIOUS
<1>3. QED
    BY <1>1, <1>2 DEF Min

\* The row after the last one of a front is the next one.
LEMMA NextAfterFront ==
    ASSUME NEW rows \in Seq(Batch), IsOrdered(rows),
           NEW p \in Seq(Batch), IsFrontOf(p, rows)
    PROVE  NextAfter(rows, IF p = <<>> THEN kBatchIdUnknown ELSE p[Len(p)].id) = Len(p) + 1
<1> DEFINE last == IF p = <<>> THEN kBatchIdUnknown ELSE p[Len(p)].id
           IsNext(i) == /\ \A j \in 1..(i - 1) : rows[j].id <= last
                        /\ i <= Len(rows) => rows[i].id > last
<1>1. Len(p) \in Nat /\ Len(rows) \in Nat /\ Len(p) <= Len(rows)
    BY DEF IsFrontOf
<1>2. \A i \in 1..Len(rows) : rows[i].id \in Nat
    BY RowType
<1>3. \A i \in 1..Len(p) : rows[i].id <= last
    <2>1. CASE p = <<>>
        BY <2>1
    <2>2. CASE p # <<>>
        <3>1. Len(p) \in 1..Len(p) /\ last = rows[Len(p)].id
            BY <2>2 DEF IsFrontOf
        <3>2. QED
            BY <3>1, <1>1, <1>2 DEF IsOrdered
    <2>3. QED
        BY <2>1, <2>2
<1>4. \A i \in (Len(p) + 1)..Len(rows) : rows[i].id > last
    <2>1. CASE p = <<>>
        BY <2>1, <1>2 DEF kBatchIdUnknown
    <2>2. CASE p # <<>>
        <3>1. Len(p) \in 1..Len(p) /\ last = rows[Len(p)].id
            BY <2>2 DEF IsFrontOf
        <3>2. QED
            BY <3>1, <1>1, <1>2 DEF IsOrdered
    <2>3. QED
        BY <2>1, <2>2
<1>5. last \in Int
    <2>1. CASE p = <<>>
        BY <2>1 DEF kBatchIdUnknown
    <2>2. CASE p # <<>>
        BY <2>2, <1>1, <1>2 DEF IsFrontOf
    <2>3. QED
        BY <2>1, <2>2
<1>6. Len(p) + 1 \in 1..(Len(rows) + 1) /\ IsNext(Len(p) + 1)
    BY <1>1, <1>3, <1>4
<1>7. \A i \in 1..(Len(rows) + 1) : IsNext(i) => i = Len(p) + 1
    BY <1>1, <1>2, <1>3, <1>4, <1>5
<1>8. NextAfter(rows, last) = CHOOSE i \in 1..(Len(rows) + 1) : IsNext(i)
    BY DEF NextAfter
<1> HIDE DEF IsNext
<1>9. QED
    BY <1>6, <1>7, <1>8

\* A new row goes behind the others.
LEMMA AddedIsLast ==
    ASSUME NEW rows \in Seq(Batch), IsOrdered(rows), NEW id \in Nat, NEW m \in Message,
           \A i \in 1..Len(rows) : rows[i].id < id
    PROVE  /\ AddMutationBatch(rows, id, m) \in Seq(Batch)
           /\ Len(AddMutationBatch(rows, id, m)) = Len(rows) + 1
           /\ \A i \in 1..Len(rows) : AddMutationBatch(rows, id, m)[i] = rows[i]
           /\ AddMutationBatch(rows, id, m)[Len(rows) + 1] = [id |-> id, doc |-> m]
           /\ IsOrdered(AddMutationBatch(rows, id, m))
           /\ \A i \in 1..(Len(rows) + 1) : AddMutationBatch(rows, id, m)[i].id < id + 1
<1> DEFINE row == [id |-> id, doc |-> m]
           longer == AddMutationBatch(rows, id, m)
<1>1. row \in Batch /\ row.id = id
    BY DEF Batch
<1>2. longer = Append(rows, row)
    BY DEF AddMutationBatch
<1> HIDE DEF row, longer
<1>3. /\ longer \in Seq(Batch)
      /\ Len(longer) = Len(rows) + 1
      /\ \A i \in 1..Len(rows) : longer[i] = rows[i]
      /\ longer[Len(rows) + 1] = row
    BY <1>1, <1>2, AppendProperties
<1>4. Len(rows) \in Nat /\ \A i \in 1..Len(rows) : rows[i].id \in Nat
    BY RowType
<1>5. \A i \in 1..(Len(rows) + 1) : longer[i].id < id + 1
    BY <1>1, <1>3, <1>4
<1>6. IsOrdered(longer)
    <2>1. ASSUME NEW i \in 1..Len(longer), NEW j \in 1..Len(longer), i < j
          PROVE  longer[i].id < longer[j].id
        <3>1. i \in 1..Len(rows)
            BY <2>1, <1>3, <1>4
        <3>2. CASE j \in 1..Len(rows)
            BY <2>1, <3>1, <3>2, <1>3 DEF IsOrdered
        <3>3. CASE j = Len(rows) + 1
            BY <3>1, <3>3, <1>1, <1>3
        <3>4. QED
            BY <3>2, <3>3, <1>3, <1>4
    <2>2. QED
        BY <2>1 DEF IsOrdered
<1>7. QED
    BY <1>3, <1>5, <1>6 DEF longer, row

\* A front stays a front when rows are added behind.
LEMMA FrontOfLonger ==
    ASSUME NEW rows \in Seq(Batch), NEW longer \in Seq(Batch),
           NEW p \in Seq(Batch), IsFrontOf(p, rows),
           Len(rows) <= Len(longer), \A i \in 1..Len(rows) : longer[i] = rows[i]
    PROVE  IsFrontOf(p, longer)
<1>1. Len(p) \in Nat /\ Len(rows) \in Nat /\ Len(longer) \in Nat
    OBVIOUS
<1>2. QED
    BY <1>1 DEF IsFrontOf

\* FillWritePipeline loads the rows that follow the pipeline, as many as fit.
LEMMA FilledIsFront ==
    ASSUME NEW rows \in Seq(Batch), IsOrdered(rows),
           NEW p \in Seq(Batch), IsFrontOf(p, rows), Len(p) <= MaxPending
    PROVE  /\ Loaded(rows, p) \in Seq(Batch)
           /\ p \o Loaded(rows, p) \in Seq(Batch)
           /\ Len(p \o Loaded(rows, p)) <= MaxPending
           /\ IsFrontOf(p \o Loaded(rows, p), rows)
           /\ p \o Loaded(rows, p) = <<>> => rows = <<>>
<1> DEFINE first == Len(p) + 1
           final == IF Len(rows) <= MaxPending THEN Len(rows) ELSE MaxPending
<1>1. Len(p) \in Nat /\ Len(rows) \in Nat /\ Len(p) <= Len(rows) /\ MaxPending \in Nat \ {0}
    BY MaxPendingAssumption DEF IsFrontOf
<1>2. Loaded(rows, p) = SubSeq(rows, first, final)
    <2>1. Min({Len(rows), first + Room(p) - 1}) = final
        BY <1>1, MinOfTwo DEF Room
    <2>2. QED
        BY <2>1, NextAfterFront DEF Loaded
<1>3. first \in Int /\ final \in Int /\ final <= Len(rows) /\ final >= Len(p)
    BY <1>1
<1>4. /\ Loaded(rows, p) \in Seq(Batch)
      /\ Len(Loaded(rows, p)) = final - Len(p)
      /\ \A i \in 1..(final - Len(p)) : Loaded(rows, p)[i] = rows[Len(p) + i]
    <2>1. \A i \in first..final : rows[i] \in Batch
        BY <1>1, <1>3
    <2>2. /\ SubSeq(rows, first, final) \in Seq(Batch)
          /\ Len(SubSeq(rows, first, final)) = IF first <= final THEN final - first + 1 ELSE 0
          /\ \A i \in 1..(final - first + 1) : SubSeq(rows, first, final)[i] = rows[first + i - 1]
        BY <2>1, <1>3, SubSeqProperties
    <2>3. QED
        BY <2>2, <1>1, <1>2, <1>3
<1>5. /\ p \o Loaded(rows, p) \in Seq(Batch)
      /\ Len(p \o Loaded(rows, p)) = final
      /\ \A i \in 1..final : (p \o Loaded(rows, p))[i] =
             IF i <= Len(p) THEN p[i] ELSE Loaded(rows, p)[i - Len(p)]
    BY <1>1, <1>3, <1>4, ConcatProperties
<1>6. \A i \in 1..final : (p \o Loaded(rows, p))[i] = rows[i]
    BY <1>1, <1>3, <1>4, <1>5 DEF IsFrontOf
<1>7. IsFrontOf(p \o Loaded(rows, p), rows)
    BY <1>3, <1>5, <1>6 DEF IsFrontOf
<1>8. p \o Loaded(rows, p) = <<>> => rows = <<>>
    BY <1>1, <1>5
<1>9. QED
    BY <1>1, <1>4, <1>5, <1>7, <1>8

\* The row that is deleted is the first one.
LEMMA RemovedIsTail ==
    ASSUME NEW rows \in Seq(Batch), IsOrdered(rows), rows # <<>>
    PROVE  /\ RemoveMutationBatch(rows, rows[1].id) \in Seq(Batch)
           /\ Len(RemoveMutationBatch(rows, rows[1].id)) = Len(rows) - 1
           /\ \A i \in 1..(Len(rows) - 1) :
                 RemoveMutationBatch(rows, rows[1].id)[i] = rows[i + 1]
<1>1. Len(rows) \in Nat \ {0} /\ DOMAIN rows = 1..Len(rows)
    BY EmptySeq
<1>2. \A i \in 1..Len(rows) : rows[i].id \in Nat
    BY RowType
<1>3. (CHOOSE i \in DOMAIN rows : rows[i].id = rows[1].id) = 1
    BY <1>1, <1>2 DEF IsOrdered
<1>4. RemoveMutationBatch(rows, rows[1].id) = SubSeq(rows, 1, 0) \o SubSeq(rows, 2, Len(rows))
    <2>1. RemoveMutationBatch(rows, rows[1].id) = RemoveAt(rows, 1)
        BY <1>3, Zenon DEF RemoveMutationBatch
    <2>2. RemoveAt(rows, 1) = SubSeq(rows, 1, 1 - 1) \o SubSeq(rows, 1 + 1, Len(rows))
        BY DEF RemoveAt
    <2>3. 1 - 1 = 0 /\ 1 + 1 = 2
        OBVIOUS
    <2>4. QED
        BY <2>1, <2>2, <2>3, Zenon
<1>5. SubSeq(rows, 1, 0) = <<>>
    BY SubSeqEmpty
<1>6. SubSeq(rows, 2, Len(rows)) = Tail(rows)
    BY TailIsSubSeq
<1>7. Tail(rows) \in Seq(Batch) /\ <<>> \o Tail(rows) = Tail(rows)
    BY HeadTailProperties, ConcatEmptySeq
<1>8. QED
    BY <1>1, <1>4, <1>5, <1>6, <1>7, HeadTailProperties

\* Deleting the row of the first batch of a front leaves the rest of the front.
LEMMA FrontWithoutHead ==
    ASSUME NEW rows \in Seq(Batch), IsOrdered(rows),
           NEW p \in Seq(Batch), p # <<>>, IsFrontOf(p, rows)
    PROVE  /\ rows # <<>>
           /\ Head(p) = rows[1]
           /\ RemoveMutationBatch(rows, Head(p).id) \in Seq(Batch)
           /\ Len(RemoveMutationBatch(rows, Head(p).id)) = Len(rows) - 1
           /\ \A i \in 1..(Len(rows) - 1) :
                 RemoveMutationBatch(rows, Head(p).id)[i] = rows[i + 1]
           /\ IsOrdered(RemoveMutationBatch(rows, Head(p).id))
           /\ Tail(p) \in Seq(Batch)
           /\ Len(Tail(p)) = Len(p) - 1
           /\ IsFrontOf(Tail(p), RemoveMutationBatch(rows, Head(p).id))
<1> DEFINE rest == RemoveMutationBatch(rows, Head(p).id)
<1>1. Len(p) \in Nat \ {0} /\ Len(rows) \in Nat /\ Len(p) <= Len(rows)
    BY EmptySeq DEF IsFrontOf
<1>2. rows # <<>> /\ Head(p) = rows[1]
    BY <1>1, EmptySeq DEF IsFrontOf
<1>3. /\ rest \in Seq(Batch)
      /\ Len(rest) = Len(rows) - 1
      /\ \A i \in 1..(Len(rows) - 1) : rest[i] = rows[i + 1]
    BY <1>2, RemovedIsTail
<1> HIDE DEF rest
<1>4. IsOrdered(rest)
    BY <1>1, <1>3 DEF IsOrdered
<1>5. /\ Tail(p) \in Seq(Batch)
      /\ Len(Tail(p)) = Len(p) - 1
      /\ \A i \in 1..(Len(p) - 1) : Tail(p)[i] = p[i + 1]
    BY <1>1, HeadTailProperties
<1>6. IsFrontOf(Tail(p), rest)
    BY <1>1, <1>3, <1>5 DEF IsFrontOf
<1>7. QED
    BY <1>2, <1>3, <1>4, <1>5, <1>6 DEF rest

(***************************************************************************)
(* The pipeline, the stream and the connection.                            *)
(***************************************************************************)

\* What holds of pipeline p, stream s, handshake hs, idle timer t and wire w
\* before FillWritePipeline for the given rows ...
CanFill(rows, p, s, hs, t, w) ==
    /\ p \in Seq(Batch)
    /\ Len(p) <= MaxPending
    /\ IsFrontOf(p, rows)
    /\ s \in StreamState
    /\ hs \in BOOLEAN
    /\ t \in BOOLEAN
    /\ w = IF s = "Open" /\ hs THEN p ELSE <<>>
    /\ (IsStarted(s) /\ ~hs) => p # <<>>
    /\ hs => s = "Open"
    /\ t => s = "Open" /\ hs /\ p = <<>>

\* ... and after it.
Filled(rows, p, s, hs, t, w) ==
    /\ CanFill(rows, p, s, hs, t, w)
    /\ p # <<>> => IsStarted(s)
    /\ p = <<>> => rows = <<>>

LEMMA Filling ==
    ASSUME NEW rows \in Seq(Batch), IsOrdered(rows), NEW p, NEW s, NEW hs, NEW t, NEW w,
           CanFill(rows, p, s, hs, t, w),
           FillWritePipeline(rows, p, s, hs, w, t)
    PROVE  /\ Filled(rows, pipeline', stream', hs, idle', wire')
           /\ Len(wire') >= Len(w)
           /\ \A i \in 1..Len(w) : wire'[i] = w[i]
<1> DEFINE more == Loaded(rows, p)
           full == p \o more
           sent == IF s = "Open" /\ hs THEN more ELSE <<>>
<1>1. /\ p \in Seq(Batch) /\ Len(p) <= MaxPending /\ IsFrontOf(p, rows)
      /\ s \in StreamState /\ hs \in BOOLEAN /\ t \in BOOLEAN
      /\ w = IF s = "Open" /\ hs THEN p ELSE <<>>
      /\ (IsStarted(s) /\ ~hs) => p # <<>>
      /\ hs => s = "Open"
      /\ t => s = "Open" /\ hs /\ p = <<>>
    BY DEF CanFill
<1>2. /\ more \in Seq(Batch) /\ full \in Seq(Batch) /\ Len(full) <= MaxPending
      /\ IsFrontOf(full, rows)
      /\ full = <<>> => rows = <<>>
    BY <1>1, FilledIsFront
<1>3. /\ pipeline' = full
      /\ wire' = w \o sent
      /\ idle' = IdleAfter(t, s, full, sent)
      /\ stream' = Restarted(s, full)
    BY DEF FillWritePipeline
<1>4. full # <<>> \/ p = <<>>
    BY <1>1, <1>2, ConcatProperties, EmptySeq
<1>5. /\ Len(full) = Len(p) + Len(more)
      /\ \A i \in 1..Len(p) : full[i] = p[i]
    BY <1>1, <1>2, ConcatProperties
<1>6. wire' = IF s = "Open" /\ hs THEN full ELSE <<>>
    BY <1>1, <1>3, ConcatEmptySeq
<1> HIDE DEF more, full
<1>7. /\ stream' \in StreamState
      /\ full # <<>> => IsStarted(stream')
      /\ stream' = "Open" <=> s = "Open"
      /\ full = <<>> => stream' = s
    BY <1>1, <1>3 DEF Restarted, Start, IsStarted, StreamState
<1>8. /\ idle' \in BOOLEAN
      /\ idle' => s = "Open" /\ hs /\ full = <<>>
    <2>1. CASE full = <<>>
        <3>1. p = <<>>
            BY <2>1, <1>4
        <3>2. s = "Open" => hs
            BY <3>1, <1>1 DEF IsStarted
        <3>3. idle' = (t \/ s = "Open")
            BY <2>1, <1>3 DEF IdleAfter
        <3>4. QED
            BY <2>1, <3>2, <3>3, <1>1
    <2>2. CASE full # <<>>
        <3>1. idle' = (t /\ sent = <<>>)
            BY <2>2, <1>3 DEF IdleAfter
        <3>2. t => p = <<>> /\ sent = full
            BY <1>1, <1>2, ConcatEmptySeq DEF full
        <3>3. QED
            BY <2>2, <3>1, <3>2, <1>1
    <2>3. QED
        BY <2>1, <2>2
<1>9. CanFill(rows, full, stream', hs, idle', wire')
    <2>1. (IsStarted(stream') /\ ~hs) => full # <<>>
        BY <1>1, <1>4, <1>7
    <2>2. hs => stream' = "Open"
        BY <1>1, <1>7
    <2>3. idle' => stream' = "Open" /\ hs /\ full = <<>>
        BY <1>7, <1>8
    <2>4. wire' = IF stream' = "Open" /\ hs THEN full ELSE <<>>
        BY <1>6, <1>7
    <2>5. QED
        BY <1>1, <1>2, <1>7, <1>8, <2>1, <2>2, <2>3, <2>4, Zenon DEF CanFill
<1>10. QED
    BY <1>1, <1>2, <1>3, <1>5, <1>6, <1>7, <1>9 DEF Filled


\* A network that was stopped can be filled.
LEMMA Stopped ==
    ASSUME NEW rows \in Seq(Batch)
    PROVE  CanFill(rows, <<>>, "Initial", FALSE, FALSE, <<>>)
<1>1. <<>> \in Seq(Batch) /\ Len(<<>>) = 0 /\ Len(rows) \in Nat
    OBVIOUS
<1>2. QED
    BY <1>1, MaxPendingAssumption DEF CanFill, IsFrontOf, StreamState, IsStarted

LEMMA Restarting ==
    ASSUME NEW rows \in Seq(Batch), IsOrdered(rows), RestartNetwork(rows)
    PROVE  /\ Filled(rows, pipeline', stream', handshakeComplete', idle', wire')
           /\ answered' \in 0..Len(wire')
           /\ answered' = 0
<1>1. /\ FillWritePipeline(rows, <<>>, "Initial", FALSE, <<>>, FALSE)
      /\ handshakeComplete' = FALSE
      /\ answered' = 0
    BY DEF RestartNetwork
<1>2. Filled(rows, pipeline', stream', FALSE, idle', wire')
    BY <1>1, Stopped, Filling
<1>3. wire' = <<>>
    BY <1>2 DEF Filled, CanFill
<1>4. 0 \in 0..Len(<<>>)
    OBVIOUS
<1>5. Filled(rows, pipeline', stream', handshakeComplete', idle', wire')
    BY <1>1, <1>2
<1>6. QED
    BY <1>1, <1>3, <1>4, <1>5

\* Whom NotifyUser tells, and whom it forgets.
LEMMA Notifying ==
    ASSUME callbacks \in [User -> SUBSET Batch], outcome \in [Message -> Outcome],
           currentUser \in User, NEW id, NEW result \in Outcome, NotifyUser(id, result)
    PROVE  /\ callbacks' \in [User -> SUBSET Batch]
           /\ outcome' \in [Message -> Outcome]
           /\ \A u \in User : \A c \in Batch :
                 c \in callbacks'[u] <=> c \in callbacks[u] /\ (u = currentUser => c.id # id)
           /\ \A m \in Message :
                 \/ outcome'[m] = outcome[m]
                 \/ /\ outcome'[m] = result
                    /\ \E c \in callbacks[currentUser] : c.id = id /\ c.doc = m
<1> DEFINE called == {c \in callbacks[currentUser] : c.id = id}
<1>1. outcome' = [m \in Message |->
                     IF \E c \in called : c.doc = m THEN result ELSE outcome[m]]
    BY DEF NotifyUser
<1>2. callbacks' = [callbacks EXCEPT ![currentUser] = @ \ called]
    BY DEF NotifyUser
<1>3. callbacks' \in [User -> SUBSET Batch]
    BY <1>2
<1>4. \A u \in User : \A c \in Batch :
         c \in callbacks'[u] <=> c \in callbacks[u] /\ (u = currentUser => c.id # id)
    BY <1>2
<1>5. \A m \in Message : outcome'[m] =
         IF \E c \in called : c.doc = m THEN result ELSE outcome[m]
    BY <1>1
<1>6. outcome' \in [Message -> Outcome]
    BY <1>1
<1>7. QED
    BY <1>3, <1>4, <1>5, <1>6

(***************************************************************************)
(* The part of IInv that is about the queue, the pipeline and the stream.  *)
(* It is inductive by itself.                                              *)
(***************************************************************************)

PipelineInv ==
    /\ TypeOK
    /\ RowsByIncreasingId
    /\ PipelineIsQueueFront
    /\ WireMatchesPipeline
    /\ StartedForThePipeline
    /\ IdleOnlyWhenDrained
    /\ NeverStranded

LEMMA PipelineInvFacts ==
    ASSUME PipelineInv
    PROVE  /\ Filled(queue[currentUser], pipeline, stream, handshakeComplete, idle, wire)
           /\ queue[currentUser] \in Seq(Batch)
           /\ IsOrdered(queue[currentUser])
BY DEF PipelineInv, TypeOK, RowsByIncreasingId, PipelineIsQueueFront, WireMatchesPipeline,
       StartedForThePipeline, IdleOnlyWhenDrained, NeverStranded, Filled, CanFill

LEMMA PipelineInvFromParts ==
    ASSUME queue' \in [User -> Seq(Batch)],
           currentUser' \in User,
           nextBatchId' \in Nat,
           callbacks' \in [User -> SUBSET Batch],
           answered' \in 0..Len(wire'),
           committed' \in Seq(Message),
           submitted' \in [User -> Seq(Message)],
           outcome' \in [Message -> Outcome],
           RowsByIncreasingId',
           Filled(queue'[currentUser'], pipeline', stream', handshakeComplete', idle', wire')
    PROVE  PipelineInv'
<1>1. /\ CanFill(queue'[currentUser'], pipeline', stream', handshakeComplete', idle', wire')
      /\ pipeline' # <<>> => IsStarted(stream')
      /\ pipeline' = <<>> => queue'[currentUser'] = <<>>
    BY DEF Filled
<1>2. wire' \in Seq(Batch)
    BY <1>1 DEF CanFill
<1>3. TypeOK'
    BY <1>1, <1>2 DEF TypeOK, CanFill
<1>4. PipelineIsQueueFront'
    BY <1>1 DEF PipelineIsQueueFront, CanFill
<1>5. WireMatchesPipeline'
    BY <1>1 DEF WireMatchesPipeline, CanFill
<1>6. StartedForThePipeline'
    BY <1>1 DEF StartedForThePipeline, CanFill
<1>7. IdleOnlyWhenDrained'
    BY <1>1 DEF IdleOnlyWhenDrained, CanFill
<1>8. NeverStranded'
    BY <1>1 DEF NeverStranded
<1>9. QED
    BY <1>3, <1>4, <1>5, <1>6, <1>7, <1>8 DEF PipelineInv


LEMMA PipelineInit == Init => PipelineInv
<1> SUFFICES ASSUME Init PROVE PipelineInv
    OBVIOUS
<1>1. <<>> \in Seq(Batch) /\ <<>> \in Seq(Message) /\ Len(<<>>) = 0
    OBVIOUS
<1>2. TypeOK
    <2>1. /\ queue \in [User -> Seq(Batch)]
          /\ submitted \in [User -> Seq(Message)]
          /\ callbacks \in [User -> SUBSET Batch]
          /\ outcome \in [Message -> Outcome]
        BY <1>1 DEF Init, Outcome
    <2>2. /\ pipeline \in Seq(Batch)
          /\ Len(pipeline) <= MaxPending
          /\ wire \in Seq(Batch)
          /\ answered \in 0..Len(wire)
          /\ committed \in Seq(Message)
        BY <1>1, MaxPendingAssumption DEF Init
    <2>3. QED
        BY <2>1, <2>2 DEF Init, TypeOK, StreamState
<1>3. RowsByIncreasingId
    BY <1>1 DEF Init, RowsByIncreasingId, IsOrdered
<1>4. PipelineIsQueueFront
    BY <1>1 DEF Init, PipelineIsQueueFront, IsFrontOf
<1>5. QED
    BY <1>1, <1>2, <1>3, <1>4
    DEF Init, PipelineInv, WireMatchesPipeline, StartedForThePipeline, IdleOnlyWhenDrained,
        NeverStranded, IsStarted

\* What every step that swaps, deletes or adds no row has in common.
LEMMA PipelineStep == PipelineInv /\ [Next]_vars => PipelineInv'
<1> SUFFICES ASSUME PipelineInv, [Next]_vars PROVE PipelineInv'
    OBVIOUS
<1>1. TypeOK /\ RowsByIncreasingId
    BY DEF PipelineInv
<1>2. /\ queue \in [User -> Seq(Batch)]
      /\ currentUser \in User
      /\ nextBatchId \in Nat
      /\ callbacks \in [User -> SUBSET Batch]
      /\ wire \in Seq(Batch)
      /\ answered \in 0..Len(wire)
      /\ committed \in Seq(Message)
      /\ submitted \in [User -> Seq(Message)]
      /\ outcome \in [Message -> Outcome]
    BY <1>1 DEF TypeOK
<1>3. /\ Filled(queue[currentUser], pipeline, stream, handshakeComplete, idle, wire)
      /\ queue[currentUser] \in Seq(Batch)
      /\ IsOrdered(queue[currentUser])
    BY PipelineInvFacts
<1>4. CanFill(queue[currentUser], pipeline, stream, handshakeComplete, idle, wire)
    BY <1>3 DEF Filled
<1>5. \A u \in User : queue[u] \in Seq(Batch) /\ IsOrdered(queue[u])
    BY <1>1, <1>2 DEF RowsByIncreasingId
<1>6. ASSUME NEW m \in Message, WriteMutations(m)
      PROVE  PipelineInv'
    <2> DEFINE rows == AddMutationBatch(queue[currentUser], nextBatchId, m)
    <2>1. \A i \in 1..Len(queue[currentUser]) : queue[currentUser][i].id < nextBatchId
        BY <1>1, <1>2 DEF RowsByIncreasingId
    <2> HIDE DEF rows
    <2>2. /\ rows \in Seq(Batch)
          /\ IsOrdered(rows)
          /\ Len(rows) = Len(queue[currentUser]) + 1
          /\ \A i \in 1..(Len(queue[currentUser]) + 1) : rows[i].id < nextBatchId + 1
          /\ \A i \in 1..Len(queue[currentUser]) : rows[i] = queue[currentUser][i]
        <3>1. /\ queue[currentUser] \in Seq(Batch)
              /\ IsOrdered(queue[currentUser])
              /\ nextBatchId \in Nat
            BY <1>2, <1>3
        <3>2. QED
            BY <2>1, <3>1, AddedIsLast, ZenonT(60) DEF rows
    <2>3. queue' = [queue EXCEPT ![currentUser] = rows]
        BY <1>6 DEF WriteMutations, rows
    <2>4. /\ queue' \in [User -> Seq(Batch)]
          /\ queue'[currentUser] = rows
          /\ \A u \in User : u # currentUser => queue'[u] = queue[u]
        BY <2>2, <2>3, <1>2
    <2>5. FillWritePipeline(rows, pipeline, stream, handshakeComplete, wire, idle)
        BY <2>4, <1>6 DEF WriteMutations
    <2>6. CanFill(rows, pipeline, stream, handshakeComplete, idle, wire)
        <3>1. pipeline \in Seq(Batch) /\ IsFrontOf(pipeline, queue[currentUser])
            BY <1>4 DEF CanFill
        <3>2. Len(queue[currentUser]) <= Len(rows)
            BY <2>2, <1>3
        <3>3. IsFrontOf(pipeline, rows)
            BY <3>1, <3>2, <2>2, <1>3, FrontOfLonger
        <3>4. QED
            BY <3>3, <1>4 DEF CanFill
    <2>7. /\ Filled(rows, pipeline', stream', handshakeComplete, idle', wire')
          /\ Len(wire') >= Len(wire)
        BY <2>2, <2>5, <2>6, Filling
    <2>8. /\ currentUser' = currentUser
          /\ nextBatchId' = nextBatchId + 1
          /\ handshakeComplete' = handshakeComplete
          /\ answered' = answered
          /\ committed' = committed
          /\ outcome' = outcome
          /\ submitted' = [submitted EXCEPT ![currentUser] = Append(@, m)]
        BY <1>6 DEF WriteMutations
    <2>9. RowsByIncreasingId'
        <3>1. ASSUME NEW u \in User
              PROVE  /\ IsOrdered(queue'[u])
                     /\ \A i \in 1..Len(queue'[u]) : queue'[u][i].id < nextBatchId'
            <4>1. CASE u = currentUser
                BY <4>1, <2>2, <2>4, <2>8
            <4>2. CASE u # currentUser
                <5>1. \A i \in 1..Len(queue[u]) : queue[u][i].id \in Nat
                    BY <1>5, RowType
                <5>2. QED
                    BY <5>1, <4>2, <2>4, <2>8, <1>1, <1>2 DEF RowsByIncreasingId
            <4>3. QED
                BY <4>1, <4>2
        <3>2. QED
            BY <3>1 DEF RowsByIncreasingId
    <2>10. callbacks' \in [User -> SUBSET Batch]
        <3>1. [id |-> nextBatchId, doc |-> m] \in Batch
            BY <1>2 DEF Batch
        <3>2. InsertCallback(nextBatchId, m)
            BY <1>6 DEF WriteMutations
        <3>3. QED
            BY <3>1, <3>2, <1>2 DEF InsertCallback
    <2>11. answered' \in 0..Len(wire')
        <3>1. wire' \in Seq(Batch)
            BY <2>7 DEF Filled, CanFill
        <3>2. QED
            BY <3>1, <2>7, <2>8, <1>2
    <2>12. submitted' \in [User -> Seq(Message)]
        BY <2>8, <1>2
    <2>13. Filled(queue'[currentUser'], pipeline', stream', handshakeComplete', idle', wire')
        BY <2>4, <2>7, <2>8
    <2>14. QED
        BY <2>4, <2>8, <2>9, <2>10, <2>11, <2>12, <2>13, <1>2, PipelineInvFromParts
<1>7. ASSUME NEW n \in Nat,
             \A u \in User : \A i \in 1..Len(queue[u]) : queue[u][i].id < n,
             queue' = queue, nextBatchId' = n
      PROVE  RowsByIncreasingId'
    BY <1>1, <1>7 DEF RowsByIncreasingId
<1>8. UNCHANGED <<queue, nextBatchId>> => RowsByIncreasingId'
    BY <1>1 DEF RowsByIncreasingId
<1>9. /\ LoadNextBatchIdFromDb(queue) \in Nat
      /\ \A u \in User : \A i \in 1..Len(queue[u]) :
            queue[u][i].id < LoadNextBatchIdFromDb(queue)
    BY <1>1, <1>2, LoadedIdIsFree DEF RowsByIncreasingId
<1>10. ASSUME NEW u \in User, HandleCredentialChange(u)
       PROVE  PipelineInv'
    <2>1. /\ UNCHANGED <<queue, callbacks, committed, submitted, outcome>>
          /\ currentUser' = u
          /\ RestartNetwork(queue[u])
          /\ nextBatchId' = IF u = currentUser THEN nextBatchId
                            ELSE LoadNextBatchIdFromDb(queue)
        BY <1>10 DEF HandleCredentialChange
    <2>2. nextBatchId' \in Nat /\ RowsByIncreasingId'
        BY <2>1, <1>2, <1>7, <1>8, <1>9
    <2>3. /\ Filled(queue[u], pipeline', stream', handshakeComplete', idle', wire')
          /\ answered' \in 0..Len(wire')
        BY <2>1, <1>5, Restarting
    <2>4. QED
        BY <2>1, <2>2, <2>3, <1>2, PipelineInvFromParts
<1>11. ASSUME ConnectivityChanged
       PROVE  PipelineInv'
    <2>1. /\ UNCHANGED <<queue, memory, committed, submitted, outcome>>
          /\ RestartNetwork(queue[currentUser])
        BY <1>11 DEF ConnectivityChanged
    <2>2. UNCHANGED <<currentUser, nextBatchId, callbacks>>
        BY <2>1 DEF memory
    <2>3. /\ Filled(queue[currentUser], pipeline', stream', handshakeComplete', idle', wire')
          /\ answered' \in 0..Len(wire')
        BY <2>1, <1>3, Restarting
    <2>4. QED
        BY <2>1, <2>2, <2>3, <1>2, <1>8, PipelineInvFromParts
<1>12. ASSUME NEW u \in User, Initialize(u), outcome' \in [Message -> Outcome]
       PROVE  PipelineInv'
    <2>1. /\ UNCHANGED <<queue, committed, submitted>>
          /\ currentUser' = u
          /\ RestartNetwork(queue[u])
          /\ nextBatchId' = LoadNextBatchIdFromDb(queue)
          /\ callbacks' = [v \in User |-> {}]
        BY <1>12 DEF Initialize
    <2>2. nextBatchId' \in Nat /\ RowsByIncreasingId'
        BY <2>1, <1>7, <1>9
    <2>3. callbacks' \in [User -> SUBSET Batch]
        BY <2>1
    <2>4. /\ Filled(queue[u], pipeline', stream', handshakeComplete', idle', wire')
          /\ answered' \in 0..Len(wire')
        BY <2>1, <1>5, Restarting
    <2>5. QED
        BY <2>1, <2>2, <2>3, <2>4, <1>2, <1>12, PipelineInvFromParts
<1>13. ASSUME NEW u \in User, KillWhileAcknowledging(u)
       PROVE  outcome' \in [Message -> Outcome]
    <2>1. NotifyUserAndDie(Head(pipeline).id, "ok")
        BY <1>13 DEF KillWhileAcknowledging
    <2>2. QED
        BY <2>1, <1>2 DEF NotifyUserAndDie, Outcome
\* A step that leaves the rows, the users and the history alone.
<1>14. ASSUME UNCHANGED <<queue, memory, committed, submitted, outcome>>,
              CanFill(queue[currentUser], pipeline', stream', handshakeComplete', idle', wire'),
              pipeline' = pipeline, pipeline # <<>> => IsStarted(stream'),
              answered' \in 0..Len(wire')
       PROVE  PipelineInv'
    <2>1. UNCHANGED <<queue, currentUser, nextBatchId, callbacks>>
        BY <1>14 DEF memory
    <2>2. Filled(queue'[currentUser'], pipeline', stream', handshakeComplete', idle', wire')
        BY <2>1, <1>3, <1>14 DEF Filled
    <2>3. QED
        BY <2>1, <2>2, <1>2, <1>8, <1>14, PipelineInvFromParts
<1>15. /\ pipeline \in Seq(Batch)
       /\ stream \in StreamState
       /\ handshakeComplete \in BOOLEAN
       /\ idle \in BOOLEAN
       /\ wire = IF stream = "Open" /\ handshakeComplete THEN pipeline ELSE <<>>
       /\ (IsStarted(stream) /\ ~handshakeComplete) => pipeline # <<>>
       /\ handshakeComplete => stream = "Open"
       /\ idle => stream = "Open" /\ handshakeComplete /\ pipeline = <<>>
       /\ pipeline # <<>> => IsStarted(stream)
    BY <1>3, <1>4 DEF CanFill, Filled
<1>16. CASE ResumeStartWithCredentials
    <2>1. /\ stream = "Starting"
          /\ stream' = "Open"
          /\ UNCHANGED <<pipeline, handshakeComplete, idle, wire, answered>>
          /\ UNCHANGED <<queue, memory, committed, submitted, outcome>>
        BY <1>16 DEF ResumeStartWithCredentials
    <2>2. ~handshakeComplete /\ ~idle /\ wire = <<>> /\ pipeline # <<>>
        BY <2>1, <1>15 DEF IsStarted
    <2>3. CanFill(queue[currentUser], pipeline', stream', handshakeComplete', idle', wire')
        BY <2>1, <2>2, <1>4 DEF CanFill, StreamState
    <2>4. QED
        BY <2>1, <2>3, <1>2, <1>14 DEF IsStarted
<1>17. CASE OnWriteStreamHandshakeComplete
    <2>1. /\ stream = "Open" /\ ~handshakeComplete
          /\ handshakeComplete' = TRUE
          /\ wire' = wire \o pipeline
          /\ idle' = (idle /\ pipeline = <<>>)
          /\ UNCHANGED <<pipeline, stream, answered>>
          /\ UNCHANGED <<queue, memory, committed, submitted, outcome>>
        BY <1>17 DEF OnWriteStreamHandshakeComplete
    <2>2. wire = <<>> /\ wire' = pipeline /\ ~idle'
        BY <2>1, <1>15, ConcatEmptySeq
    <2>3. CanFill(queue[currentUser], pipeline', stream', handshakeComplete', idle', wire')
        BY <2>1, <2>2, <1>4 DEF CanFill
    <2>4. answered' \in 0..Len(wire')
        <3>1. Len(wire) = 0 /\ Len(pipeline) \in Nat
            BY <2>2, <1>15
        <3>2. QED
            BY <3>1, <2>1, <2>2, <1>2
    <2>5. QED
        BY <2>1, <2>3, <2>4, <1>14 DEF IsStarted
<1>18. CASE BackendCommits
    <2>1. /\ answered < Len(wire)
          /\ answered' = answered + 1
          /\ UNCHANGED <<queue, memory, submitted, outcome>>
          /\ UNCHANGED <<pipeline, stream, handshakeComplete, idle, wire>>
          /\ committed' = IF Committed(wire[answered + 1].doc) THEN committed
                          ELSE Append(committed, wire[answered + 1].doc)
        BY <1>18 DEF BackendCommits
    <2>2. wire[answered + 1].doc \in Message
        BY <2>1, <1>2, RowType
    <2>3. committed' \in Seq(Message)
        BY <2>1, <2>2, <1>2
    <2>4. answered' \in 0..Len(wire')
        BY <2>1, <1>2
    <2>5. UNCHANGED <<currentUser, nextBatchId, callbacks>>
        BY <2>1 DEF memory
    <2>6. Filled(queue'[currentUser'], pipeline', stream', handshakeComplete', idle', wire')
        BY <2>1, <2>5, <1>3
    <2>7. QED
        BY <2>1, <2>3, <2>4, <2>5, <2>6, <1>2, <1>8, PipelineInvFromParts
<1>19. CASE OnWriteStreamClose
    <2>1. /\ stream' = Restarted("Error", pipeline)
          /\ handshakeComplete' = FALSE
          /\ idle' = FALSE
          /\ wire' = <<>>
          /\ answered' = 0
          /\ pipeline' = pipeline
          /\ UNCHANGED <<queue, memory, committed, submitted, outcome>>
        BY <1>19 DEF OnWriteStreamClose
    <2>2. stream' = IF pipeline # <<>> THEN "Backoff" ELSE "Error"
        BY <2>1 DEF Restarted, Start, IsStarted
    <2>3. CanFill(queue[currentUser], pipeline', stream', handshakeComplete', idle', wire')
        BY <2>1, <2>2, <1>4 DEF CanFill, StreamState, IsStarted
    <2>4. answered' \in 0..Len(wire')
        BY <2>1
    <2>5. QED
        BY <2>1, <2>2, <2>3, <2>4, <1>14 DEF IsStarted
<1>20. CASE IdleTimeout
    <2>1. /\ idle
          /\ stream' = "Initial"
          /\ handshakeComplete' = FALSE
          /\ idle' = FALSE
          /\ wire' = <<>>
          /\ answered' = 0
          /\ pipeline' = pipeline
          /\ UNCHANGED <<queue, memory, committed, submitted, outcome>>
        BY <1>20 DEF IdleTimeout
    <2>2. pipeline = <<>>
        BY <2>1, <1>15
    <2>3. CanFill(queue[currentUser], pipeline', stream', handshakeComplete', idle', wire')
        BY <2>1, <1>4 DEF CanFill, StreamState, IsStarted
    <2>4. answered' \in 0..Len(wire')
        BY <2>1
    <2>5. QED
        BY <2>1, <2>2, <2>3, <2>4, <1>14
<1>21. CASE BackoffElapsed
    <2>1. /\ stream = "Backoff"
          /\ stream' = "Starting"
          /\ UNCHANGED <<pipeline, handshakeComplete, idle, wire, answered>>
          /\ UNCHANGED <<queue, memory, committed, submitted, outcome>>
        BY <1>21 DEF BackoffElapsed, Start
    <2>2. ~handshakeComplete /\ ~idle /\ wire = <<>> /\ pipeline # <<>>
        BY <2>1, <1>15 DEF IsStarted
    <2>3. CanFill(queue[currentUser], pipeline', stream', handshakeComplete', idle', wire')
        BY <2>1, <2>2, <1>4 DEF CanFill, StreamState
    <2>4. QED
        BY <2>1, <2>3, <1>2, <1>14 DEF IsStarted
\* Both ends of a write delete the row of the pipeline's head.
<1>22. ASSUME pipeline # <<>>,
              queue' = [queue EXCEPT ![currentUser] =
                           RemoveMutationBatch(@, Head(pipeline).id)],
              UNCHANGED <<currentUser, nextBatchId>>
       PROVE  /\ queue' \in [User -> Seq(Batch)]
              /\ queue'[currentUser] \in Seq(Batch)
              /\ IsOrdered(queue'[currentUser])
              /\ IsFrontOf(Tail(pipeline), queue'[currentUser])
              /\ Tail(pipeline) \in Seq(Batch)
              /\ Len(Tail(pipeline)) <= MaxPending
              /\ RowsByIncreasingId'
    <2> DEFINE rest == RemoveMutationBatch(queue[currentUser], Head(pipeline).id)
    <2>1. IsFrontOf(pipeline, queue[currentUser]) /\ Len(pipeline) <= MaxPending
        BY <1>4 DEF CanFill
    <2>2. /\ rest \in Seq(Batch)
          /\ Len(rest) = Len(queue[currentUser]) - 1
          /\ \A i \in 1..(Len(queue[currentUser]) - 1) : rest[i] = queue[currentUser][i + 1]
          /\ IsOrdered(rest)
          /\ Tail(pipeline) \in Seq(Batch)
          /\ Len(Tail(pipeline)) = Len(pipeline) - 1
          /\ IsFrontOf(Tail(pipeline), rest)
        BY <2>1, <1>3, <1>15, <1>22, FrontWithoutHead
    <2>3. queue' = [queue EXCEPT ![currentUser] = rest]
        BY <1>22
    <2> HIDE DEF rest
    <2>4. /\ queue' \in [User -> Seq(Batch)]
          /\ queue'[currentUser] = rest
          /\ \A u \in User : u # currentUser => queue'[u] = queue[u]
        BY <2>2, <2>3, <1>2
    <2>5. RowsByIncreasingId'
        <3>1. \A i \in 1..Len(rest) : rest[i].id < nextBatchId
            <4>1. \A i \in 1..Len(queue[currentUser]) : queue[currentUser][i].id < nextBatchId
                BY <1>1, <1>2 DEF RowsByIncreasingId
            <4>2. Len(queue[currentUser]) \in Nat
                BY <1>3
            <4>3. \A i \in 1..Len(rest) : i + 1 \in 1..Len(queue[currentUser])
                BY <4>2, <2>2
            <4>4. QED
                BY <4>1, <4>2, <4>3, <2>2
        <3>2. ASSUME NEW u \in User
              PROVE  /\ IsOrdered(queue'[u])
                     /\ \A i \in 1..Len(queue'[u]) : queue'[u][i].id < nextBatchId'
            <4>1. CASE u = currentUser
                BY <4>1, <3>1, <2>2, <2>4, <1>22
            <4>2. CASE u # currentUser
                BY <4>2, <2>4, <1>1, <1>22 DEF RowsByIncreasingId
            <4>3. QED
                BY <4>1, <4>2
        <3>3. QED
            BY <3>2 DEF RowsByIncreasingId
    <2>6. Len(Tail(pipeline)) <= MaxPending
        BY <2>1, <2>2, <1>15, MaxPendingAssumption
    <2>7. QED
        BY <2>2, <2>4, <2>5, <2>6
<1>23. CASE OnWriteStreamMutationResult
    <2>1. /\ answered > 0
          /\ NotifyUser(Head(pipeline).id, "ok")
          /\ queue' = [queue EXCEPT ![currentUser] =
                          RemoveMutationBatch(@, Head(pipeline).id)]
          /\ FillWritePipeline(queue'[currentUser], Tail(pipeline), stream,
                               handshakeComplete, Tail(wire), idle)
          /\ answered' = answered - 1
          /\ UNCHANGED <<currentUser, nextBatchId, handshakeComplete, committed, submitted>>
        BY <1>23 DEF OnWriteStreamMutationResult
    <2>2. wire = pipeline /\ pipeline # <<>> /\ stream = "Open" /\ handshakeComplete
        <3>1. wire # <<>>
            BY <2>1, <1>2
        <3>2. QED
            BY <3>1, <1>15
    <2>3. /\ queue' \in [User -> Seq(Batch)]
          /\ queue'[currentUser] \in Seq(Batch)
          /\ IsOrdered(queue'[currentUser])
          /\ IsFrontOf(Tail(pipeline), queue'[currentUser])
          /\ Tail(pipeline) \in Seq(Batch)
          /\ Len(Tail(pipeline)) <= MaxPending
          /\ RowsByIncreasingId'
        BY <2>1, <2>2, <1>22
    <2>4. CanFill(queue'[currentUser], Tail(pipeline), stream, handshakeComplete, idle,
                  Tail(wire))
        BY <2>2, <2>3, <1>15 DEF CanFill
    <2>5. /\ Filled(queue'[currentUser], pipeline', stream', handshakeComplete, idle', wire')
          /\ Len(wire') >= Len(Tail(wire))
        BY <2>1, <2>3, <2>4, Filling
    <2>6. answered' \in 0..Len(wire')
        <3>1. Len(Tail(wire)) = Len(wire) - 1
            BY <2>2, <1>2, HeadTailProperties
        <3>2. wire' \in Seq(Batch)
            BY <2>5 DEF Filled, CanFill
        <3>3. QED
            BY <3>1, <3>2, <2>1, <2>5, <1>2
    <2>7. callbacks' \in [User -> SUBSET Batch] /\ outcome' \in [Message -> Outcome]
        BY <2>1, <1>2, Notifying DEF Outcome
    <2>8. QED
        BY <2>1, <2>3, <2>5, <2>6, <2>7, <1>2, PipelineInvFromParts
<1>24. CASE HandleWriteError
    <2>1. /\ pipeline # <<>>
          /\ NotifyUser(Head(pipeline).id, "error")
          /\ queue' = [queue EXCEPT ![currentUser] =
                          RemoveMutationBatch(@, Head(pipeline).id)]
          /\ FillWritePipeline(queue'[currentUser], Tail(pipeline), "Initial", FALSE,
                               <<>>, FALSE)
          /\ handshakeComplete' = FALSE
          /\ answered' = 0
          /\ UNCHANGED <<currentUser, nextBatchId, committed, submitted>>
        BY <1>24 DEF HandleWriteError
    <2>2. /\ queue' \in [User -> Seq(Batch)]
          /\ queue'[currentUser] \in Seq(Batch)
          /\ IsOrdered(queue'[currentUser])
          /\ IsFrontOf(Tail(pipeline), queue'[currentUser])
          /\ Tail(pipeline) \in Seq(Batch)
          /\ Len(Tail(pipeline)) <= MaxPending
          /\ RowsByIncreasingId'
        BY <2>1, <1>22
    <2>3. CanFill(queue'[currentUser], Tail(pipeline), "Initial", FALSE, FALSE, <<>>)
        BY <2>2 DEF CanFill, StreamState, IsStarted
    <2>4. Filled(queue'[currentUser], pipeline', stream', FALSE, idle', wire')
        BY <2>1, <2>2, <2>3, Filling
    <2>5. answered' \in 0..Len(wire')
        BY <2>1, <2>4 DEF Filled, CanFill
    <2>6. callbacks' \in [User -> SUBSET Batch] /\ outcome' \in [Message -> Outcome]
        BY <2>1, <1>2, Notifying DEF Outcome
    <2>7. QED
        BY <2>1, <2>2, <2>4, <2>5, <2>6, <1>2, PipelineInvFromParts
<1>25. ASSUME NEW u \in User, KillAndRelaunch(u)
       PROVE  PipelineInv'
    BY <1>2, <1>12, <1>25 DEF KillAndRelaunch
<1>26. ASSUME NEW u \in User, KillWhileAcknowledging(u)
       PROVE  PipelineInv'
    BY <1>12, <1>13, <1>26 DEF KillWhileAcknowledging
<1>27. CASE UNCHANGED vars
    <2>1. /\ UNCHANGED <<queue, memory, committed, submitted, outcome>>
          /\ UNCHANGED <<pipeline, stream, handshakeComplete, idle, wire, answered>>
        BY <1>27 DEF vars, network
    <2>2. QED
        BY <2>1, <1>2, <1>4, <1>14, <1>15
<1>28. QED
    BY <1>6, <1>10, <1>11, <1>16, <1>17, <1>18, <1>19, <1>20, <1>21, <1>23, <1>24, <1>25,
       <1>26, <1>27 DEF Next

\* The batches, the pipeline and the stream are always as PipelineInv says.
THEOREM PipelineInvariant == Spec => []PipelineInv
<1>1. Init => PipelineInv
    BY PipelineInit
<1>2. PipelineInv /\ [Next]_vars => PipelineInv'
    BY PipelineStep
<1>3. QED
    BY <1>1, <1>2, PTL DEF Spec

(***************************************************************************)
(* What a step does to the rows, seen as sets.                             *)
(***************************************************************************)

LEMMA RowsAreBatches ==
    ASSUME PipelineInv, NEW u \in User
    PROVE  /\ Rows(u) \subseteq Batch
           /\ \A r \in Rows(u) : r.id \in Nat /\ r.doc \in Message /\ r.id < nextBatchId
           /\ \A r, s \in Rows(u) : r.id = s.id => r = s
           /\ \A i \in 1..Len(queue[u]) : queue[u][i] \in Rows(u)
<1>1. queue[u] \in Seq(Batch) /\ IsOrdered(queue[u])
    BY DEF PipelineInv, TypeOK, RowsByIncreasingId
<1>2. \A i \in 1..Len(queue[u]) : queue[u][i].id < nextBatchId
    BY DEF PipelineInv, RowsByIncreasingId
<1>3. \A i \in 1..Len(queue[u]) :
         queue[u][i] \in Batch /\ queue[u][i].id \in Nat /\ queue[u][i].doc \in Message
    BY <1>1, RowType
<1>4. DOMAIN queue[u] = 1..Len(queue[u]) /\ Len(queue[u]) \in Nat
    BY <1>1
<1>5. \A i, j \in 1..Len(queue[u]) : queue[u][i].id = queue[u][j].id => i = j
    BY <1>1, <1>3, <1>4 DEF IsOrdered
<1>6. QED
    BY <1>2, <1>3, <1>4, <1>5, Zenon DEF Rows

\* The head of the pipeline is a row of the current user.
LEMMA HeadIsRow ==
    ASSUME PipelineInv, pipeline # <<>>
    PROVE  /\ Head(pipeline) \in Rows(currentUser)
           /\ Head(pipeline) = queue[currentUser][1]
           /\ queue[currentUser] # <<>>
<1>1. /\ pipeline \in Seq(Batch)
      /\ queue[currentUser] \in Seq(Batch)
      /\ IsOrdered(queue[currentUser])
      /\ IsFrontOf(pipeline, queue[currentUser])
    BY PipelineInvFacts DEF Filled, CanFill
<1>2. Head(pipeline) = queue[currentUser][1] /\ queue[currentUser] # <<>>
    BY <1>1, FrontWithoutHead
<1>3. 1 \in DOMAIN queue[currentUser]
    BY <1>1, <1>2
<1>4. QED
    BY <1>2, <1>3 DEF Rows

\* A write adds one row, and at most one block.
LEMMA WriteFacts ==
    ASSUME PipelineInv, NEW m \in Message, WriteMutations(m)
    PROVE  /\ \A u \in User : Rows(u)' =
                 IF u = currentUser THEN Rows(u) \cup {[id |-> nextBatchId, doc |-> m]}
                 ELSE Rows(u)
           /\ \A u \in User : callbacks'[u] \subseteq
                 IF u = currentUser THEN callbacks[u] \cup {[id |-> nextBatchId, doc |-> m]}
                 ELSE callbacks[u]
           /\ \A i \in 1..answered : wire'[i] = wire[i]
<1> DEFINE rows == AddMutationBatch(queue[currentUser], nextBatchId, m)
           row == [id |-> nextBatchId, doc |-> m]
<1>1. /\ queue \in [User -> Seq(Batch)]
      /\ currentUser \in User
      /\ nextBatchId \in Nat
      /\ callbacks \in [User -> SUBSET Batch]
      /\ wire \in Seq(Batch)
      /\ answered \in 0..Len(wire)
    BY DEF PipelineInv, TypeOK
<1>2. /\ queue[currentUser] \in Seq(Batch)
      /\ IsOrdered(queue[currentUser])
      /\ \A i \in 1..Len(queue[currentUser]) : queue[currentUser][i].id < nextBatchId
    BY <1>1 DEF PipelineInv, RowsByIncreasingId
<1>3. /\ rows \in Seq(Batch)
      /\ Len(rows) = Len(queue[currentUser]) + 1
      /\ \A i \in 1..Len(queue[currentUser]) : rows[i] = queue[currentUser][i]
      /\ rows[Len(queue[currentUser]) + 1] = row
      /\ IsOrdered(rows)
    BY <1>1, <1>2, AddedIsLast, ZenonT(60)
<1>4. /\ queue' = [queue EXCEPT ![currentUser] = rows]
      /\ InsertCallback(nextBatchId, m)
      /\ FillWritePipeline(queue'[currentUser], pipeline, stream, handshakeComplete, wire, idle)
    BY DEF WriteMutations
<1> HIDE DEF rows, row
<1>5. /\ queue'[currentUser] = rows
      /\ \A u \in User : u # currentUser => queue'[u] = queue[u]
    BY <1>1, <1>4
<1>6. {rows[i] : i \in DOMAIN rows}
         = {queue[currentUser][i] : i \in DOMAIN queue[currentUser]} \cup {row}
    <2>1. /\ DOMAIN rows = 1..(Len(queue[currentUser]) + 1)
          /\ DOMAIN queue[currentUser] = 1..Len(queue[currentUser])
          /\ Len(queue[currentUser]) \in Nat
        BY <1>2, <1>3
    <2>2. QED
        BY <2>1, <1>3
<1>7. \A u \in User : Rows(u)' = IF u = currentUser THEN Rows(u) \cup {row} ELSE Rows(u)
    BY <1>5, <1>6 DEF Rows
<1>8. \A u \in User : callbacks'[u] \subseteq
         IF u = currentUser THEN callbacks[u] \cup {row} ELSE callbacks[u]
    BY <1>1, <1>4 DEF InsertCallback, row
<1>9. \A i \in 1..answered : wire'[i] = wire[i]
    <2>1. CanFill(rows, pipeline, stream, handshakeComplete, idle, wire)
        <3>1. CanFill(queue[currentUser], pipeline, stream, handshakeComplete, idle, wire)
            BY PipelineInvFacts DEF Filled
        <3>2. pipeline \in Seq(Batch) /\ IsFrontOf(pipeline, queue[currentUser])
            BY <3>1 DEF CanFill
        <3>3. Len(queue[currentUser]) <= Len(rows)
            BY <1>2, <1>3
        <3>4. IsFrontOf(pipeline, rows)
            BY <3>2, <3>3, <1>2, <1>3, FrontOfLonger
        <3>5. QED
            BY <3>1, <3>4 DEF CanFill
    <2>2. \A i \in 1..Len(wire) : wire'[i] = wire[i]
        BY <2>1, <1>3, <1>4, <1>5, Filling
    <2>3. QED
        BY <2>2, <1>1, SMTT(30)
<1>10. QED
    BY <1>7, <1>8, <1>9 DEF row

\* The end of a write deletes its row and nothing else.
LEMMA EndFacts ==
    ASSUME PipelineInv, pipeline # <<>>,
           queue' = [queue EXCEPT ![currentUser] = RemoveMutationBatch(@, Head(pipeline).id)]
    PROVE  \A u \in User : Rows(u)' =
              IF u = currentUser THEN Rows(u) \ {Head(pipeline)} ELSE Rows(u)
<1> DEFINE old == queue[currentUser]
           rest == RemoveMutationBatch(queue[currentUser], Head(pipeline).id)
<1>1. queue \in [User -> Seq(Batch)] /\ currentUser \in User
    BY DEF PipelineInv, TypeOK
<1>2. /\ pipeline \in Seq(Batch)
      /\ old \in Seq(Batch)
      /\ IsOrdered(old)
      /\ IsFrontOf(pipeline, old)
    BY PipelineInvFacts DEF Filled, CanFill
<1>3. /\ Head(pipeline) = old[1] /\ old # <<>>
      /\ rest \in Seq(Batch)
      /\ Len(rest) = Len(old) - 1
      /\ \A i \in 1..(Len(old) - 1) : rest[i] = old[i + 1]
    BY <1>2, FrontWithoutHead
<1>4. queue'[currentUser] = rest /\ \A u \in User : u # currentUser => queue'[u] = queue[u]
    BY <1>1
<1>5. Rows(currentUser) = {old[i] : i \in DOMAIN old}
    BY DEF Rows
<1>6. /\ \A u \in User : u = currentUser => Rows(u)' = {rest[i] : i \in DOMAIN rest}
      /\ \A u \in User : u # currentUser => Rows(u)' = Rows(u)
    BY <1>4 DEF Rows
<1>7. {rest[i] : i \in DOMAIN rest} = {old[i] : i \in DOMAIN old} \ {old[1]}
    <2> HIDE DEF old, rest
    <2>1. DOMAIN rest = 1..Len(rest) /\ DOMAIN old = 1..Len(old) /\ Len(old) \in Nat \ {0}
        BY <1>2, <1>3, EmptySeq
    <2>2. \A i \in 1..Len(old) : old[i].id \in Nat
        BY <1>2, RowType
    <2>3. \A i \in 2..Len(old) : old[i] # old[1]
        <3>1. \A i \in 2..Len(old) : old[1].id < old[i].id
            BY <2>1, <1>2 DEF IsOrdered
        <3>2. QED
            BY <3>1, <2>1, <2>2
    <2>4. \A i \in DOMAIN rest : rest[i] = old[i + 1] /\ i + 1 \in 2..Len(old)
        BY <2>1, <1>3
    <2>5. \A i \in 2..Len(old) : i - 1 \in DOMAIN rest /\ rest[i - 1] = old[i]
        BY <2>1, <1>3
    <2>6. \A i \in DOMAIN old : i = 1 \/ i \in 2..Len(old)
        BY <2>1
    <2>7. \A i \in 2..Len(old) : i \in DOMAIN old
        BY <2>1
    <2>8. ASSUME NEW r \in {rest[i] : i \in DOMAIN rest}
          PROVE  r \in {old[i] : i \in DOMAIN old} \ {old[1]}
        BY <2>3, <2>4, <2>7
    <2>9. ASSUME NEW r \in {old[i] : i \in DOMAIN old} \ {old[1]}
          PROVE  r \in {rest[i] : i \in DOMAIN rest}
        <3>1. PICK i \in 2..Len(old) : r = old[i]
            BY <2>6
        <3>2. i - 1 \in DOMAIN rest /\ r = rest[i - 1]
            BY <3>1, <2>5
        <3>3. QED
            BY <3>2
    <2>10. QED
        BY <2>8, <2>9
<1> HIDE DEF old, rest
<1>8. QED
    BY <1>3, <1>5, <1>6, <1>7

(***************************************************************************)
(* The three kinds of steps: a write, the end of one, and the rest.        *)
(***************************************************************************)

\* A write ends: its block is called and its row deleted.
Ends(result) ==
    /\ pipeline # <<>>
    /\ result = "ok" => answered > 0
    /\ NotifyUser(Head(pipeline).id, result)
    /\ queue' = [queue EXCEPT ![currentUser] = RemoveMutationBatch(@, Head(pipeline).id)]
    /\ UNCHANGED <<currentUser, committed, submitted>>

\* No row comes or goes: the blocks stay, or all of them die with the process.
KeepsRows ==
    /\ UNCHANGED <<queue, submitted>>
    /\ \/ UNCHANGED <<callbacks, outcome>>
       \/ /\ callbacks' = [u \in User |-> {}]
          /\ UNCHANGED committed
          /\ \/ outcome' = outcome
             \/ answered > 0 /\ NotifyUserAndDie(Head(pipeline).id, "ok")

LEMMA AnsweredHead ==
    ASSUME PipelineInv, answered > 0
    PROVE  wire = pipeline /\ pipeline # <<>> /\ Head(pipeline) = wire[1]
<1>1. wire \in Seq(Batch) /\ answered \in 0..Len(wire) /\ pipeline \in Seq(Batch)
    BY DEF PipelineInv, TypeOK
<1>2. wire # <<>>
    BY <1>1
<1>3. wire = pipeline
    BY <1>2 DEF PipelineInv, WireMatchesPipeline
<1>4. QED
    BY <1>1, <1>2, <1>3

LEMMA StepKinds ==
    ASSUME PipelineInv, [Next]_vars
    PROVE  \/ \E m \in Message : WriteMutations(m)
           \/ \E result \in {"ok", "error"} : Ends(result)
           \/ KeepsRows
<1>1. CASE \E m \in Message : WriteMutations(m)
    BY <1>1
<1>2. CASE OnWriteStreamMutationResult
    <2>1. Ends("ok")
        BY <1>2, AnsweredHead DEF OnWriteStreamMutationResult, Ends
    <2>2. QED
        BY <2>1
<1>3. CASE HandleWriteError
    <2>1. Ends("error")
        BY <1>3 DEF HandleWriteError, Ends
    <2>2. QED
        BY <2>1
<1>4. CASE \/ \E u \in User : HandleCredentialChange(u)
           \/ ConnectivityChanged
           \/ ResumeStartWithCredentials
           \/ OnWriteStreamHandshakeComplete
           \/ BackendCommits
           \/ OnWriteStreamClose
           \/ IdleTimeout
           \/ BackoffElapsed
           \/ UNCHANGED vars
    <2>1. UNCHANGED <<queue, callbacks, submitted, outcome>>
        BY <1>4 DEF HandleCredentialChange, ConnectivityChanged, ResumeStartWithCredentials,
            OnWriteStreamHandshakeComplete, BackendCommits, OnWriteStreamClose, IdleTimeout,
            BackoffElapsed, vars, memory
    <2>2. QED
        BY <2>1 DEF KeepsRows
<1>5. CASE \E u \in User : KillAndRelaunch(u) \/ KillWhileAcknowledging(u)
    BY <1>5 DEF KillAndRelaunch, KillWhileAcknowledging, Initialize, KeepsRows
<1>6. QED
    BY <1>1, <1>2, <1>3, <1>4, <1>5 DEF Next

\* The blocks and results after the end of a write.
LEMMA EndNotifies ==
    ASSUME PipelineInv, NEW result \in {"ok", "error"}, Ends(result)
    PROVE  /\ \A u \in User : \A c \in Batch :
                 c \in callbacks'[u] <=>
                    c \in callbacks[u] /\ (u = currentUser => c.id # Head(pipeline).id)
           /\ callbacks' \in [User -> SUBSET Batch]
           /\ \A m \in Message :
                 \/ outcome'[m] = outcome[m]
                 \/ /\ outcome'[m] = result
                    /\ \E c \in callbacks[currentUser] : c.id = Head(pipeline).id /\ c.doc = m
           /\ \A u \in User : Rows(u)' =
                 IF u = currentUser THEN Rows(u) \ {Head(pipeline)} ELSE Rows(u)
<1>1. /\ callbacks \in [User -> SUBSET Batch]
      /\ outcome \in [Message -> Outcome]
      /\ currentUser \in User
    BY DEF PipelineInv, TypeOK
<1>2. NotifyUser(Head(pipeline).id, result) /\ pipeline # <<>>
    BY DEF Ends
<1>3. result \in Outcome
    BY DEF Outcome
<1> DEFINE id == Head(pipeline).id
<1> HIDE DEF id
<1>4. /\ \A u \in User : \A c \in Batch :
            c \in callbacks'[u] <=> c \in callbacks[u] /\ (u = currentUser => c.id # id)
      /\ \A m \in Message :
            \/ outcome'[m] = outcome[m]
            \/ /\ outcome'[m] = result
               /\ \E c \in callbacks[currentUser] : c.id = id /\ c.doc = m
      /\ callbacks' \in [User -> SUBSET Batch]
    <2>1. NotifyUser(id, result)
        BY <1>2 DEF id
    <2>2. QED
        BY <2>1, <1>1, <1>3, Notifying
<1>5. \A u \in User : Rows(u)' =
         IF u = currentUser THEN Rows(u) \ {Head(pipeline)} ELSE Rows(u)
    BY <1>2, EndFacts DEF Ends
<1>6. QED
    BY <1>4, <1>5 DEF id

(***************************************************************************)
(* A block waits for its own write.                                        *)
(***************************************************************************)

LEMMA CallbackStep ==
    ASSUME PipelineInv, CallbackForItsWrite, [Next]_vars
    PROVE  CallbackForItsWrite'
<1>1. callbacks \in [User -> SUBSET Batch] /\ currentUser \in User
    BY DEF PipelineInv, TypeOK
<1>2. \A u \in User :
         /\ callbacks[u] \subseteq Rows(u)
         /\ \A c \in callbacks[u], row \in Rows(u) : row.id = c.id => row = c
    BY DEF CallbackForItsWrite
<1>3. \A u \in User : \A r, s \in Rows(u) : r.id = s.id => r = s
    BY RowsAreBatches
<1>4. ASSUME NEW m \in Message, WriteMutations(m)
      PROVE  CallbackForItsWrite'
    <2> DEFINE row == [id |-> nextBatchId, doc |-> m]
    <2>1. \A u \in User : Rows(u)' = IF u = currentUser THEN Rows(u) \cup {row} ELSE Rows(u)
        BY <1>4, WriteFacts
    <2>2. \A u \in User : callbacks'[u] \subseteq
             IF u = currentUser THEN callbacks[u] \cup {row} ELSE callbacks[u]
        BY <1>4, WriteFacts
    <2>3. \A u \in User : \A r \in Rows(u) : r.id # row.id
        <3>1. \A u \in User : \A r \in Rows(u) : r.id \in Nat /\ r.id < nextBatchId
            BY RowsAreBatches
        <3>2. QED
            BY <3>1
    <2> HIDE DEF row
    <2>4. ASSUME NEW u \in User
          PROVE  /\ callbacks'[u] \subseteq Rows(u)'
                 /\ \A r, s \in Rows(u)' : r.id = s.id => r = s
        BY <2>1, <2>2, <2>3, <1>2, <1>3
    <2>5. QED
        BY <2>4, Zenon DEF CallbackForItsWrite
<1>5. ASSUME NEW result \in {"ok", "error"}, Ends(result)
      PROVE  CallbackForItsWrite'
    <2>1. /\ \A u \in User : \A c \in Batch :
                c \in callbacks'[u] <=>
                   c \in callbacks[u] /\ (u = currentUser => c.id # Head(pipeline).id)
          /\ callbacks' \in [User -> SUBSET Batch]
        BY <1>5, EndNotifies
    <2>2. \A u \in User : Rows(u)' =
             IF u = currentUser THEN Rows(u) \ {Head(pipeline)} ELSE Rows(u)
        BY <1>5, EndNotifies
    <2>3. ASSUME NEW u \in User
          PROVE  /\ callbacks'[u] \subseteq Rows(u)'
                 /\ \A c \in callbacks'[u], row \in Rows(u)' : row.id = c.id => row = c
        <3>1. callbacks'[u] \subseteq callbacks[u] /\ Rows(u)' \subseteq Rows(u)
            BY <2>1, <2>2
        <3>2. u = currentUser => Head(pipeline) \notin callbacks'[u]
            BY <2>1
        <3>3. callbacks'[u] \subseteq Rows(u)'
            BY <3>1, <3>2, <2>2, <1>2
        <3>4. QED
            BY <3>1, <3>3, <1>2
    <2>4. QED
        BY <2>3, Zenon DEF CallbackForItsWrite
<1>6. CASE KeepsRows
    <2>1. \A u \in User : Rows(u)' = Rows(u)
        BY <1>6 DEF KeepsRows, Rows
    <2>2. \A u \in User : callbacks'[u] \subseteq callbacks[u]
        BY <1>6 DEF KeepsRows
    <2>3. ASSUME NEW u \in User
          PROVE  /\ callbacks'[u] \subseteq Rows(u)'
                 /\ \A c \in callbacks'[u], row \in Rows(u)' : row.id = c.id => row = c
        BY <2>1, <2>2, <1>2
    <2>4. QED
        BY <2>3, Zenon DEF CallbackForItsWrite
<1>7. QED
    BY <1>4, <1>5, <1>6, StepKinds

(***************************************************************************)
(* "Message saved." is the truth.                                          *)
(***************************************************************************)

LEMMA AppendedIsCommitted ==
    ASSUME committed \in Seq(Message), NEW m \in Message,
           committed' = IF Committed(m) THEN committed ELSE Append(committed, m)
    PROVE  /\ \A n \in Message : Committed(n) => Contains(committed', n)
           /\ Contains(committed', m)
<1>1. CASE Committed(m)
    BY <1>1 DEF Committed
<1>2. CASE ~Committed(m)
    <2>1. committed' = Append(committed, m)
        BY <1>2
    <2>2. /\ Len(committed) \in Nat
          /\ Len(committed') = Len(committed) + 1
          /\ \A i \in 1..Len(committed) : committed'[i] = committed[i]
          /\ committed'[Len(committed) + 1] = m
        BY <2>1
    <2>3. QED
        BY <2>2 DEF Committed, Contains
<1>3. QED
    BY <1>1, <1>2

\* The backend forgets no message.
LEMMA CommittedStays ==
    ASSUME PipelineInv, [Next]_vars
    PROVE  \A m \in Message : Committed(m) => Contains(committed', m)
<1>1. committed \in Seq(Message) /\ wire \in Seq(Batch) /\ answered \in 0..Len(wire)
    BY DEF PipelineInv, TypeOK
<1>2. CASE BackendCommits
    <2>1. answered + 1 \in 1..Len(wire)
        BY <1>1, <1>2 DEF BackendCommits
    <2>2. wire[answered + 1].doc \in Message
        BY <2>1, <1>1, RowType
    <2>3. QED
        BY <2>2, <1>1, <1>2, AppendedIsCommitted DEF BackendCommits
<1>3. CASE ~BackendCommits
    <2>1. committed' = committed
        BY <1>3 DEF Next, WriteMutations, HandleCredentialChange, ConnectivityChanged,
            ResumeStartWithCredentials, OnWriteStreamHandshakeComplete,
            OnWriteStreamMutationResult, HandleWriteError, OnWriteStreamClose, IdleTimeout,
            BackoffElapsed, KillAndRelaunch, KillWhileAcknowledging, Initialize, vars
    <2>2. QED
        BY <2>1 DEF Committed
<1>4. QED
    BY <1>2, <1>3

LEMMA AnsweredStep ==
    ASSUME PipelineInv, AnsweredIsCommitted, [Next]_vars
    PROVE  AnsweredIsCommitted'
<1>1. /\ wire \in Seq(Batch)
      /\ answered \in 0..Len(wire)
      /\ committed \in Seq(Message)
      /\ queue \in [User -> Seq(Batch)]
      /\ currentUser \in User
    BY DEF PipelineInv, TypeOK
<1>2. \A i \in 1..answered : wire[i].doc \in Message /\ Committed(wire[i].doc)
    BY <1>1, RowType DEF AnsweredIsCommitted, Committed
<1>3. \A m \in Message : Committed(m) => Contains(committed', m)
    BY CommittedStays
<1>4. ASSUME answered' = 0
      PROVE  AnsweredIsCommitted'
    BY <1>4 DEF AnsweredIsCommitted, Committed
<1>5. ASSUME answered' = answered, \A i \in 1..answered : wire'[i] = wire[i]
      PROVE  AnsweredIsCommitted'
    BY <1>2, <1>3, <1>5 DEF AnsweredIsCommitted, Committed
<1>6. CASE \E m \in Message : WriteMutations(m)
    <2>1. answered' = answered /\ \A i \in 1..answered : wire'[i] = wire[i]
        BY <1>6, WriteFacts DEF WriteMutations
    <2>2. QED
        BY <2>1, <1>5
<1>7. CASE \/ \E u \in User : HandleCredentialChange(u) \/ KillAndRelaunch(u)
                              \/ KillWhileAcknowledging(u)
           \/ ConnectivityChanged
           \/ HandleWriteError
           \/ OnWriteStreamClose
           \/ IdleTimeout
    <2>1. answered' = 0
        BY <1>7 DEF HandleCredentialChange, KillAndRelaunch, KillWhileAcknowledging, Initialize,
            ConnectivityChanged, HandleWriteError, OnWriteStreamClose, IdleTimeout,
            RestartNetwork
    <2>2. QED
        BY <2>1, <1>4
<1>8. CASE ResumeStartWithCredentials \/ BackoffElapsed \/ UNCHANGED vars
    <2>1. answered' = answered /\ wire' = wire
        BY <1>8 DEF ResumeStartWithCredentials, BackoffElapsed, vars, network
    <2>2. QED
        BY <2>1, <1>5
<1>9. CASE OnWriteStreamHandshakeComplete
    <2>1. ~handshakeComplete /\ answered' = answered
        BY <1>9 DEF OnWriteStreamHandshakeComplete
    <2>2. wire = <<>>
        BY <2>1 DEF PipelineInv, WireMatchesPipeline
    <2>3. answered = 0
        BY <2>2, <1>1
    <2>4. QED
        BY <2>1, <2>3, <1>4
<1>10. CASE BackendCommits
    <2>1. /\ answered + 1 \in 1..Len(wire)
          /\ answered' = answered + 1
          /\ wire' = wire
          /\ committed' = IF Committed(wire[answered + 1].doc) THEN committed
                          ELSE Append(committed, wire[answered + 1].doc)
        BY <1>1, <1>10 DEF BackendCommits
    <2>2. wire[answered + 1].doc \in Message
        BY <2>1, <1>1, RowType
    <2>3. Contains(committed', wire[answered + 1].doc)
        BY <2>1, <2>2, <1>1, AppendedIsCommitted
    <2>4. ASSUME NEW i \in 1..(answered + 1)
          PROVE  Contains(committed', wire'[i].doc)
        <3>1. CASE i = answered + 1
            BY <3>1, <2>1, <2>3
        <3>2. CASE i # answered + 1
            <4>1. i \in 1..answered
                BY <3>2, <1>1
            <4>2. QED
                BY <4>1, <2>1, <1>2, <1>3
        <3>3. QED
            BY <3>1, <3>2
    <2>5. QED
        BY <2>1, <2>4 DEF AnsweredIsCommitted, Committed
<1>11. CASE OnWriteStreamMutationResult
    <2>1. /\ answered > 0
          /\ answered' = answered - 1
          /\ queue' = [queue EXCEPT ![currentUser] =
                          RemoveMutationBatch(@, Head(pipeline).id)]
          /\ FillWritePipeline(queue'[currentUser], Tail(pipeline), stream,
                               handshakeComplete, Tail(wire), idle)
        BY <1>11 DEF OnWriteStreamMutationResult
    <2>2. wire = pipeline /\ pipeline # <<>>
        BY <2>1, AnsweredHead
    <2>3. /\ queue[currentUser] \in Seq(Batch)
          /\ IsOrdered(queue[currentUser])
          /\ CanFill(queue[currentUser], pipeline, stream, handshakeComplete, idle, wire)
        BY PipelineInvFacts DEF Filled
    <2>4. queue'[currentUser] = RemoveMutationBatch(queue[currentUser], Head(pipeline).id)
        BY <2>1, <1>1
    <2>5. /\ pipeline \in Seq(Batch)
          /\ IsFrontOf(pipeline, queue[currentUser])
          /\ Len(pipeline) <= MaxPending
        BY <2>3 DEF CanFill
    <2>6. /\ queue'[currentUser] \in Seq(Batch)
          /\ IsOrdered(queue'[currentUser])
          /\ IsFrontOf(Tail(pipeline), queue'[currentUser])
          /\ Tail(pipeline) \in Seq(Batch)
          /\ Len(Tail(pipeline)) = Len(pipeline) - 1
        BY <2>2, <2>3, <2>4, <2>5, FrontWithoutHead
    <2>7. CanFill(queue'[currentUser], Tail(pipeline), stream, handshakeComplete, idle,
                  Tail(wire))
        <3>1. wire # <<>>
            BY <2>2
        <3>2. stream = "Open" /\ handshakeComplete
            BY <3>1, <2>3 DEF CanFill
        <3>3. Len(Tail(pipeline)) <= MaxPending
            BY <2>5, <2>6, MaxPendingAssumption
        <3>4. QED
            BY <3>2, <3>3, <2>2, <2>3, <2>6 DEF CanFill
    <2>8. \A i \in 1..Len(Tail(wire)) : wire'[i] = Tail(wire)[i]
        <3> DEFINE rows == queue'[currentUser]
                   p == Tail(pipeline)
                   w == Tail(wire)
        <3>1. rows \in Seq(Batch) /\ IsOrdered(rows)
            BY <2>6
        <3>2. /\ FillWritePipeline(rows, p, stream, handshakeComplete, w, idle)
              /\ CanFill(rows, p, stream, handshakeComplete, idle, w)
            BY <2>1, <2>7
        <3> HIDE DEF rows, p, w
        <3>3. \A i \in 1..Len(w) : wire'[i] = w[i]
            BY <3>1, <3>2, Filling
        <3>4. QED
            BY <3>3 DEF w
    <2>9. \A i \in 1..(answered - 1) : wire'[i] = wire[i + 1] /\ i + 1 \in 1..answered
        <3>1. /\ Len(Tail(wire)) = Len(wire) - 1
              /\ \A i \in 1..(Len(wire) - 1) : Tail(wire)[i] = wire[i + 1]
            BY <2>2, <1>1, HeadTailProperties
        <3>2. QED
            BY <3>1, <2>8, <1>1
    <2>10. QED
        BY <2>1, <2>9, <1>2, <1>3 DEF AnsweredIsCommitted, Committed
<1>12. QED
    BY <1>6, <1>7, <1>8, <1>9, <1>10, <1>11 DEF Next

LEMMA OkStep ==
    ASSUME PipelineInv, CallbackForItsWrite, AnsweredIsCommitted, OkMeansCommitted, [Next]_vars
    PROVE  OkMeansCommitted'
<1>1. /\ outcome \in [Message -> Outcome]
      /\ currentUser \in User
      /\ wire \in Seq(Batch)
      /\ answered \in 0..Len(wire)
    BY DEF PipelineInv, TypeOK
<1>2. \A m \in Message : Committed(m) => Contains(committed', m)
    BY CommittedStays
\* The block under the head's id is the head's, and the head is stored.
<1>3. ASSUME answered > 0, NEW c \in callbacks[currentUser], c.id = Head(pipeline).id
      PROVE  Committed(c.doc)
    <2>1. wire = pipeline /\ pipeline # <<>> /\ Head(pipeline) = wire[1]
        BY <1>3, AnsweredHead
    <2>2. Head(pipeline) \in Rows(currentUser)
        BY <2>1, HeadIsRow
    <2>3. c = Head(pipeline)
        BY <2>2, <1>1, <1>3 DEF CallbackForItsWrite
    <2>4. 1 \in 1..answered
        BY <1>1, <1>3
    <2>5. QED
        BY <2>1, <2>3, <2>4 DEF AnsweredIsCommitted, Committed
<1>4. CASE \E m \in Message : WriteMutations(m)
    <2>1. outcome' = outcome
        BY <1>4 DEF WriteMutations
    <2>2. QED
        BY <2>1, <1>2 DEF OkMeansCommitted, Committed
<1>5. ASSUME NEW result \in {"ok", "error"}, Ends(result)
      PROVE  OkMeansCommitted'
    <2>1. ASSUME NEW m \in Message, outcome'[m] = "ok"
          PROVE  Contains(committed', m)
        <3>1. CASE outcome'[m] = outcome[m]
            BY <3>1, <2>1, <1>2 DEF OkMeansCommitted, Committed
        <3>2. CASE /\ outcome'[m] = result
                   /\ \E c \in callbacks[currentUser] : c.id = Head(pipeline).id /\ c.doc = m
            <4>1. answered > 0
                BY <3>2, <2>1, <1>5 DEF Ends
            <4>2. QED
                BY <4>1, <3>2, <1>2, <1>3
        <3>3. QED
            BY <3>1, <3>2, <1>5, EndNotifies
    <2>2. QED
        BY <2>1 DEF OkMeansCommitted, Committed
<1>6. CASE KeepsRows
    <2>1. CASE outcome' = outcome
        BY <2>1, <1>2 DEF OkMeansCommitted, Committed
    <2>2. CASE answered > 0 /\ NotifyUserAndDie(Head(pipeline).id, "ok")
        <3>1. ASSUME NEW m \in Message, outcome'[m] = "ok"
              PROVE  Contains(committed', m)
            <4>1. CASE \E c \in callbacks[currentUser] : c.id = Head(pipeline).id /\ c.doc = m
                BY <4>1, <2>2, <1>2, <1>3
            <4>2. CASE ~\E c \in callbacks[currentUser] : c.id = Head(pipeline).id /\ c.doc = m
                <5>1. outcome'[m] = outcome[m]
                    BY <4>2, <2>2 DEF NotifyUserAndDie
                <5>2. QED
                    BY <5>1, <3>1, <1>2 DEF OkMeansCommitted, Committed
            <4>3. QED
                BY <4>1, <4>2
        <3>2. QED
            BY <3>1 DEF OkMeansCommitted, Committed
    <2>3. QED
        BY <2>1, <2>2, <1>6 DEF KeepsRows
<1>7. QED
    BY <1>4, <1>5, <1>6, StepKinds

(***************************************************************************)
(* A message has one row, and its block is called at most once.            *)
(***************************************************************************)

LEMMA RowsSubmittedStep ==
    ASSUME PipelineInv, RowsAreSubmitted, [Next]_vars
    PROVE  RowsAreSubmitted'
<1>1. submitted \in [User -> Seq(Message)] /\ currentUser \in User
    BY DEF PipelineInv, TypeOK
<1>2. /\ \A u \in User : \A r \in Rows(u) : Contains(submitted[u], r.doc)
      /\ \A u, v \in User : \A r \in Rows(u), s \in Rows(v) :
            r.doc = s.doc => u = v /\ r = s
    BY DEF RowsAreSubmitted, SubmittedBy
<1>3. ASSUME NEW m \in Message, WriteMutations(m)
      PROVE  RowsAreSubmitted'
    <2> DEFINE row == [id |-> nextBatchId, doc |-> m]
    <2>1. \A u \in User : Rows(u)' = IF u = currentUser THEN Rows(u) \cup {row} ELSE Rows(u)
        BY <1>3, WriteFacts
    <2>2. row.doc = m
        OBVIOUS
    <2>3. \A u \in User : ~Contains(submitted[u], m)
        BY <1>3 DEF WriteMutations, SubmittedBy
    <2>4. submitted' = [submitted EXCEPT ![currentUser] = Append(@, m)]
        BY <1>3 DEF WriteMutations
    <2> HIDE DEF row
    <2>5. /\ Contains(submitted'[currentUser], m)
          /\ \A u \in User : \A n \in Message :
                Contains(submitted[u], n) => Contains(submitted'[u], n)
        <3>1. /\ submitted'[currentUser] = Append(submitted[currentUser], m)
              /\ \A u \in User : u # currentUser => submitted'[u] = submitted[u]
            BY <2>4, <1>1
        <3>2. submitted[currentUser] \in Seq(Message)
            BY <1>1
        <3>3. /\ Len(submitted[currentUser]) \in Nat
              /\ Len(submitted'[currentUser]) = Len(submitted[currentUser]) + 1
              /\ \A i \in 1..Len(submitted[currentUser]) :
                    submitted'[currentUser][i] = submitted[currentUser][i]
              /\ submitted'[currentUser][Len(submitted[currentUser]) + 1] = m
            BY <3>1, <3>2
        <3>4. QED
            BY <3>1, <3>3 DEF Contains
    <2>6. \A u \in User : \A r \in Rows(u) : r.doc \in Message
        BY RowsAreBatches
    <2>7. \A u \in User : \A r \in Rows(u)' : Contains(submitted'[u], r.doc)
        BY <2>1, <2>2, <2>5, <2>6, <1>2
    <2>8. ASSUME NEW u \in User, NEW v \in User, NEW r \in Rows(u)', NEW s \in Rows(v)',
                 r.doc = s.doc
          PROVE  u = v /\ r = s
        <3>1. CASE r \in Rows(u) /\ s \in Rows(v)
            BY <3>1, <2>8, <1>2
        <3>2. CASE r \in Rows(u) /\ s = row
            BY <3>2, <2>2, <2>3, <2>8, <1>2
        <3>3. CASE r = row /\ s \in Rows(v)
            BY <3>3, <2>2, <2>3, <2>8, <1>2
        <3>4. CASE r = row /\ r \notin Rows(u) /\ s = row /\ s \notin Rows(v)
            BY <3>4, <2>1
        <3>5. QED
            BY <3>1, <3>2, <3>3, <3>4, <2>1
    <2>9. QED
        BY <2>7, <2>8, Zenon DEF RowsAreSubmitted, SubmittedBy
<1>4. ASSUME submitted' = submitted, \A u \in User : Rows(u)' \subseteq Rows(u)
      PROVE  RowsAreSubmitted'
    <2>1. \A u \in User : \A r \in Rows(u)' : Contains(submitted'[u], r.doc)
        BY <1>2, <1>4
    <2>2. \A u, v \in User : \A r \in Rows(u)', s \in Rows(v)' :
             r.doc = s.doc => u = v /\ r = s
        BY <1>2, <1>4
    <2>3. QED
        BY <2>1, <2>2, Zenon DEF RowsAreSubmitted, SubmittedBy
<1>5. ASSUME NEW result \in {"ok", "error"}, Ends(result)
      PROVE  RowsAreSubmitted'
    <2>1. \A u \in User : Rows(u)' \subseteq Rows(u)
        BY <1>5, EndNotifies
    <2>2. QED
        BY <2>1, <1>4, <1>5 DEF Ends
<1>6. CASE KeepsRows
    <2>1. submitted' = submitted /\ \A u \in User : Rows(u)' = Rows(u)
        BY <1>6 DEF KeepsRows, Rows
    <2>2. QED
        BY <2>1, <1>4
<1>7. QED
    BY <1>3, <1>5, <1>6, StepKinds

\* Whoever is told something has a block, and had not been told before.
LEMMA NewlyTold ==
    ASSUME PipelineInv, RegisteredNotTold, [Next]_vars
    PROVE  \A m \in Message :
              \/ outcome'[m] = outcome[m]
              \/ /\ outcome[m] = "none"
                 /\ \E c \in callbacks[currentUser] : c.doc = m
<1>1. /\ outcome \in [Message -> Outcome]
      /\ currentUser \in User
    BY DEF PipelineInv, TypeOK
<1>2. \A c \in callbacks[currentUser] : outcome[c.doc] = "none"
    BY <1>1 DEF RegisteredNotTold
<1>3. CASE \E m \in Message : WriteMutations(m)
    BY <1>3 DEF WriteMutations
<1>4. ASSUME NEW result \in {"ok", "error"}, Ends(result)
      PROVE  \A m \in Message :
                \/ outcome'[m] = outcome[m]
                \/ \E c \in callbacks[currentUser] : c.doc = m
    BY <1>4, EndNotifies
<1>5. CASE KeepsRows
    BY <1>2, <1>5 DEF KeepsRows, NotifyUserAndDie
<1>6. QED
    BY <1>2, <1>3, <1>4, <1>5, StepKinds

LEMMA RegisteredStep ==
    ASSUME PipelineInv, CallbackForItsWrite, RowsAreSubmitted, RegisteredNotTold, [Next]_vars
    PROVE  RegisteredNotTold'
<1>1. /\ outcome \in [Message -> Outcome]
      /\ currentUser \in User
      /\ submitted \in [User -> Seq(Message)]
      /\ callbacks \in [User -> SUBSET Batch]
    BY DEF PipelineInv, TypeOK
<1>2. /\ \A u \in User : \A c \in callbacks[u] : outcome[c.doc] = "none"
      /\ \A m \in Message : outcome[m] # "none" => \E u \in User : Contains(submitted[u], m)
    BY DEF RegisteredNotTold, SubmittedBy
<1>3. /\ \A u \in User : callbacks[u] \subseteq Rows(u)
      /\ \A u \in User : \A c \in callbacks[u], row \in Rows(u) : row.id = c.id => row = c
    BY DEF CallbackForItsWrite
<1>4. /\ \A u \in User : \A r \in Rows(u) : Contains(submitted[u], r.doc)
      /\ \A u, v \in User : \A r \in Rows(u), s \in Rows(v) :
            r.doc = s.doc => u = v /\ r = s
    BY DEF RowsAreSubmitted, SubmittedBy
<1>5. \A u \in User : \A m \in Message : Contains(submitted[u], m) => Contains(submitted'[u], m)
    <2>1. CASE submitted' = submitted
        BY <2>1
    <2>2. ASSUME NEW m \in Message, submitted' = [submitted EXCEPT ![currentUser] = Append(@, m)]
          PROVE  \A u \in User : \A n \in Message :
                    Contains(submitted[u], n) => Contains(submitted'[u], n)
        <3>1. /\ submitted'[currentUser] = Append(submitted[currentUser], m)
              /\ \A u \in User : u # currentUser => submitted'[u] = submitted[u]
            BY <2>2, <1>1
        <3>2. submitted[currentUser] \in Seq(Message)
            BY <1>1
        <3>3. /\ Len(submitted[currentUser]) \in Nat
              /\ Len(submitted'[currentUser]) = Len(submitted[currentUser]) + 1
              /\ \A i \in 1..Len(submitted[currentUser]) :
                    submitted'[currentUser][i] = submitted[currentUser][i]
            BY <3>1, <3>2
        <3>4. QED
            BY <3>1, <3>3 DEF Contains
    <2>3. QED
        BY <2>1, <2>2, StepKinds DEF WriteMutations, Ends, KeepsRows
<1>6. \A m \in Message : outcome'[m] # "none" => \E u \in User : Contains(submitted'[u], m)
    <2>1. \A m \in Message : outcome'[m] # "none" => \E u \in User : Contains(submitted[u], m)
        BY NewlyTold, <1>1, <1>2, <1>3, <1>4
    <2>2. QED
        BY <2>1, <1>5
<1>7. ASSUME NEW m \in Message, WriteMutations(m)
      PROVE  RegisteredNotTold'
    <2> DEFINE row == [id |-> nextBatchId, doc |-> m]
    <2>1. \A u \in User : callbacks'[u] \subseteq
             IF u = currentUser THEN callbacks[u] \cup {row} ELSE callbacks[u]
        BY <1>7, WriteFacts
    <2>2. outcome' = outcome /\ \A u \in User : ~Contains(submitted[u], m)
        BY <1>7 DEF WriteMutations, SubmittedBy
    <2>3. row.doc = m
        OBVIOUS
    <2> HIDE DEF row
    <2>4. outcome[row.doc] = "none"
        BY <2>2, <2>3, <1>2
    <2>5. \A u \in User : \A c \in callbacks'[u] : outcome'[c.doc] = "none"
        BY <2>1, <2>2, <2>4, <1>2
    <2>6. QED
        BY <2>5, <1>6, Zenon DEF RegisteredNotTold, SubmittedBy
<1>8. ASSUME NEW result \in {"ok", "error"}, Ends(result)
      PROVE  RegisteredNotTold'
    <2>1. /\ \A u \in User : \A c \in Batch :
                c \in callbacks'[u] <=>
                   c \in callbacks[u] /\ (u = currentUser => c.id # Head(pipeline).id)
          /\ \A m \in Message :
                \/ outcome'[m] = outcome[m]
                \/ /\ outcome'[m] = result
                   /\ \E c \in callbacks[currentUser] : c.id = Head(pipeline).id /\ c.doc = m
          /\ callbacks' \in [User -> SUBSET Batch]
        BY <1>8, EndNotifies
    <2>2. ASSUME NEW u \in User, NEW c \in callbacks'[u]
          PROVE  outcome'[c.doc] = "none"
        <3>1. c \in Batch /\ c \in callbacks[u] /\ (u = currentUser => c.id # Head(pipeline).id)
            BY <2>1
        <3>2. c.doc \in Message
            BY <3>1 DEF Batch
        <3>3. ASSUME NEW d \in callbacks[currentUser], d.id = Head(pipeline).id, d.doc = c.doc
              PROVE  FALSE
            <4>1. d \in Rows(currentUser) /\ c \in Rows(u)
                BY <3>1, <1>1, <1>3
            <4>2. u = currentUser /\ d = c
                BY <4>1, <3>3, <1>1, <1>4
            <4>3. QED
                BY <4>2, <3>1, <3>3
        <3>4. outcome'[c.doc] = outcome[c.doc]
            BY <3>2, <3>3, <2>1
        <3>5. QED
            BY <3>1, <3>4, <1>2
    <2>3. QED
        BY <2>2, <1>6, Zenon DEF RegisteredNotTold, SubmittedBy
<1>9. CASE KeepsRows
    <2>1. \A u \in User : \A c \in callbacks'[u] : outcome'[c.doc] = "none"
        BY <1>2, <1>9 DEF KeepsRows
    <2>2. QED
        BY <2>1, <1>6, Zenon DEF RegisteredNotTold, SubmittedBy
<1>10. QED
    BY <1>7, <1>8, <1>9, StepKinds

(***************************************************************************)
(* The theorems.                                                           *)
(***************************************************************************)

LEMMA InvariantInit == Init => IInv
<1> SUFFICES ASSUME Init PROVE IInv
    OBVIOUS
<1>1. PipelineInv
    BY PipelineInit
<1>2. /\ \A u \in User : Rows(u) = {}
      /\ \A u \in User : callbacks[u] = {}
      /\ \A m \in Message : outcome[m] = "none"
      /\ answered = 0
    BY DEF Init, Rows
<1>3. CallbackForItsWrite /\ RowsAreSubmitted /\ RegisteredNotTold
    BY <1>2 DEF CallbackForItsWrite, RowsAreSubmitted, RegisteredNotTold
<1>4. AnsweredIsCommitted /\ OkMeansCommitted
    BY <1>2 DEF AnsweredIsCommitted, OkMeansCommitted
<1>5. QED
    BY <1>1, <1>3, <1>4 DEF IInv, PipelineInv

LEMMA InvariantStep == IInv /\ [Next]_vars => IInv'
<1> SUFFICES ASSUME IInv, [Next]_vars PROVE IInv'
    OBVIOUS
<1>1. PipelineInv
    BY DEF IInv, PipelineInv
<1>2. PipelineInv'
    BY <1>1, PipelineStep
<1>3. CallbackForItsWrite' /\ AnsweredIsCommitted' /\ OkMeansCommitted'
    BY <1>1, CallbackStep, AnsweredStep, OkStep DEF IInv
<1>4. RowsAreSubmitted' /\ RegisteredNotTold'
    BY <1>1, RowsSubmittedStep, RegisteredStep DEF IInv
<1>5. QED
    BY <1>2, <1>3, <1>4 DEF IInv, PipelineInv

\* The inductive invariant holds in every reachable state.
THEOREM Invariant == Spec => []IInv
<1>1. QED
    BY InvariantInit, InvariantStep, PTL DEF Spec

\* Type correctness of the write path (the bound of the pipeline that
\* AddToWritePipeline asserts included).
THEOREM TypeCorrect == Spec => []TypeOK
<1>1. IInv => TypeOK
    BY DEF IInv
<1>2. QED
    BY <1>1, Invariant, PTL

\* The pipeline is always the front of the queue on disk.
THEOREM PipelineCorrect == Spec => []PipelineIsQueueFront
<1>1. IInv => PipelineIsQueueFront
    BY DEF IInv
<1>2. QED
    BY <1>1, Invariant, PTL

\* An answer always belongs to the head of the pipeline.
THEOREM WireCorrect == Spec => []WireMatchesPipeline
<1>1. IInv => WireMatchesPipeline
    BY DEF IInv
<1>2. QED
    BY <1>1, Invariant, PTL

\* The write stream is never stopped gracefully while it is needed.
THEOREM IdleCorrect == Spec => []IdleOnlyWhenDrained
<1>1. IInv => IdleOnlyWhenDrained
    BY DEF IInv
<1>2. QED
    BY <1>1, Invariant, PTL

\* What there is to write is never left without a stream.
THEOREM NoWriteStranded == Spec => []NeverStranded
<1>1. IInv => NeverStranded
    BY DEF IInv
<1>2. QED
    BY <1>1, Invariant, PTL

\* A completion block waits for exactly its own write.
THEOREM CallbackCorrect == Spec => []CallbackForItsWrite
<1>1. IInv => CallbackForItsWrite
    BY DEF IInv
<1>2. QED
    BY <1>1, Invariant, PTL

\* A block that heard "ok" is right: the backend has the message.
THEOREM OkIsTrue == Spec => []OkMeansCommitted
<1>1. IInv => OkMeansCommitted
    BY DEF IInv
<1>2. QED
    BY <1>1, Invariant, PTL

\* What a block was told is never changed.
THEOREM NeverToldTwice == Spec => ToldOnce
<1>1. IInv /\ [Next]_vars =>
         [\A m \in Message : outcome[m] # "none" => outcome'[m] = outcome[m]]_vars
    <2> SUFFICES ASSUME IInv, [Next]_vars
                 PROVE  \A m \in Message : outcome[m] # "none" => outcome'[m] = outcome[m]
        OBVIOUS
    <2>1. PipelineInv /\ RegisteredNotTold
        BY DEF IInv, PipelineInv
    <2>2. QED
        BY <2>1, NewlyTold
<1>2. QED
    BY <1>1, Invariant, PTL DEF Spec, ToldOnce

(***************************************************************************)
(* The inductive invariant: a user's queue is what is left of the messages *)
(* written, and the backend has got through a front of it.                 *)
(***************************************************************************)

SubmittedOnce ==
    \A u, v \in User : \A i \in 1..Len(submitted[u]), j \in 1..Len(submitted[v]) :
        submitted[u][i] = submitted[v][j] => u = v /\ i = j

\* How many of a user's messages the client has finished with.
Ended(u) == Len(submitted[u]) - Len(queue[u])

QueueIsRest ==
    \A u \in User :
        /\ Len(queue[u]) <= Len(submitted[u])
        /\ \A i \in 1..Len(queue[u]) : queue[u][i].doc = submitted[u][Ended(u) + i]

CommittedWasSubmitted ==
    \A k \in 1..Len(committed) : \E u \in User : SubmittedBy(u, committed[k])

CommittedIsFront ==
    \A u \in User : \A i, j \in 1..Len(queue[u]) :
        i < j /\ Committed(queue[u][j].doc) => Committed(queue[u][i].doc)

OrderInv ==
    /\ SubmittedOnce
    /\ QueueIsRest
    /\ CommittedWasSubmitted
    /\ CommittedIsFront
    /\ CommitsFollowSubmission


(***************************************************************************)
(* What a step does to the queues, row by row.                             *)
(***************************************************************************)

LEMMA QueueTypes ==
    ASSUME PipelineInv
    PROVE  /\ queue \in [User -> Seq(Batch)]
           /\ submitted \in [User -> Seq(Message)]
           /\ currentUser \in User
           /\ committed \in Seq(Message)
           /\ Len(committed) \in Nat
           /\ \A u \in User : Len(queue[u]) \in Nat /\ Len(submitted[u]) \in Nat
           /\ \A u \in User : \A i \in 1..Len(queue[u]) : queue[u][i].doc \in Message
           /\ \A u \in User : \A i \in 1..Len(submitted[u]) : submitted[u][i] \in Message
<1>1. /\ queue \in [User -> Seq(Batch)] /\ submitted \in [User -> Seq(Message)]
      /\ currentUser \in User /\ committed \in Seq(Message)
    BY DEF PipelineInv, TypeOK
<1>2. \A u \in User : \A i \in 1..Len(queue[u]) : queue[u][i].doc \in Message
    BY <1>1, RowType
<1>3. \A u \in User : \A i \in 1..Len(submitted[u]) : submitted[u][i] \in Message
    BY <1>1, ElementOfSeq
<1>4. QED
    BY <1>1, <1>2, <1>3

\* A write puts a row behind the others, and a message behind the others.
LEMMA WriteAppends ==
    ASSUME PipelineInv, NEW m \in Message, WriteMutations(m)
    PROVE  /\ \A u \in User : u # currentUser =>
                  queue'[u] = queue[u] /\ submitted'[u] = submitted[u]
           /\ Len(queue'[currentUser]) = Len(queue[currentUser]) + 1
           /\ \A i \in 1..Len(queue[currentUser]) :
                  queue'[currentUser][i] = queue[currentUser][i]
           /\ queue'[currentUser][Len(queue[currentUser]) + 1].doc = m
           /\ Len(submitted'[currentUser]) = Len(submitted[currentUser]) + 1
           /\ \A i \in 1..Len(submitted[currentUser]) :
                  submitted'[currentUser][i] = submitted[currentUser][i]
           /\ submitted'[currentUser][Len(submitted[currentUser]) + 1] = m
           /\ \A u \in User : \A i \in 1..Len(submitted[u]) : submitted[u][i] # m
           /\ committed' = committed
<1> DEFINE row == [id |-> nextBatchId, doc |-> m]
<1>1. queue' = [queue EXCEPT ![currentUser] = Append(@, row)]
    BY DEF WriteMutations, AddMutationBatch
<1>2. submitted' = [submitted EXCEPT ![currentUser] = Append(@, m)]
    BY DEF WriteMutations
<1>3. row.doc = m
    OBVIOUS
<1>4. row \in Batch
    BY DEF Batch, PipelineInv, TypeOK
<1> HIDE DEF row
<1>5. /\ queue'[currentUser] = Append(queue[currentUser], row)
      /\ submitted'[currentUser] = Append(submitted[currentUser], m)
      /\ queue[currentUser] \in Seq(Batch) /\ submitted[currentUser] \in Seq(Message)
    BY <1>1, <1>2, QueueTypes
<1>6. \A u \in User : \A i \in 1..Len(submitted[u]) : submitted[u][i] # m
    BY DEF WriteMutations, SubmittedBy, Contains
<1>7. committed' = committed
    BY DEF WriteMutations
<1>8. \A u \in User : u # currentUser => queue'[u] = queue[u] /\ submitted'[u] = submitted[u]
    BY <1>1, <1>2, QueueTypes
<1>9. /\ Len(queue'[currentUser]) = Len(queue[currentUser]) + 1
      /\ \A i \in 1..Len(queue[currentUser]) : queue'[currentUser][i] = queue[currentUser][i]
      /\ queue'[currentUser][Len(queue[currentUser]) + 1] = row
    BY <1>4, <1>5
<1>10. /\ Len(submitted'[currentUser]) = Len(submitted[currentUser]) + 1
       /\ \A i \in 1..Len(submitted[currentUser]) :
             submitted'[currentUser][i] = submitted[currentUser][i]
       /\ submitted'[currentUser][Len(submitted[currentUser]) + 1] = m
    BY <1>5
<1>11. QED
    BY <1>3, <1>6, <1>7, <1>8, <1>9, <1>10, Zenon

\* The end of a write takes the first row.
LEMMA EndTakesFirst ==
    ASSUME PipelineInv, NEW result, Ends(result)
    PROVE  /\ \A u \in User : u # currentUser => queue'[u] = queue[u]
           /\ Len(queue[currentUser]) > 0
           /\ Head(pipeline) = queue[currentUser][1]
           /\ Len(queue'[currentUser]) = Len(queue[currentUser]) - 1
           /\ \A i \in 1..(Len(queue[currentUser]) - 1) :
                  queue'[currentUser][i] = queue[currentUser][i + 1]
           /\ submitted' = submitted /\ committed' = committed
<1>1. /\ pipeline \in Seq(Batch) /\ pipeline # <<>>
      /\ queue[currentUser] \in Seq(Batch)
      /\ IsOrdered(queue[currentUser])
      /\ IsFrontOf(pipeline, queue[currentUser])
    BY PipelineInvFacts DEF Filled, CanFill, Ends
<1>2. queue' = [queue EXCEPT ![currentUser] = RemoveMutationBatch(@, Head(pipeline).id)]
    BY DEF Ends
<1>3. /\ queue'[currentUser] = RemoveMutationBatch(queue[currentUser], Head(pipeline).id)
      /\ \A u \in User : u # currentUser => queue'[u] = queue[u]
    BY <1>2, QueueTypes
<1>4. /\ queue[currentUser] # <<>>
      /\ Head(pipeline) = queue[currentUser][1]
      /\ Len(queue'[currentUser]) = Len(queue[currentUser]) - 1
      /\ \A i \in 1..(Len(queue[currentUser]) - 1) :
             queue'[currentUser][i] = queue[currentUser][i + 1]
    BY <1>1, <1>3, FrontWithoutHead
<1>5. Len(queue[currentUser]) > 0
    BY <1>1, <1>4, EmptySeq
<1>6. QED
    BY <1>3, <1>4, <1>5 DEF Ends

\* The backend carries out the row behind those it has answered.
LEMMA CommitIsNext ==
    ASSUME IInv, BackendCommits
    PROVE  /\ answered \in Nat /\ answered + 1 \in 1..Len(queue[currentUser])
           /\ \A i \in 1..answered : Committed(queue[currentUser][i].doc)
           /\ wire[answered + 1] = queue[currentUser][answered + 1]
           /\ queue' = queue /\ submitted' = submitted
<1>1. wire \in Seq(Batch) /\ answered \in 0..Len(wire) /\ answered < Len(wire)
    BY DEF BackendCommits, IInv, TypeOK
<1>2. wire = pipeline
    <2>1. wire # <<>>
        BY <1>1
    <2>2. QED
        BY <2>1 DEF IInv, WireMatchesPipeline
<1>3. /\ Len(wire) <= Len(queue[currentUser])
      /\ \A i \in 1..Len(wire) : wire[i] = queue[currentUser][i]
    BY <1>2 DEF IInv, PipelineIsQueueFront, IsFrontOf
<1>4. Len(queue[currentUser]) \in Nat
    BY QueueTypes DEF IInv, PipelineInv
<1>5. QED
    BY <1>1, <1>3, <1>4 DEF IInv, AnsweredIsCommitted, BackendCommits

(***************************************************************************)
(* OrderInv is inductive.                                                  *)
(***************************************************************************)

LEMMA OrderInit == Init => OrderInv
<1> SUFFICES ASSUME Init PROVE OrderInv
    OBVIOUS
<1>1. /\ \A u \in User : Len(queue[u]) = 0 /\ Len(submitted[u]) = 0
      /\ Len(committed) = 0 /\ DOMAIN committed = {}
      /\ 1..0 = {}
    BY DEF Init
<1>2. SubmittedOnce /\ CommittedIsFront
    BY <1>1, Zenon DEF SubmittedOnce, CommittedIsFront
<1>3. QueueIsRest
    BY <1>1 DEF QueueIsRest
<1>4. CommittedWasSubmitted
    BY <1>1, Zenon DEF CommittedWasSubmitted
<1>5. CommitsFollowSubmission
    BY <1>1 DEF CommitsFollowSubmission
<1>6. QED
    BY <1>2, <1>3, <1>4, <1>5 DEF OrderInv

\* The rows are the messages from the Ended(u)-th on.
LEMMA RestFacts ==
    ASSUME PipelineInv, QueueIsRest, NEW u \in User
    PROVE  /\ Ended(u) \in Nat
           /\ \A i \in 1..Len(queue[u]) :
                 /\ Ended(u) + i \in 1..Len(submitted[u])
                 /\ queue[u][i].doc = submitted[u][Ended(u) + i]
           /\ \A j \in 1..Len(submitted[u]) : j > Ended(u) =>
                 /\ j - Ended(u) \in 1..Len(queue[u])
                 /\ queue[u][j - Ended(u)].doc = submitted[u][j]
<1>1. /\ Len(queue[u]) \in Nat /\ Len(submitted[u]) \in Nat
      /\ Len(queue[u]) <= Len(submitted[u])
      /\ \A i \in 1..Len(queue[u]) : queue[u][i].doc = submitted[u][Ended(u) + i]
    BY QueueTypes DEF QueueIsRest
<1>2. Ended(u) \in Nat /\ Ended(u) + Len(queue[u]) = Len(submitted[u])
    BY <1>1 DEF Ended
<1>3. \A i \in 1..Len(queue[u]) : Ended(u) + i \in 1..Len(submitted[u])
    BY <1>1, <1>2
<1>4. ASSUME NEW j \in 1..Len(submitted[u]), j > Ended(u)
      PROVE  /\ j - Ended(u) \in 1..Len(queue[u])
             /\ queue[u][j - Ended(u)].doc = submitted[u][j]
    <2>1. j - Ended(u) \in 1..Len(queue[u]) /\ Ended(u) + (j - Ended(u)) = j
        BY <1>1, <1>2, <1>4
    <2>2. QED
        BY <1>1, <2>1
<1>5. QED
    BY <1>1, <1>2, <1>3, <1>4

LEMMA OrderUnchanged ==
    ASSUME OrderInv, queue' = queue, submitted' = submitted, committed' = committed
    PROVE  OrderInv'
<1>1. SubmittedOnce' /\ QueueIsRest'
    <2>1. SubmittedOnce'
        BY DEF OrderInv, SubmittedOnce
    <2>2. \A u \in User : Ended(u)' = Ended(u)
        BY DEF Ended
    <2>3. QueueIsRest'
        BY <2>2 DEF OrderInv, QueueIsRest
    <2>4. QED
        BY <2>1, <2>3
<1>2. CommittedWasSubmitted'
    BY DEF OrderInv, CommittedWasSubmitted, SubmittedBy
<1>3. CommittedIsFront'
    BY DEF OrderInv, CommittedIsFront, Committed
<1>4. CommitsFollowSubmission'
    BY DEF OrderInv, CommitsFollowSubmission
<1>5. QED
    BY <1>1, <1>2, <1>3, <1>4 DEF OrderInv

\* CommitsFollowSubmission, with the lengths spelled out.
LEMMA CommitsFollow ==
    ASSUME NEW s \in [User -> Seq(Message)], NEW c \in Seq(Message)
    PROVE  (\A u \in User : \A i, j \in DOMAIN s[u] : \A k, l \in DOMAIN c :
                (i < j /\ c[k] = s[u][i] /\ c[l] = s[u][j]) => k < l)
           <=>
           (\A u \in User : \A i, j \in 1..Len(s[u]) : \A k, l \in 1..Len(c) :
                (i < j /\ c[k] = s[u][i] /\ c[l] = s[u][j]) => k < l)
<1>1. /\ DOMAIN c = 1..Len(c)
      /\ \A u \in User : DOMAIN s[u] = 1..Len(s[u])
    OBVIOUS
<1> DEFINE P(u, i, j, k, l) == (i < j /\ c[k] = s[u][i] /\ c[l] = s[u][j]) => k < l
<1> HIDE DEF P
<1>2. (\A u \in User : \A i, j \in DOMAIN s[u] : \A k, l \in DOMAIN c : P(u, i, j, k, l))
      <=>
      (\A u \in User : \A i, j \in 1..Len(s[u]) : \A k, l \in 1..Len(c) : P(u, i, j, k, l))
    BY <1>1
<1>3. QED
    BY <1>2 DEF P

LEMMA CommitsFollowAfter ==
    ASSUME PipelineInv',
           \A u \in User : \A i, j \in 1..Len(submitted'[u]) : \A k, l \in 1..Len(committed') :
              (i < j /\ committed'[k] = submitted'[u][i] /\ committed'[l] = submitted'[u][j])
                 => k < l
    PROVE  CommitsFollowSubmission'
<1>1. committed' \in Seq(Message) /\ submitted' \in [User -> Seq(Message)]
    BY DEF PipelineInv, TypeOK
<1>2. \A u \in User : \A i, j \in DOMAIN submitted'[u] : \A k, l \in DOMAIN committed' :
         (i < j /\ committed'[k] = submitted'[u][i] /\ committed'[l] = submitted'[u][j])
            => k < l
    BY <1>1, CommitsFollow
<1>3. QED
    BY <1>2 DEF CommitsFollowSubmission

LEMMA OrderWrite ==
    ASSUME PipelineInv, OrderInv, NEW m \in Message, WriteMutations(m)
    PROVE  OrderInv'
<1> DEFINE cu == currentUser
           q == Len(queue[cu])
           n == Len(submitted[cu])
<1>1. /\ \A u \in User : u # cu => queue'[u] = queue[u] /\ submitted'[u] = submitted[u]
      /\ Len(queue'[cu]) = q + 1 /\ Len(submitted'[cu]) = n + 1
      /\ \A i \in 1..q : queue'[cu][i] = queue[cu][i]
      /\ queue'[cu][q + 1].doc = m
      /\ \A i \in 1..n : submitted'[cu][i] = submitted[cu][i]
      /\ submitted'[cu][n + 1] = m
      /\ \A u \in User : \A i \in 1..Len(submitted[u]) : submitted[u][i] # m
      /\ committed' = committed
    BY WriteAppends
<1>2. /\ q \in Nat /\ n \in Nat /\ cu \in User
      /\ \A u \in User : Len(queue[u]) \in Nat /\ Len(submitted[u]) \in Nat
    BY QueueTypes
<1>3. PipelineInv'
    BY PipelineStep DEF Next
<1> HIDE DEF cu
\* Where the messages of a user come from.
<1>4. ASSUME NEW u \in User, NEW i \in 1..Len(submitted'[u])
      PROVE  \/ i \in 1..Len(submitted[u]) /\ submitted'[u][i] = submitted[u][i]
             \/ u = cu /\ i = n + 1 /\ submitted'[u][i] = m
    BY <1>1, <1>2, <1>4
<1>5. ASSUME NEW u \in User, NEW i \in 1..Len(queue'[u])
      PROVE  \/ i \in 1..Len(queue[u]) /\ queue'[u][i].doc = queue[u][i].doc
             \/ u = cu /\ i = q + 1 /\ queue'[u][i].doc = m
    BY <1>1, <1>2, <1>5
\* The new message has not been stored.
<1>6. \A k \in 1..Len(committed) : committed[k] # m
    BY <1>1 DEF OrderInv, CommittedWasSubmitted, SubmittedBy, Contains
<1>7. \A u \in User : \A i, j \in 1..Len(submitted[u]) : \A k, l \in 1..Len(committed) :
         (i < j /\ committed[k] = submitted[u][i] /\ committed[l] = submitted[u][j]) => k < l
    BY QueueTypes, CommitsFollow DEF OrderInv, CommitsFollowSubmission
<1> HIDE DEF q, n
<1>8. SubmittedOnce'
    <2>1. ASSUME NEW u \in User, NEW v \in User,
                 NEW i \in 1..Len(submitted'[u]), NEW j \in 1..Len(submitted'[v]),
                 submitted'[u][i] = submitted'[v][j]
          PROVE  u = v /\ i = j
        BY <1>1, <1>4, <2>1 DEF OrderInv, SubmittedOnce
    <2>2. QED
        BY <2>1, Zenon DEF SubmittedOnce
<1>9. QueueIsRest'
    <2>1. q <= n /\ \A i \in 1..q : queue[cu][i].doc = submitted[cu][n - q + i]
        BY <1>2 DEF OrderInv, QueueIsRest, Ended, q, n
    <2>2. \A i \in 1..q : n - q + i \in 1..n
        BY <1>2, <2>1
    <2>3. \A i \in 1..(q + 1) : queue'[cu][i].doc = submitted'[cu][(n + 1) - (q + 1) + i]
        <3> TAKE i \in 1..(q + 1)
        <3>1. CASE i \in 1..q
            <4>1. (n + 1) - (q + 1) + i = n - q + i
                BY <1>2
            <4>2. QED
                BY <3>1, <4>1, <1>1, <2>1, <2>2
        <3>2. CASE i = q + 1
            <4>1. (n + 1) - (q + 1) + i = n + 1
                BY <3>2, <1>2
            <4>2. QED
                BY <3>2, <4>1, <1>1
        <3>3. QED
            BY <3>1, <3>2, <1>2
    <2>4. q + 1 <= n + 1
        BY <2>1, <1>2
    <2>5. ASSUME NEW u \in User
          PROVE  /\ Len(queue'[u]) <= Len(submitted'[u])
                 /\ \A i \in 1..Len(queue'[u]) :
                       queue'[u][i].doc = submitted'[u][Len(submitted'[u]) - Len(queue'[u]) + i]
        <3>1. CASE u = cu
            BY <3>1, <2>3, <2>4, <1>1
        <3>2. CASE u # cu
            <4>1. queue'[u] = queue[u] /\ submitted'[u] = submitted[u]
                BY <3>2, <1>1
            <4>2. QED
                BY <4>1 DEF OrderInv, QueueIsRest, Ended
        <3>3. QED
            BY <3>1, <3>2
    <2>6. QED
        BY <2>5, Zenon DEF QueueIsRest, Ended
<1>10. CommittedWasSubmitted'
    <2>1. ASSUME NEW k \in 1..Len(committed)
          PROVE  \E u \in User : \E i \in 1..Len(submitted'[u]) : submitted'[u][i] = committed[k]
        <3>1. PICK u \in User : \E i \in 1..Len(submitted[u]) : submitted[u][i] = committed[k]
            BY DEF OrderInv, CommittedWasSubmitted, SubmittedBy, Contains
        <3>2. PICK i \in 1..Len(submitted[u]) : submitted[u][i] = committed[k]
            BY <3>1
        <3>3. i \in 1..Len(submitted'[u]) /\ submitted'[u][i] = submitted[u][i]
            BY <1>1, <1>2, SMTT(30) DEF n
        <3>4. QED
            BY <3>2, <3>3
    <2>2. QED
        BY <2>1, <1>1 DEF CommittedWasSubmitted, SubmittedBy, Contains
<1>11. CommittedIsFront'
    <2>1. ASSUME NEW u \in User, NEW i \in 1..Len(queue'[u]), NEW j \in 1..Len(queue'[u]),
                 i < j, Contains(committed, queue'[u][j].doc)
          PROVE  Contains(committed, queue'[u][i].doc)
        <3>1. j \in 1..Len(queue[u]) /\ queue'[u][j].doc = queue[u][j].doc
            BY <1>5, <1>6, <2>1 DEF Contains
        <3>2. i \in 1..Len(queue[u])
            BY <3>1, <2>1, <1>2
        <3>3. queue'[u][i].doc = queue[u][i].doc
            BY <3>2, <1>1 DEF q
        <3>4. QED
            BY <3>1, <3>2, <3>3, <2>1 DEF OrderInv, CommittedIsFront, Committed
    <2>2. QED
        BY <2>1, <1>1, Zenon DEF CommittedIsFront, Committed
<1>12. CommitsFollowSubmission'
    <2>1. ASSUME NEW u \in User, NEW i \in 1..Len(submitted'[u]), NEW j \in 1..Len(submitted'[u]),
                 NEW k \in 1..Len(committed'), NEW l \in 1..Len(committed'),
                 i < j, committed'[k] = submitted'[u][i], committed'[l] = submitted'[u][j]
          PROVE  k < l
        <3>1. /\ i \in 1..Len(submitted[u]) /\ submitted'[u][i] = submitted[u][i]
              /\ j \in 1..Len(submitted[u]) /\ submitted'[u][j] = submitted[u][j]
            BY <1>1, <1>4, <1>6, <2>1
        <3>2. QED
            BY <3>1, <2>1, <1>1, <1>7
    <2>2. \A u \in User : \A i, j \in 1..Len(submitted'[u]) : \A k, l \in 1..Len(committed') :
             (i < j /\ committed'[k] = submitted'[u][i] /\ committed'[l] = submitted'[u][j])
                => k < l
        BY <2>1
    <2>3. QED
        BY <2>2, <1>3, CommitsFollowAfter
<1>13. QED
    BY <1>8, <1>9, <1>10, <1>11, <1>12 DEF OrderInv

LEMMA OrderEnd ==
    ASSUME PipelineInv, OrderInv, NEW result, Ends(result)
    PROVE  OrderInv'
<1> DEFINE cu == currentUser
           q == Len(queue[cu])
           n == Len(submitted[cu])
<1>1. /\ \A u \in User : u # cu => queue'[u] = queue[u]
      /\ q > 0 /\ Len(queue'[cu]) = q - 1
      /\ \A i \in 1..(q - 1) : queue'[cu][i] = queue[cu][i + 1]
      /\ submitted' = submitted /\ committed' = committed
    BY EndTakesFirst
<1>2. q \in Nat /\ n \in Nat /\ cu \in User
    BY QueueTypes
<1> HIDE DEF cu
<1>3. SubmittedOnce' /\ CommittedWasSubmitted' /\ CommitsFollowSubmission'
    BY <1>1 DEF OrderInv, SubmittedOnce, CommittedWasSubmitted, CommitsFollowSubmission,
                SubmittedBy
<1>4. QueueIsRest'
    <2>1. q <= n /\ \A i \in 1..q : queue[cu][i].doc = submitted[cu][n - q + i]
        BY <1>2 DEF OrderInv, QueueIsRest, Ended
    <2> HIDE DEF q, n
    <2>2. \A i \in 1..(q - 1) : queue'[cu][i].doc = submitted[cu][n - (q - 1) + i]
        <3> TAKE i \in 1..(q - 1)
        <3>1. i + 1 \in 1..q /\ n - (q - 1) + i = n - q + (i + 1)
            BY <1>1, <1>2
        <3>2. QED
            BY <3>1, <1>1, <2>1
    <2>3. q - 1 <= n
        BY <2>1, <1>2
    <2>4. ASSUME NEW u \in User
          PROVE  /\ Len(queue'[u]) <= Len(submitted[u])
                 /\ \A i \in 1..Len(queue'[u]) :
                       queue'[u][i].doc = submitted[u][Len(submitted[u]) - Len(queue'[u]) + i]
        <3>1. CASE u = cu
            BY <3>1, <2>2, <2>3, <1>1 DEF n
        <3>2. CASE u # cu
            <4>1. queue'[u] = queue[u]
                BY <3>2, <1>1
            <4>2. QED
                BY <4>1 DEF OrderInv, QueueIsRest, Ended
        <3>3. QED
            BY <3>1, <3>2
    <2>5. QED
        BY <2>4, <1>1, Zenon DEF QueueIsRest, Ended
<1>5. CommittedIsFront'
    <2>1. ASSUME NEW u \in User, NEW i \in 1..Len(queue'[u]), NEW j \in 1..Len(queue'[u]),
                 i < j, Committed(queue'[u][j].doc)
          PROVE  Committed(queue'[u][i].doc)
        <3>1. CASE u = cu
            <4>1. i + 1 \in 1..q /\ j + 1 \in 1..q /\ i + 1 < j + 1
                BY <3>1, <1>1, <1>2, <2>1
            <4>2. queue'[u][i] = queue[u][i + 1] /\ queue'[u][j] = queue[u][j + 1]
                BY <3>1, <1>1, <1>2, <2>1
            <4>3. QED
                BY <3>1, <4>1, <4>2, <2>1 DEF OrderInv, CommittedIsFront
        <3>2. CASE u # cu
            <4>1. queue'[u] = queue[u]
                BY <3>2, <1>1
            <4>2. QED
                BY <4>1, <2>1 DEF OrderInv, CommittedIsFront
        <3>3. QED
            BY <3>1, <3>2
    <2>2. \A x : Committed(x)' <=> Committed(x)
        BY <1>1 DEF Committed
    <2>3. QED
        BY <2>1, <2>2, Zenon DEF CommittedIsFront
<1>6. QED
    BY <1>3, <1>4, <1>5 DEF OrderInv

\* The rows behind the one that is carried out have not been.
LEMMA OrderCommit ==
    ASSUME IInv, OrderInv, BackendCommits, PipelineInv'
    PROVE  OrderInv'
<1> DEFINE cu == currentUser
           next == answered + 1
           m == queue[cu][next].doc
           n == Len(committed)
<1>1. PipelineInv
    BY DEF IInv, PipelineInv
<1>2. /\ answered \in Nat /\ next \in 1..Len(queue[cu])
      /\ \A i \in 1..answered : Committed(queue[cu][i].doc)
      /\ queue' = queue /\ submitted' = submitted
      /\ committed' = IF Committed(m) THEN committed ELSE Append(committed, m)
    BY CommitIsNext DEF BackendCommits
<1>3. /\ n \in Nat /\ cu \in User /\ m \in Message /\ committed \in Seq(Message)
      /\ \A u \in User : Len(queue[u]) \in Nat /\ Len(submitted[u]) \in Nat
    BY <1>1, <1>2, QueueTypes
<1>4. SubmittedOnce' /\ QueueIsRest'
    <2>1. SubmittedOnce'
        BY <1>2 DEF OrderInv, SubmittedOnce
    <2>2. \A u \in User : Ended(u)' = Ended(u)
        BY <1>2 DEF Ended
    <2>3. QueueIsRest'
        BY <1>2, <2>2 DEF OrderInv, QueueIsRest
    <2>4. QED
        BY <2>1, <2>3
<1>5. CASE Committed(m)
    <2>1. committed' = committed
        BY <1>5, <1>2
    <2>2. QED
        BY <2>1, <1>2, OrderUnchanged
<1>6. CASE ~Committed(m)
    <2>1. /\ Len(committed') = n + 1 /\ committed'[n + 1] = m
          /\ \A k \in 1..n : committed'[k] = committed[k]
        BY <1>6, <1>2, <1>3
    <2>2. \A k \in 1..n : committed[k] # m
        BY <1>6 DEF Committed, Contains
    <2>3. \A x : Contains(committed', x) <=> Committed(x) \/ x = m
        BY <2>1, <1>3 DEF Committed, Contains
    \* The message is where it was submitted.
    <2> DEFINE place == Ended(cu) + next
    <2>4. /\ Ended(cu) \in Nat
          /\ place \in 1..Len(submitted[cu]) /\ submitted[cu][place] = m
        BY <1>1, <1>2, <1>3, RestFacts DEF OrderInv
    <2>5. ASSUME NEW u \in User, NEW i \in 1..Len(submitted[u]), submitted[u][i] = m
          PROVE  u = cu /\ i = place
        BY <2>4, <2>5, <1>3 DEF OrderInv, SubmittedOnce
    <2> HIDE DEF m, n, cu, next, place
    <2>6. CommittedWasSubmitted'
        <3>1. SubmittedBy(cu, m)
            BY <2>4 DEF SubmittedBy, Contains
        <3>2. ASSUME NEW k \in 1..(n + 1)
              PROVE  \E u \in User : SubmittedBy(u, committed'[k])
            BY <3>1, <2>1, <1>3 DEF OrderInv, CommittedWasSubmitted, n
        <3>3. QED
            BY <3>2, <2>1, <1>2 DEF CommittedWasSubmitted, SubmittedBy
    <2>7. CommittedIsFront'
        <3>1. ASSUME NEW u \in User, NEW i \in 1..Len(queue[u]), NEW j \in 1..Len(queue[u]),
                     i < j, Contains(committed', queue[u][j].doc)
              PROVE  Contains(committed', queue[u][i].doc)
            <4>1. CASE Committed(queue[u][j].doc)
                BY <4>1, <3>1, <2>3 DEF OrderInv, CommittedIsFront
            <4>2. CASE queue[u][j].doc = m
                <5>1. /\ Ended(u) \in Nat /\ Ended(u) + j \in 1..Len(submitted[u])
                      /\ submitted[u][Ended(u) + j] = m
                    BY <4>2, <1>1, RestFacts DEF OrderInv
                <5>2. u = cu /\ j = next
                    <6>1. u = cu /\ Ended(u) + j = Ended(cu) + next
                        BY <5>1, <2>5 DEF place
                    <6>2. next \in Nat /\ j \in Nat
                        BY <1>2 DEF next
                    <6>3. QED
                        BY <6>1, <6>2, <5>1
                <5>3. i \in 1..answered
                    BY <5>2, <3>1, <1>2, <1>3 DEF next
                <5>4. QED
                    BY <5>2, <5>3, <1>2, <2>3 DEF cu
            <4>3. QED
                BY <4>1, <4>2, <3>1, <2>3
        <3>2. QED
            BY <3>1, <1>2, Zenon DEF CommittedIsFront, Committed
    <2>8. CommitsFollowSubmission'
        <3>1. \A u \in User : \A i, j \in 1..Len(submitted[u]) : \A k, l \in 1..n :
                 (i < j /\ committed[k] = submitted[u][i] /\ committed[l] = submitted[u][j])
                    => k < l
            BY <1>1, QueueTypes, CommitsFollow DEF OrderInv, CommitsFollowSubmission, n
        <3>2. ASSUME NEW u \in User, NEW i \in 1..Len(submitted[u]),
                     NEW j \in 1..Len(submitted[u]),
                     NEW k \in 1..(n + 1), NEW l \in 1..(n + 1),
                     i < j, committed'[k] = submitted[u][i], committed'[l] = submitted[u][j]
              PROVE  k < l
            <4>1. CASE k \in 1..n /\ l \in 1..n
                BY <4>1, <3>1, <3>2, <2>1
            <4>2. CASE k \in 1..n /\ l = n + 1
                BY <4>2, <1>3
            <4>3. CASE k = n + 1 /\ l = n + 1
                <5>1. i = place /\ j = place
                    BY <4>3, <3>2, <2>1, <2>5
                <5>2. QED
                    BY <5>1, <3>2, <1>3
            <4>4. CASE k = n + 1 /\ l \in 1..n
                <5>1. u = cu /\ i = place
                    BY <4>4, <3>2, <2>1, <2>5
                <5> DEFINE later == j - Ended(cu)
                <5>2. /\ later \in 1..Len(queue[cu]) /\ next < later
                      /\ queue[cu][later].doc = submitted[cu][j]
                    <6>1. Ended(cu) \in Nat /\ next \in Nat \ {0}
                        BY <2>4, <1>2 DEF next
                    <6>2. j \in 1..Len(submitted[cu]) /\ j > Ended(cu) + next /\ j > Ended(cu)
                        BY <6>1, <5>1, <3>2 DEF place
                    <6>3. next < later
                        BY <6>1, <6>2
                    <6>4. QED
                        BY <6>2, <6>3, <1>1, <1>3, RestFacts DEF OrderInv
                <5>3. Committed(queue[cu][later].doc)
                    <6>1. committed[l] = queue[cu][later].doc
                        BY <4>4, <3>2, <5>1, <5>2, <2>1
                    <6>2. QED
                        BY <6>1, <4>4 DEF Committed, Contains, n
                <5>4. next \in 1..Len(queue[cu]) /\ Committed(queue[cu][next].doc)
                    BY <5>2, <5>3, <1>2, <1>3 DEF OrderInv, CommittedIsFront, cu, next
                <5>5. QED
                    BY <5>4, <1>6 DEF m
            <4>5. QED
                BY <4>1, <4>2, <4>3, <4>4, <1>3
        <3>3. \A u \in User : \A i, j \in 1..Len(submitted'[u]) : \A k, l \in 1..Len(committed') :
                 (i < j /\ committed'[k] = submitted'[u][i] /\ committed'[l] = submitted'[u][j])
                    => k < l
            BY <3>2, <2>1, <1>2
        <3>4. QED
            BY <3>3, CommitsFollowAfter
    <2>9. QED
        BY <1>4, <2>6, <2>7, <2>8 DEF OrderInv
<1>7. QED
    BY <1>5, <1>6

\* Any other step that keeps the rows leaves the backend alone.
LEMMA CommittedKept ==
    ASSUME [Next]_vars, ~BackendCommits
    PROVE  committed' = committed
BY DEF Next, WriteMutations, HandleCredentialChange, ConnectivityChanged,
       ResumeStartWithCredentials, OnWriteStreamHandshakeComplete, OnWriteStreamMutationResult,
       HandleWriteError, OnWriteStreamClose, IdleTimeout, BackoffElapsed, KillAndRelaunch,
       KillWhileAcknowledging, Initialize, vars

LEMMA OrderStep == IInv /\ OrderInv /\ [Next]_vars => OrderInv'
<1> SUFFICES ASSUME IInv, OrderInv, [Next]_vars PROVE OrderInv'
    OBVIOUS
<1>1. PipelineInv /\ PipelineInv'
    BY PipelineStep DEF IInv, PipelineInv
<1>2. CASE BackendCommits
    BY <1>1, <1>2, OrderCommit
<1>3. CASE \E m \in Message : WriteMutations(m)
    BY <1>1, <1>3, OrderWrite
<1>4. CASE \E result \in {"ok", "error"} : Ends(result)
    BY <1>1, <1>4, OrderEnd
<1>5. CASE KeepsRows /\ ~BackendCommits
    <2>1. queue' = queue /\ submitted' = submitted /\ committed' = committed
        BY <1>5, CommittedKept DEF KeepsRows
    <2>2. QED
        BY <2>1, OrderUnchanged
<1>6. QED
    BY <1>1, <1>2, <1>3, <1>4, <1>5, StepKinds

LEMMA OrderInvariant == Spec => []OrderInv
<1>1. QED
    BY Invariant, OrderInit, OrderStep, PTL DEF Spec

\* The backend creates the messages of a user in the order they were written,
\* through restarts, changes of user and writes that are given up.
THEOREM OrderCorrect == Spec => []CommitsFollowSubmission
<1>1. OrderInv => CommitsFollowSubmission
    BY DEF OrderInv
<1>2. QED
    BY <1>1, OrderInvariant, PTL

-----------------------------------------------------------------------------
(***************************************************************************)
(* The mapping.                                                            *)
(***************************************************************************)

\* A message is in one user's submissions, and in one row at most.
LEMMA RowFacts ==
    ASSUME IInv
    PROVE  /\ PipelineInv
           /\ \A u \in User : \A r \in Rows(u) : r.doc \in Message /\ SubmittedBy(u, r.doc)
           /\ \A u, v \in User : \A r \in Rows(u), s \in Rows(v) :
                 r.doc = s.doc => u = v /\ r = s
           /\ \A u \in User : callbacks[u] \subseteq Rows(u)
           /\ \A u \in User : \A r, s \in Rows(u) : r.id = s.id => r = s
<1>1. PipelineInv
    BY DEF IInv, PipelineInv
<1>2. \A u \in User : Rows(u) \subseteq Batch /\ \A r \in Rows(u) : r.doc \in Message
    BY <1>1, RowsAreBatches
<1>3. \A u \in User : \A r, s \in Rows(u) : r.id = s.id => r = s
    BY <1>1, RowsAreBatches
<1>4. QED
    BY <1>1, <1>2, <1>3 DEF IInv, RowsAreSubmitted, CallbackForItsWrite

LEMMA SubmittedByOne ==
    ASSUME OrderInv, NEW u \in User, NEW v \in User, NEW m,
           SubmittedBy(u, m), SubmittedBy(v, m)
    PROVE  u = v
BY DEF OrderInv, SubmittedOnce, SubmittedBy, Contains

\* The settled messages of a user are those before its rows.
LEMMA SettledFacts ==
    ASSUME IInv, OrderInv, NEW u \in User, NEW i \in 1..Len(submitted[u])
    PROVE  submitted[u][i] \in SettledMessages <=> i <= Ended(u)
<1> DEFINE m == submitted[u][i]
<1>1. PipelineInv /\ m \in Message /\ i \in Nat
    BY RowFacts, QueueTypes
<1>2. SubmittedBy(u, m)
    BY DEF SubmittedBy, Contains
<1>3. m \in SettledMessages <=> ~Queued(u, m)
    BY <1>1, <1>2, SubmittedByOne DEF SettledMessages
<1>4. Ended(u) \in Nat
    BY <1>1, RestFacts DEF OrderInv
<1>5. CASE i > Ended(u)
    <2>1. i - Ended(u) \in 1..Len(queue[u]) /\ queue[u][i - Ended(u)].doc = m
        BY <1>1, <1>5, RestFacts DEF OrderInv
    <2>2. queue[u][i - Ended(u)] \in Rows(u)
        BY <2>1, <1>1, RowsAreBatches
    <2>3. Queued(u, m)
        BY <2>1, <2>2 DEF Queued
    <2>4. QED
        BY <2>3, <1>1, <1>3, <1>4, <1>5
<1>6. CASE i <= Ended(u)
    <2>1. SUFFICES ASSUME Queued(u, m) PROVE FALSE
        BY <1>3, <1>6
    <2>2. PICK p \in 1..Len(queue[u]) : queue[u][p].doc = m
        <3>1. DOMAIN queue[u] = 1..Len(queue[u])
            BY <1>1, QueueTypes
        <3>2. QED
            BY <2>1, <3>1 DEF Queued, Rows
    <2>3. Ended(u) + p \in 1..Len(submitted[u]) /\ submitted[u][Ended(u) + p] = m
        BY <1>1, <2>2, RestFacts DEF OrderInv
    <2>4. Ended(u) + p = i
        BY <2>3 DEF OrderInv, SubmittedOnce
    <2>5. QED
        BY <2>4, <1>4, <1>6
<1>7. QED
    BY <1>1, <1>4, <1>5, <1>6

\* The operators of MessageStore are those of the write path.
LEMMA StoreOperators ==
    /\ \A u, m : Store!SubmittedBy(u, m) <=> SubmittedBy(u, m)
    /\ \A m : Store!Committed(m) <=> Committed(m)
BY Zenon DEF Store!SubmittedBy, Store!Committed, SubmittedBy, Committed, Contains,
             Store!Contains

LEMMA RefinesInit == Init => Store!Init
<1> SUFFICES ASSUME Init PROVE Store!Init
    OBVIOUS
<1>1. /\ \A u \in User : ~\E i \in 1..Len(submitted[u]) : TRUE
      /\ \A u \in User : callbacks[u] = {}
    BY DEF Init
<1>2. SettledMessages = {} /\ WaitingMessages = {}
    BY <1>1 DEF SettledMessages, WaitingMessages, SubmittedBy, Contains
<1>3. QED
    BY <1>2 DEF Init, Store!Init

(***************************************************************************)
(* The steps.                                                              *)
(***************************************************************************)

\* addDocument is a submission.
LEMMA RefinesWrite ==
    ASSUME IInv, OrderInv, NEW m \in Message, WriteMutations(m)
    PROVE  Store!Submit(currentUser, m)
<1> DEFINE row == [id |-> nextBatchId, doc |-> m]
<1>1. /\ \A u \in User : Rows(u)' = IF u = currentUser THEN Rows(u) \cup {row} ELSE Rows(u)
      /\ row.doc = m /\ currentUser \in User
    BY RowFacts, WriteFacts, QueueTypes
<1>2. \A u \in User : ~SubmittedBy(u, m)
    BY DEF WriteMutations
<1>3. \A u \in User : \A x \in Message :
         SubmittedBy(u, x)' <=> SubmittedBy(u, x) \/ (u = currentUser /\ x = m)
    <2>1. /\ \A u \in User : u # currentUser => submitted'[u] = submitted[u]
          /\ Len(submitted'[currentUser]) = Len(submitted[currentUser]) + 1
          /\ \A i \in 1..Len(submitted[currentUser]) :
                submitted'[currentUser][i] = submitted[currentUser][i]
          /\ submitted'[currentUser][Len(submitted[currentUser]) + 1] = m
          /\ Len(submitted[currentUser]) \in Nat
        BY RowFacts, WriteAppends, QueueTypes
    <2>2. QED
        BY <2>1 DEF SubmittedBy, Contains
<1>4. callbacks' = [callbacks EXCEPT ![currentUser] = @ \cup {row}]
    <2>1. \A c \in callbacks[currentUser] : c.id # nextBatchId
        <3>1. \A r \in Rows(currentUser) : r.id \in Nat /\ r.id < nextBatchId
            BY RowFacts, <1>1, RowsAreBatches
        <3>2. QED
            BY <3>1, RowFacts, <1>1
    <2>2. QED
        BY <2>1 DEF WriteMutations, InsertCallback
<1> HIDE DEF row
<1>5. \A u \in User : \A x \in Message :
         Queued(u, x)' <=> Queued(u, x) \/ (u = currentUser /\ x = m)
    BY <1>1 DEF Queued
<1>6. SettledMessages' = SettledMessages
    BY <1>2, <1>3, <1>5 DEF SettledMessages
<1>7. WaitingMessages' = WaitingMessages \cup {m}
    <2>1. callbacks \in [User -> SUBSET Batch]
        BY DEF IInv, TypeOK
    <2>2. \A u \in User : callbacks'[u] =
             IF u = currentUser THEN callbacks[u] \cup {row} ELSE callbacks[u]
        BY <2>1, <1>4
    <2>3. QED
        BY <2>2, <1>1 DEF WaitingMessages
<1>8. QED
    BY <1>2, <1>6, <1>7, StoreOperators DEF Store!Submit, WriteMutations

\* A block of the user is the one for the row with its id, or with its message.
LEMMA BlockOfRow ==
    ASSUME IInv, NEW h \in Rows(currentUser)
    PROVE  \A u \in User : \A c \in callbacks[u] :
              c.doc = h.doc <=> u = currentUser /\ c.id = h.id
<1>1. currentUser \in User
    BY DEF IInv, TypeOK
<1>2. QED
    BY <1>1, RowFacts

\* The first row is the oldest message that is not settled.
LEMMA FirstIsOldest ==
    ASSUME IInv, OrderInv, pipeline # <<>>
    PROVE  /\ Store!OldestPending(currentUser, Head(pipeline).doc)
           /\ Head(pipeline) \in Rows(currentUser)
           /\ Head(pipeline).doc \in Message
           /\ SubmittedBy(currentUser, Head(pipeline).doc)
<1> DEFINE cu == currentUser
           m == Head(pipeline).doc
           i == Ended(cu) + 1
<1>1. /\ PipelineInv /\ cu \in User
      /\ queue[cu] \in Seq(Batch) /\ submitted[cu] \in Seq(Message)
    BY RowFacts, QueueTypes
<1>2. Head(pipeline) \in Rows(cu) /\ Head(pipeline) = queue[cu][1] /\ queue[cu] # <<>>
    BY <1>1, HeadIsRow
<1>3. 1 \in 1..Len(queue[cu])
    BY <1>1, <1>2
<1>4. /\ Ended(cu) \in Nat
      /\ i \in 1..Len(submitted[cu]) /\ submitted[cu][i] = m
    BY <1>1, <1>2, <1>3, RestFacts DEF OrderInv
<1>5. \A j \in 1..Len(submitted[cu]) : submitted[cu][j] \in SettledMessages <=> j <= Ended(cu)
    BY <1>1, SettledFacts
<1>6. DOMAIN submitted[cu] = 1..Len(submitted[cu]) /\ Len(submitted[cu]) \in Nat
    BY <1>1
<1>7. m \notin SettledMessages
    BY <1>4, <1>5
<1>8. \A j \in 1..(i - 1) : submitted[cu][j] \in SettledMessages
    BY <1>4, <1>5, <1>6
<1>9. Store!OldestPending(cu, m)
    BY <1>4, <1>6, <1>7, <1>8 DEF Store!OldestPending
<1>10. QED
    BY <1>1, <1>2, <1>9, RowFacts

\* What the blocks hear when the row at the head of the pipeline ends.
LEMMA ToldIsTell ==
    ASSUME IInv, NEW h \in Rows(currentUser), NEW result,
           outcome' = [m \in Message |->
                          IF \E c \in callbacks[currentUser] : c.id = h.id /\ c.doc = m
                          THEN result ELSE outcome[m]]
    PROVE  Store!Tell(h.doc, result)
<1>1. outcome \in [Message -> Outcome] /\ currentUser \in User /\ h.doc \in Message
    BY RowFacts DEF IInv, TypeOK
<1>2. \A m \in Message :
         (\E c \in callbacks[currentUser] : c.id = h.id /\ c.doc = m)
            <=> m = h.doc /\ h.doc \in WaitingMessages
    BY <1>1, BlockOfRow DEF WaitingMessages
<1>3. outcome' = [m \in Message |->
                     IF m = h.doc /\ h.doc \in WaitingMessages THEN result ELSE outcome[m]]
    BY <1>2
<1>4. CASE h.doc \in WaitingMessages
    <2>1. outcome' = [outcome EXCEPT ![h.doc] = result]
        BY <1>1, <1>3, <1>4
    <2>2. QED
        BY <1>4, <2>1 DEF Store!Tell
<1>5. CASE h.doc \notin WaitingMessages
    <2>1. outcome' = outcome
        BY <1>1, <1>3, <1>5
    <2>2. QED
        BY <1>5, <2>1 DEF Store!Tell
<1>6. QED
    BY <1>4, <1>5

\* The end of a write settles the user's oldest pending message.
LEMMA RefinesEnd ==
    ASSUME IInv, OrderInv, NEW result \in {"ok", "error"}, Ends(result)
    PROVE  Store!Settle(currentUser, Head(pipeline).doc, result)
<1> DEFINE cu == currentUser
           h == Head(pipeline)
           m == h.doc
<1>1. /\ PipelineInv /\ cu \in User /\ pipeline # <<>>
      /\ submitted' = submitted /\ committed' = committed
    BY RowFacts, QueueTypes DEF Ends
<1>2. /\ Store!OldestPending(cu, m)
      /\ h \in Rows(cu) /\ m \in Message /\ SubmittedBy(cu, m)
    BY <1>1, FirstIsOldest
<1>3. /\ \A u \in User : \A c \in Batch :
            c \in callbacks'[u] <=> c \in callbacks[u] /\ (u = cu => c.id # h.id)
      /\ callbacks' \in [User -> SUBSET Batch]
      /\ \A u \in User : Rows(u)' = IF u = cu THEN Rows(u) \ {h} ELSE Rows(u)
    BY <1>1, EndNotifies
<1>4. callbacks \in [User -> SUBSET Batch]
    BY DEF IInv, TypeOK
<1>5. Store!Tell(m, result)
    BY <1>2, ToldIsTell DEF Ends, NotifyUser
<1>6. result = "ok" => Committed(m)
    <2>1. SUFFICES ASSUME result = "ok" PROVE Committed(m)
        OBVIOUS
    <2>2. answered > 0
        BY <2>1 DEF Ends
    <2>3. answered \in Nat /\ h = wire[1]
        BY <2>2, <1>1, AnsweredHead DEF IInv, TypeOK
    <2>4. 1 \in 1..answered
        BY <2>2, <2>3
    <2>5. QED
        BY <2>3, <2>4 DEF IInv, AnsweredIsCommitted
<1> HIDE DEF h, cu
<1>7. \A u \in User : \A x \in Message :
         Queued(u, x)' <=> Queued(u, x) /\ ~(u = cu /\ x = m)
    BY <1>1, <1>2, <1>3, RowFacts DEF Queued
<1>8. \A u \in User : \A x : SubmittedBy(u, x)' <=> SubmittedBy(u, x)
    BY <1>1 DEF SubmittedBy
<1>9. SettledMessages' = SettledMessages \cup {m}
    BY <1>1, <1>2, <1>7, <1>8 DEF SettledMessages
<1>10. WaitingMessages' = WaitingMessages \ {m}
    <2>1. \A u \in User : \A c \in callbacks[u] : c.doc = m <=> u = cu /\ c.id = h.id
        BY <1>2, BlockOfRow DEF cu
    <2>2. \A u \in User : \A c : c \in callbacks'[u] <=> c \in callbacks[u] /\ c.doc # m
        BY <2>1, <1>3, <1>4
    <2>3. QED
        BY <2>2 DEF WaitingMessages
<1>11. QED
    BY <1>1, <1>2, <1>5, <1>6, <1>9, <1>10, StoreOperators DEF Store!Settle, cu, h

LEMMA SettledKept ==
    ASSUME queue' = queue, submitted' = submitted
    PROVE  SettledMessages' = SettledMessages
BY DEF SettledMessages, SubmittedBy, Queued, Rows

\* The backend stores the row behind those it has answered, or has it.
LEMMA RefinesCommit ==
    ASSUME IInv, OrderInv, BackendCommits
    PROVE  \/ \E u \in User, m \in Message : Store!Commit(u, m)
           \/ UNCHANGED Store!vars
<1> DEFINE cu == currentUser
           next == answered + 1
           m == queue[cu][next].doc
           i == Ended(cu) + next
<1>1. /\ PipelineInv /\ cu \in User /\ submitted[cu] \in Seq(Message)
    BY RowFacts, QueueTypes
<1>2. /\ answered \in Nat /\ next \in 1..Len(queue[cu])
      /\ \A k \in 1..answered : Committed(queue[cu][k].doc)
      /\ queue' = queue /\ submitted' = submitted
      /\ committed' = IF Committed(m) THEN committed ELSE Append(committed, m)
      /\ callbacks' = callbacks /\ outcome' = outcome
    BY CommitIsNext DEF BackendCommits, memory
<1>3. SettledMessages' = SettledMessages /\ WaitingMessages' = WaitingMessages
    BY <1>2, SettledKept DEF WaitingMessages
<1>4. /\ Ended(cu) \in Nat /\ m \in Message
      /\ i \in 1..Len(submitted[cu]) /\ submitted[cu][i] = m
    BY <1>1, <1>2, RestFacts, QueueTypes DEF OrderInv
<1>5. \A j \in 1..Len(submitted[cu]) : submitted[cu][j] \in SettledMessages <=> j <= Ended(cu)
    BY <1>1, SettledFacts
<1>6. DOMAIN submitted[cu] = 1..Len(submitted[cu]) /\ Len(submitted[cu]) \in Nat
    BY <1>1
<1>7. m \notin SettledMessages
    BY <1>2, <1>4, <1>5
<1>8. ASSUME NEW j \in 1..(i - 1)
      PROVE  submitted[cu][j] \in SettledMessages \/ Committed(submitted[cu][j])
    <2>1. j \in 1..Len(submitted[cu])
        BY <1>2, <1>4, <1>6
    <2>2. CASE j <= Ended(cu)
        BY <2>1, <2>2, <1>5
    <2>3. CASE j > Ended(cu)
        <3>1. queue[cu][j - Ended(cu)].doc = submitted[cu][j]
            BY <2>1, <2>3, <1>1, RestFacts DEF OrderInv
        <3>2. j - Ended(cu) \in 1..answered
            BY <2>3, <1>2, <1>4
        <3>3. QED
            BY <3>1, <3>2, <1>2
    <2>4. QED
        BY <2>2, <2>3, <1>4
<1>9. CASE Committed(m)
    BY <1>9, <1>2, <1>3 DEF Store!vars
<1>10. CASE ~Committed(m)
    <2>1. committed' = Append(committed, m)
        BY <1>10, <1>2
    <2> HIDE DEF m, i, cu
    <2>2. /\ i \in DOMAIN submitted[cu] /\ submitted[cu][i] = m /\ m \notin SettledMessages
          /\ \A j \in 1..(i - 1) :
                submitted[cu][j] \in SettledMessages \/ Committed(submitted[cu][j])
        BY <1>4, <1>6, <1>7, <1>8
    <2>3. Store!Commit(cu, m)
        BY <2>1, <2>2, <1>2, <1>3, <1>10, StoreOperators DEF Store!Commit
    <2>4. QED
        BY <2>3, <1>1, <1>4
<1>11. QED
    BY <1>9, <1>10

\* A relaunch forgets the blocks; the block of an answered write may have been
\* called before.
LEMMA RefinesRelaunch ==
    ASSUME IInv, OrderInv, queue' = queue, submitted' = submitted, committed' = committed,
           callbacks' = [u \in User |-> {}],
           \/ outcome' = outcome
           \/ answered > 0 /\ NotifyUserAndDie(Head(pipeline).id, "ok")
    PROVE  \/ Store!Relaunch
           \/ \E u \in User, m \in Message : Store!RelaunchAfterTelling(u, m)
<1>1. SettledMessages' = SettledMessages
    BY SettledKept
<1>2. WaitingMessages' = {}
    BY DEF WaitingMessages
<1>3. CASE outcome' = outcome
    BY <1>1, <1>2, <1>3 DEF Store!Relaunch
<1>4. CASE answered > 0 /\ NotifyUserAndDie(Head(pipeline).id, "ok")
    <2>1. pipeline # <<>> /\ Head(pipeline) = wire[1] /\ 1 \in 1..answered
        BY <1>4, RowFacts, AnsweredHead DEF IInv, TypeOK
    <2>2. /\ Store!OldestPending(currentUser, Head(pipeline).doc)
          /\ Head(pipeline) \in Rows(currentUser)
          /\ Head(pipeline).doc \in Message
        BY <2>1, FirstIsOldest
    <2>3. Committed(Head(pipeline).doc)
        BY <2>1 DEF IInv, AnsweredIsCommitted
    <2>4. Store!Tell(Head(pipeline).doc, "ok")
        BY <1>4, <2>2, ToldIsTell DEF NotifyUserAndDie
    <2>5. Store!RelaunchAfterTelling(currentUser, Head(pipeline).doc)
        BY <1>1, <1>2, <2>2, <2>3, <2>4, StoreOperators DEF Store!RelaunchAfterTelling
    <2>6. currentUser \in User
        BY DEF IInv, TypeOK
    <2>7. QED
        BY <2>2, <2>5, <2>6
<1>5. QED
    BY <1>3, <1>4

LEMMA RefinesStep ==
    IInv /\ OrderInv /\ [Next]_vars => [Store!Next]_(Store!vars)
<1> SUFFICES ASSUME IInv, OrderInv, [Next]_vars PROVE Store!Next \/ UNCHANGED Store!vars
    OBVIOUS
<1>1. PipelineInv /\ currentUser \in User
    BY RowFacts, QueueTypes
<1>2. CASE BackendCommits
    BY <1>2, RefinesCommit DEF Store!Next
<1>3. CASE \E m \in Message : WriteMutations(m)
    BY <1>1, <1>3, RefinesWrite DEF Store!Next
<1>4. CASE \E result \in {"ok", "error"} : Ends(result)
    <2>1. PICK result \in {"ok", "error"} : Ends(result)
        BY <1>4
    <2>2. Store!Settle(currentUser, Head(pipeline).doc, result)
        BY <2>1, RefinesEnd
    <2>3. Head(pipeline).doc \in Message
        BY <2>1, FirstIsOldest DEF Ends
    <2>4. QED
        BY <1>1, <2>2, <2>3 DEF Store!Next
<1>5. CASE KeepsRows /\ ~BackendCommits
    <2>1. queue' = queue /\ submitted' = submitted /\ committed' = committed
        BY <1>5, CommittedKept DEF KeepsRows
    <2>2. CASE UNCHANGED <<callbacks, outcome>>
        <3>1. SettledMessages' = SettledMessages /\ WaitingMessages' = WaitingMessages
            BY <2>1, <2>2, SettledKept DEF WaitingMessages
        <3>2. QED
            BY <3>1, <2>1, <2>2 DEF Store!vars
    <2>3. CASE ~UNCHANGED <<callbacks, outcome>>
        <3>1. /\ callbacks' = [u \in User |-> {}]
              /\ \/ outcome' = outcome
                 \/ answered > 0 /\ NotifyUserAndDie(Head(pipeline).id, "ok")
            BY <1>5, <2>3 DEF KeepsRows
        <3>2. QED
            BY <3>1, <2>1, RefinesRelaunch DEF Store!Next
    <2>4. QED
        BY <2>2, <2>3
<1>6. QED
    BY <1>1, <1>2, <1>3, <1>4, <1>5, StepKinds

\* The write path implements MessageStore: each message is stored at most once,
\* in its author's order, and its block hears the truth at most once, through
\* stream errors, changes of user, relaunches and deaths in mid-acknowledgement.
THEOREM Refinement == Spec => StoreSpec
<1>1. QED
    BY Invariant, OrderInvariant, RefinesInit, RefinesStep, PTL
       DEF Spec, StoreSpec, Store!Spec
=============================================================================
