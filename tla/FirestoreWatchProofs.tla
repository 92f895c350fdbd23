------------------------ MODULE FirestoreWatchProofs ------------------------
(***************************************************************************)
(* Proofs about the listening side of the Firestore client, for any        *)
(* documents, versions and limits.  First: each loop of the code, a fold   *)
(* in the model, keeps what every turn of it keeps.  Then: the state has   *)
(* its types, and what RemoteStore listens to is what SyncEngine knows of  *)
(* (TypeInv).  Last: what is gathered, awaited, under way and served fits  *)
(* together (WholeInv), from which the answers that are awaited are those  *)
(* to come, and the assertions of the code hold.                           *)
(*                                                                         *)
(* The theorems assume target ids that do not run out, as in the code.     *)
(* Any target may be refused, the query too: a refusal of the query that   *)
(* crosses leaves its count wrong (remote_store.cc:359), and the ghost of  *)
(* WholeInv says by how much.                                              *)
(***************************************************************************)
EXTENDS FirestoreWatch, SortingProofs

(***************************************************************************)
(* Finite maps.                                                            *)
(***************************************************************************)

PFun(X, Y) == UNION {[S -> Y] : S \in {T \in SUBSET X : IsFiniteSet(T)}}

LEMMA PFunIs ==
    ASSUME NEW X, NEW Y, NEW f \in PFun(X, Y)
    PROVE  /\ DOMAIN f \in SUBSET X /\ IsFiniteSet(DOMAIN f)
           /\ f \in [DOMAIN f -> Y]
           /\ \A x \in DOMAIN f : f[x] \in Y
BY DEF PFun

LEMMA IsPFun ==
    ASSUME NEW X, NEW Y, NEW S \in SUBSET X, IsFiniteSet(S), NEW f \in [S -> Y]
    PROVE  f \in PFun(X, Y)
BY DEF PFun

LEMMA EmptyPFun ==
    ASSUME NEW X, NEW Y
    PROVE  Empty \in PFun(X, Y) /\ DOMAIN Empty = {}
<1>1. Empty \in [{} -> Y] /\ DOMAIN Empty = {}
    BY DEF Empty
<1>2. QED
    BY <1>1, IsPFun, FS_EmptySet

LEMMA WithAt ==
    ASSUME NEW f, NEW x, NEW v
    PROVE  /\ DOMAIN With(f, x, v) = DOMAIN f \cup {x}
           /\ With(f, x, v)[x] = v
           /\ \A y \in DOMAIN f : y # x => With(f, x, v)[y] = f[y]
BY DEF With

LEMMA DropAt ==
    ASSUME NEW f, NEW x
    PROVE  /\ DOMAIN Drop(f, x) = DOMAIN f \ {x}
           /\ \A y \in DOMAIN f : y # x => Drop(f, x)[y] = f[y]
BY DEF Drop

LEMMA WithIs ==
    ASSUME NEW X, NEW Y, NEW f \in PFun(X, Y), NEW x \in X, NEW v \in Y
    PROVE  With(f, x, v) \in PFun(X, Y)
<1>1. /\ DOMAIN f \in SUBSET X /\ IsFiniteSet(DOMAIN f)
      /\ \A y \in DOMAIN f : f[y] \in Y
    BY PFunIs
<1>2. IsFiniteSet(DOMAIN f \cup {x}) /\ DOMAIN f \cup {x} \in SUBSET X
    BY <1>1, FS_AddElement
<1>3. With(f, x, v) \in [DOMAIN f \cup {x} -> Y]
    BY <1>1 DEF With
<1>4. QED
    BY <1>2, <1>3, IsPFun

LEMMA DropIs ==
    ASSUME NEW X, NEW Y, NEW f \in PFun(X, Y), NEW x
    PROVE  Drop(f, x) \in PFun(X, Y)
<1>1. /\ DOMAIN f \in SUBSET X /\ IsFiniteSet(DOMAIN f)
      /\ \A y \in DOMAIN f : f[y] \in Y
    BY PFunIs
<1>2. IsFiniteSet(DOMAIN f \ {x}) /\ DOMAIN f \ {x} \in SUBSET X
    BY <1>1, FS_Subset
<1>3. Drop(f, x) \in [DOMAIN f \ {x} -> Y]
    BY <1>1 DEF Drop
<1>4. QED
    BY <1>2, <1>3, IsPFun

(***************************************************************************)
(* Loops.                                                                  *)
(***************************************************************************)

LEMMA MaxOfInterval ==
    ASSUME NEW m \in Nat, NEW T \in SUBSET (1..(m + 1)), m + 1 \in T
    PROVE  Max(T) = m + 1
<1>1. \A y \in T : m + 1 >= y
    OBVIOUS
<1>2. \E x \in T : \A y \in T : x >= y
    BY <1>1
<1>3. Max(T) \in T /\ \A y \in T : Max(T) >= y
    BY <1>2, Zenon DEF Max
<1>4. m + 1 \in Int /\ Max(T) \in Int
    <2>1. T \in SUBSET Int
        OBVIOUS
    <2>2. QED
        BY <1>3, <2>1
<1>5. Max(T) >= m + 1 /\ m + 1 >= Max(T)
    BY <1>1, <1>3
<1>6. QED
    BY <1>4, <1>5

\* A recursion over the sets of turns has a solution.
Runs(g, R, n, b, F) ==
    /\ g \in [SUBSET (1..n) -> R]
    /\ \A T \in SUBSET (1..n) :
          g[T] = IF T = {} THEN b ELSE F[<<Max(T), g[T \ {Max(T)}]>>]

LEMMA MaxIn ==
    ASSUME NEW n \in Nat, NEW T \in SUBSET (1..n), T # {}
    PROVE  Max(T) \in T /\ \A y \in T : Max(T) >= y
<1>1. IsFiniteSet(T) /\ T \in SUBSET Nat
    <2>1. 1 \in Int /\ n \in Int
        OBVIOUS
    <2>2. IsFiniteSet(1..n)
        BY <2>1, FS_Interval
    <2>3. IsFiniteSet(T)
        BY <2>2, FS_Subset
    <2>4. T \in SUBSET Nat
        OBVIOUS
    <2>5. QED
        BY <2>3, <2>4
<1>2. \E x \in T : \A y \in T : x >= y
    BY <1>1, LargestNumber
<1>3. QED
    BY <1>2, Zenon DEF Max

LEMMA RunsExist ==
    ASSUME NEW R, NEW n \in Nat, NEW b \in R, NEW F \in [(1..n) \X R -> R]
    PROVE  \E g : Runs(g, R, n, b, F)
<1> DEFINE Bad == {m \in 0..n : \A g : ~Runs(g, R, m, b, F)}
<1>1. SUFFICES ASSUME Bad # {} PROVE FALSE
    <2>1. n \in 0..n
        OBVIOUS
    <2>2. QED
        BY <2>1
<1>2. PICK k \in Bad : \A i \in Bad : k <= i
    <2>1. Bad \in SUBSET Nat
        OBVIOUS
    <2>2. QED
        BY <1>1, <2>1, LeastNumber
<1>3. CASE k = 0
    <2> DEFINE g == [T \in SUBSET (1..0) |-> b]
    <2>1. Runs(g, R, 0, b, F)
        <3>1. SUBSET (1..0) = {{}}
            OBVIOUS
        <3>2. QED
            BY <3>1 DEF Runs
    <2>2. QED
        BY <1>2, <1>3, <2>1
<1>4. CASE k # 0
    <2>1. PICK m \in Nat : k = m + 1 /\ m \in 0..n /\ m \notin Bad /\ k \in 1..n
        <3>1. k - 1 \in Nat /\ k = (k - 1) + 1 /\ k - 1 \in 0..n /\ ~(k <= k - 1) /\ k \in 1..n
            BY <1>4
        <3>2. QED
            BY <3>1, <1>2
    <2>2. PICK h : Runs(h, R, m, b, F)
        BY <2>1
    <2> DEFINE g == [T \in SUBSET (1..k) |-> IF k \in T THEN F[<<k, h[T \ {k}]>>] ELSE h[T]]
    <2>3. \A T \in SUBSET (1..k) : T \ {k} \in SUBSET (1..m)
        BY <2>1
    <2>4. \A T \in SUBSET (1..k) : k \notin T => T \in SUBSET (1..m)
        BY <2>1
    <2>5. \A T \in SUBSET (1..m) : T \in SUBSET (1..k) /\ k \notin T
        BY <2>1
    <2>6. \A T \in SUBSET (1..m) : h[T] \in R
        BY <2>2 DEF Runs
    <2>7. g \in [SUBSET (1..k) -> R]
        <3>1. \A r \in R : F[<<k, r>>] \in R
            BY <2>1
        <3>2. QED
            BY <3>1, <2>3, <2>4, <2>6
    <2>8. \A T \in SUBSET (1..k) : g[T] = IF k \in T THEN F[<<k, h[T \ {k}]>>] ELSE h[T]
        OBVIOUS
    <2> HIDE DEF g
    <2>9. \A T \in SUBSET (1..m) : g[T] = h[T]
        BY <2>5, <2>8
    <2>10. ASSUME NEW T \in SUBSET (1..k)
           PROVE  g[T] = IF T = {} THEN b ELSE F[<<Max(T), g[T \ {Max(T)}]>>]
        <3>1. CASE k \in T
            <4>1. Max(T) = k /\ T # {}
                BY <3>1, <2>1, MaxOfInterval
            <4>2. QED
                BY <4>1, <3>1, <2>3, <2>8, <2>9
        <3>2. CASE k \notin T
            <4>1. T \in SUBSET (1..m)
                BY <3>2, <2>4
            <4>2. h[T] = IF T = {} THEN b ELSE F[<<Max(T), h[T \ {Max(T)}]>>]
                BY <4>1, <2>2 DEF Runs
            <4>3. T \ {Max(T)} \in SUBSET (1..m)
                BY <4>1
            <4>4. QED
                BY <4>1, <4>2, <4>3, <2>9
        <3>3. QED
            BY <3>1, <3>2
    <2>11. Runs(g, R, k, b, F)
        BY <2>7, <2>10 DEF Runs
    <2>12. QED
        BY <2>11, <1>2
<1>5. QED
    BY <1>3, <1>4

LEMMA Upwards ==
    ASSUME NEW n \in Nat, NEW P, 0 \in P, \A k \in 1..n : k - 1 \in P => k \in P
    PROVE  n \in P
<1> DEFINE Bad == {k \in 0..n : k \notin P}
<1>1. SUFFICES ASSUME Bad # {} PROVE FALSE
    OBVIOUS
<1>2. PICK k \in Bad : \A j \in Bad : k <= j
    <2>1. Bad \in SUBSET Nat
        OBVIOUS
    <2>2. QED
        BY <1>1, <2>1, LeastNumber
<1>3. k \in 1..n /\ k \notin P
    BY <1>2
<1>4. k - 1 \in 0..n /\ ~(k <= k - 1)
    BY <1>3
<1>5. k - 1 \in P
    BY <1>2, <1>4
<1>6. QED
    BY <1>3, <1>5

LEMMA LastTurn ==
    ASSUME NEW n \in Nat, NEW k \in 1..n
    PROVE  /\ 1..k \in SUBSET (1..n) /\ 1..k # {}
           /\ Max(1..k) = k
           /\ (1..k) \ {k} = 1..(k - 1)
<1>1. 1..k \in SUBSET (1..n) /\ 1..k # {} /\ k \in 1..k
    OBVIOUS
<1>2. k - 1 \in Nat /\ 1..k \in SUBSET (1..((k - 1) + 1)) /\ (k - 1) + 1 = k
    OBVIOUS
<1>3. Max(1..k) = k
    BY <1>1, <1>2, MaxOfInterval
<1>4. QED
    BY <1>1, <1>3

LEMMA LoopStays ==
    ASSUME NEW R, NEW n \in Nat, NEW f,
           f[{}] \in R,
           \A T \in SUBSET (1..n) : T # {} /\ f[T \ {Max(T)}] \in R => f[T] \in R
    PROVE  f[1..n] \in R
<1> DEFINE P == {k \in 0..n : f[1..k] \in R}
<1>1. 0 \in P
    BY 1..0 = {}
<1>2. ASSUME NEW k \in 1..n, k - 1 \in P PROVE k \in P
    <2>1. /\ 1..k \in SUBSET (1..n) /\ 1..k # {}
          /\ Max(1..k) = k /\ (1..k) \ {k} = 1..(k - 1)
        BY LastTurn
    <2>2. f[1..(k - 1)] \in R
        BY <1>2
    <2>3. (1..k) # {} /\ f[(1..k) \ {Max(1..k)}] \in R
        <3>1. (1..k) \ {Max(1..k)} = 1..(k - 1)
            BY <2>1, Zenon
        <3>2. QED
            BY <2>1, <2>2, <3>1, Zenon
    <2>4. f[1..k] \in R
        BY <2>1, <2>3, Zenon
    <2>5. k \in 0..n
        OBVIOUS
    <2>6. QED
        BY <2>4, <2>5
<1>3. n \in P
    BY <1>1, <1>2, Upwards, Zenon
<1>4. QED
    BY <1>3

\* The loop that stops limbo resolutions.
SolvesRemove(f, b, s) ==
    f = [T \in SUBSET DOMAIN s |->
            IF T = {} THEN b ELSE RemoveLimboTarget(f[T \ {Max(T)}], s[Max(T)])]

LEMMA RemoveLoop ==
    ASSUME NEW R, NEW b \in R, NEW D, NEW s \in Seq(D),
           \A c \in R, d \in D : RemoveLimboTarget(c, d) \in R
    PROVE  FoldLeft(RemoveLimboTarget, b, s) \in R
<1> DEFINE n == Len(s)
           F == [p \in (1..n) \X R |-> RemoveLimboTarget(p[2], s[p[1]])]
           f == CHOOSE g : SolvesRemove(g, b, s)
<1>1. n \in Nat /\ DOMAIN s = 1..n /\ \A i \in 1..n : s[i] \in D
    OBVIOUS
<1>2. F \in [(1..n) \X R -> R]
    BY <1>1
<1>3. \A i \in 1..n, c \in R : F[<<i, c>>] = RemoveLimboTarget(c, s[i])
    OBVIOUS
<1>4. FoldLeft(RemoveLimboTarget, b, s) = f[DOMAIN s]
    BY DEF FoldLeft, MapThenFoldSet, SolvesRemove
<1> HIDE DEF n, F
<1>5. PICK g : Runs(g, R, n, b, F)
    BY <1>1, <1>2, RunsExist
<1>6. \A T \in SUBSET (1..n) : T # {} => Max(T) \in 1..n /\ T \ {Max(T)} \in SUBSET (1..n)
    BY <1>1, MaxIn
<1>7. SolvesRemove(g, b, s)
    <2>1. ASSUME NEW T \in SUBSET (1..n)
          PROVE  g[T] = IF T = {} THEN b ELSE RemoveLimboTarget(g[T \ {Max(T)}], s[Max(T)])
        BY <1>3, <1>5, <1>6 DEF Runs
    <2>2. g = [T \in SUBSET (1..n) |-> g[T]]
        BY <1>5 DEF Runs
    <2>3. QED
        BY <1>1, <2>1, <2>2, Zenon DEF SolvesRemove
<1>8. SolvesRemove(f, b, s)
    BY <1>7, Zenon
<1> HIDE DEF f
<1>9. f[{}] \in R
    BY <1>8 DEF SolvesRemove
<1>10. \A T \in SUBSET (1..n) :
          T # {} => f[T] = RemoveLimboTarget(f[T \ {Max(T)}], s[Max(T)])
    BY <1>1, <1>8 DEF SolvesRemove
<1>11. \A T \in SUBSET (1..n) : T # {} /\ f[T \ {Max(T)}] \in R => f[T] \in R
    BY <1>1, <1>6, <1>10
<1>12. f[1..n] \in R
    BY <1>1, <1>9, <1>11, LoopStays, Zenon
<1>13. QED
    BY <1>1, <1>4, <1>12

\* The loop that starts limbo resolutions.
SolvesTrack(f, b, s) ==
    f = [T \in SUBSET DOMAIN s |->
            IF T = {} THEN b ELSE TrackLimboChange(f[T \ {Max(T)}], s[Max(T)])]

LEMMA TrackLoop ==
    ASSUME NEW R, NEW b \in R, NEW D, NEW s \in Seq(D),
           \A c \in R, d \in D : TrackLimboChange(c, d) \in R
    PROVE  FoldLeft(TrackLimboChange, b, s) \in R
<1> DEFINE n == Len(s)
           F == [p \in (1..n) \X R |-> TrackLimboChange(p[2], s[p[1]])]
           f == CHOOSE g : SolvesTrack(g, b, s)
<1>1. n \in Nat /\ DOMAIN s = 1..n /\ \A i \in 1..n : s[i] \in D
    OBVIOUS
<1>2. F \in [(1..n) \X R -> R]
    BY <1>1
<1>3. \A i \in 1..n, c \in R : F[<<i, c>>] = TrackLimboChange(c, s[i])
    OBVIOUS
<1>4. FoldLeft(TrackLimboChange, b, s) = f[DOMAIN s]
    BY DEF FoldLeft, MapThenFoldSet, SolvesTrack
<1> HIDE DEF n, F
<1>5. PICK g : Runs(g, R, n, b, F)
    BY <1>1, <1>2, RunsExist
<1>6. \A T \in SUBSET (1..n) : T # {} => Max(T) \in 1..n /\ T \ {Max(T)} \in SUBSET (1..n)
    BY <1>1, MaxIn
<1>7. SolvesTrack(g, b, s)
    <2>1. ASSUME NEW T \in SUBSET (1..n)
          PROVE  g[T] = IF T = {} THEN b ELSE TrackLimboChange(g[T \ {Max(T)}], s[Max(T)])
        BY <1>3, <1>5, <1>6 DEF Runs
    <2>2. g = [T \in SUBSET (1..n) |-> g[T]]
        BY <1>5 DEF Runs
    <2>3. QED
        BY <1>1, <2>1, <2>2, Zenon DEF SolvesTrack
<1>8. SolvesTrack(f, b, s)
    BY <1>7, Zenon
<1> HIDE DEF f
<1>9. f[{}] \in R
    BY <1>8 DEF SolvesTrack
<1>10. \A T \in SUBSET (1..n) :
          T # {} => f[T] = TrackLimboChange(f[T \ {Max(T)}], s[Max(T)])
    BY <1>1, <1>8 DEF SolvesTrack
<1>11. \A T \in SUBSET (1..n) : T # {} /\ f[T \ {Max(T)}] \in R => f[T] \in R
    BY <1>1, <1>6, <1>10
<1>12. f[1..n] \in R
    BY <1>1, <1>9, <1>11, LoopStays, Zenon
<1>13. QED
    BY <1>1, <1>4, <1>12

\* The loop of PumpEnqueuedLimboResolutions.
SolvesPump(f, b, s) ==
    f = [T \in SUBSET DOMAIN s |->
            IF T = {} THEN b ELSE PumpOne(f[T \ {Max(T)}])]

LEMMA PumpLoop ==
    ASSUME NEW R, NEW b \in R, NEW D, NEW s \in Seq(D),
           \A c \in R, d \in D : PumpOne(c) \in R
    PROVE  FoldLeft(LAMBDA x, d : PumpOne(x), b, s) \in R
<1> DEFINE n == Len(s)
           F == [p \in (1..n) \X R |-> PumpOne(p[2])]
           f == CHOOSE g : SolvesPump(g, b, s)
<1>1. n \in Nat /\ DOMAIN s = 1..n /\ \A i \in 1..n : s[i] \in D
    OBVIOUS
<1>2. F \in [(1..n) \X R -> R]
    BY <1>1
<1>3. \A i \in 1..n, c \in R : F[<<i, c>>] = PumpOne(c)
    OBVIOUS
<1>4. FoldLeft(LAMBDA x, d : PumpOne(x), b, s) = f[DOMAIN s]
    BY DEF FoldLeft, MapThenFoldSet, SolvesPump
<1> HIDE DEF n, F
<1>5. PICK g : Runs(g, R, n, b, F)
    BY <1>1, <1>2, RunsExist
<1>6. \A T \in SUBSET (1..n) : T # {} => Max(T) \in 1..n /\ T \ {Max(T)} \in SUBSET (1..n)
    BY <1>1, MaxIn
<1>7. SolvesPump(g, b, s)
    <2>1. ASSUME NEW T \in SUBSET (1..n)
          PROVE  g[T] = IF T = {} THEN b ELSE PumpOne(g[T \ {Max(T)}])
        BY <1>3, <1>5, <1>6 DEF Runs
    <2>2. g = [T \in SUBSET (1..n) |-> g[T]]
        BY <1>5 DEF Runs
    <2>3. QED
        BY <1>1, <2>1, <2>2, Zenon DEF SolvesPump
<1>8. SolvesPump(f, b, s)
    BY <1>7, Zenon
<1> HIDE DEF f
<1>9. f[{}] \in R
    BY <1>8 DEF SolvesPump
<1>10. \A T \in SUBSET (1..n) :
          T # {} => f[T] = PumpOne(f[T \ {Max(T)}])
    BY <1>1, <1>8 DEF SolvesPump
<1>11. \A T \in SUBSET (1..n) : T # {} /\ f[T \ {Max(T)}] \in R => f[T] \in R
    BY <1>1, <1>6, <1>10
<1>12. f[1..n] \in R
    BY <1>1, <1>9, <1>11, LoopStays, Zenon
<1>13. QED
    BY <1>1, <1>4, <1>12

\* The loop of ResetTarget.
SolvesReset(t, f, b, s) ==
    f = [T \in SUBSET DOMAIN s |->
            IF T = {} THEN b ELSE RemoveDocument(f[T \ {Max(T)}], t, s[Max(T)], {})]

LEMMA ResetLoop ==
    ASSUME NEW R, NEW r, NEW t, NEW D, NEW b \in R, NEW s \in Seq(D),
           b = [r EXCEPT !.states = With(@, t, NewTargetState)],
           s = Ascending(RemoteKeys(engine, t)),
           \A c \in R, d \in D : RemoveDocument(c, t, d, {}) \in R
    PROVE  ResetTarget(r, t) \in R
<1> DEFINE n == Len(s)
           F == [p \in (1..n) \X R |-> RemoveDocument(p[2], t, s[p[1]], {})]
           f == CHOOSE g : SolvesReset(t, g, b, s)
<1>1. n \in Nat /\ DOMAIN s = 1..n /\ \A i \in 1..n : s[i] \in D
    OBVIOUS
<1>2. F \in [(1..n) \X R -> R]
    BY <1>1
<1>3. \A i \in 1..n, c \in R : F[<<i, c>>] = RemoveDocument(c, t, s[i], {})
    OBVIOUS
<1>4. ResetTarget(r, t) = f[DOMAIN s]
    BY DEF ResetTarget, FoldLeft, MapThenFoldSet, SolvesReset
<1> HIDE DEF n, F
<1>5. PICK g : Runs(g, R, n, b, F)
    BY <1>1, <1>2, RunsExist
<1>6. \A T \in SUBSET (1..n) : T # {} => Max(T) \in 1..n /\ T \ {Max(T)} \in SUBSET (1..n)
    BY <1>1, MaxIn
<1>7. SolvesReset(t, g, b, s)
    <2>1. ASSUME NEW T \in SUBSET (1..n)
          PROVE  g[T] = IF T = {} THEN b ELSE RemoveDocument(g[T \ {Max(T)}], t, s[Max(T)], {})
        BY <1>3, <1>5, <1>6 DEF Runs
    <2>2. g = [T \in SUBSET (1..n) |-> g[T]]
        BY <1>5 DEF Runs
    <2>3. QED
        BY <1>1, <2>1, <2>2, Zenon DEF SolvesReset
<1>8. SolvesReset(t, f, b, s)
    BY <1>7, Zenon
<1> HIDE DEF f
<1>9. f[{}] \in R
    BY <1>8 DEF SolvesReset
<1>10. \A T \in SUBSET (1..n) :
          T # {} => f[T] = RemoveDocument(f[T \ {Max(T)}], t, s[Max(T)], {})
    BY <1>1, <1>8 DEF SolvesReset
<1>11. \A T \in SUBSET (1..n) : T # {} /\ f[T \ {Max(T)}] \in R => f[T] \in R
    BY <1>1, <1>6, <1>10
<1>12. f[1..n] \in R
    BY <1>1, <1>9, <1>11, LoopStays, Zenon
<1>13. QED
    BY <1>1, <1>4, <1>12

\* The loop of CreateRemoteEvent.
SolvesSynthesize(f, b, s) ==
    f = [T \in SUBSET DOMAIN s |->
            IF T = {} THEN b ELSE SynthesizeDelete(f[T \ {Max(T)}], s[Max(T)])]

LEMMA SynthesizeLoop ==
    ASSUME NEW R, NEW b \in R, NEW D, NEW s \in Seq(D),
           \A c \in R, d \in D : SynthesizeDelete(c, d) \in R
    PROVE  FoldLeft(SynthesizeDelete, b, s) \in R
<1> DEFINE n == Len(s)
           F == [p \in (1..n) \X R |-> SynthesizeDelete(p[2], s[p[1]])]
           f == CHOOSE g : SolvesSynthesize(g, b, s)
<1>1. n \in Nat /\ DOMAIN s = 1..n /\ \A i \in 1..n : s[i] \in D
    OBVIOUS
<1>2. F \in [(1..n) \X R -> R]
    BY <1>1
<1>3. \A i \in 1..n, c \in R : F[<<i, c>>] = SynthesizeDelete(c, s[i])
    OBVIOUS
<1>4. FoldLeft(SynthesizeDelete, b, s) = f[DOMAIN s]
    BY DEF FoldLeft, MapThenFoldSet, SolvesSynthesize
<1> HIDE DEF n, F
<1>5. PICK g : Runs(g, R, n, b, F)
    BY <1>1, <1>2, RunsExist
<1>6. \A T \in SUBSET (1..n) : T # {} => Max(T) \in 1..n /\ T \ {Max(T)} \in SUBSET (1..n)
    BY <1>1, MaxIn
<1>7. SolvesSynthesize(g, b, s)
    <2>1. ASSUME NEW T \in SUBSET (1..n)
          PROVE  g[T] = IF T = {} THEN b ELSE SynthesizeDelete(g[T \ {Max(T)}], s[Max(T)])
        BY <1>3, <1>5, <1>6 DEF Runs
    <2>2. g = [T \in SUBSET (1..n) |-> g[T]]
        BY <1>5 DEF Runs
    <2>3. QED
        BY <1>1, <2>1, <2>2, Zenon DEF SolvesSynthesize
<1>8. SolvesSynthesize(f, b, s)
    BY <1>7, Zenon
<1> HIDE DEF f
<1>9. f[{}] \in R
    BY <1>8 DEF SolvesSynthesize
<1>10. \A T \in SUBSET (1..n) :
          T # {} => f[T] = SynthesizeDelete(f[T \ {Max(T)}], s[Max(T)])
    BY <1>1, <1>8 DEF SolvesSynthesize
<1>11. \A T \in SUBSET (1..n) : T # {} /\ f[T \ {Max(T)}] \in R => f[T] \in R
    BY <1>1, <1>6, <1>10
<1>12. f[1..n] \in R
    BY <1>1, <1>9, <1>11, LoopStays, Zenon
<1>13. QED
    BY <1>1, <1>4, <1>12

\* What a step of the backend tells of each target.
SolvesAdvance(v, f, b, s) ==
    f = [T \in SUBSET DOMAIN s |->
            IF T = {} THEN b ELSE f[T \ {Max(T)}] \o News(s[Max(T)], watched[s[Max(T)]], history[served], history[served + 1], v)]

LEMMA AdvanceLoop ==
    ASSUME NEW R, NEW v, NEW D, NEW b \in R, NEW s \in Seq(D),
           b = wire, s = Ascending(DOMAIN watched),
           \A c \in R, d \in D : c \o News(d, watched[d], history[served], history[served + 1], v) \in R
    PROVE  NextNews(v) \in R
<1> DEFINE n == Len(s)
           F == [p \in (1..n) \X R |-> p[2] \o News(s[p[1]], watched[s[p[1]]], history[served], history[served + 1], v)]
           f == CHOOSE g : SolvesAdvance(v, g, b, s)
<1>1. n \in Nat /\ DOMAIN s = 1..n /\ \A i \in 1..n : s[i] \in D
    OBVIOUS
<1>2. F \in [(1..n) \X R -> R]
    BY <1>1
<1>3. \A i \in 1..n, c \in R : F[<<i, c>>] = c \o News(s[i], watched[s[i]], history[served], history[served + 1], v)
    OBVIOUS
<1>4. NextNews(v) = f[DOMAIN s]
    BY DEF NextNews, FoldLeft, MapThenFoldSet, SolvesAdvance
<1> HIDE DEF n, F
<1>5. PICK g : Runs(g, R, n, b, F)
    BY <1>1, <1>2, RunsExist
<1>6. \A T \in SUBSET (1..n) : T # {} => Max(T) \in 1..n /\ T \ {Max(T)} \in SUBSET (1..n)
    BY <1>1, MaxIn
<1>7. SolvesAdvance(v, g, b, s)
    <2>1. ASSUME NEW T \in SUBSET (1..n)
          PROVE  g[T] = IF T = {} THEN b ELSE g[T \ {Max(T)}] \o News(s[Max(T)], watched[s[Max(T)]], history[served], history[served + 1], v)
        BY <1>3, <1>5, <1>6 DEF Runs
    <2>2. g = [T \in SUBSET (1..n) |-> g[T]]
        BY <1>5 DEF Runs
    <2>3. QED
        BY <1>1, <2>1, <2>2, Zenon DEF SolvesAdvance
<1>8. SolvesAdvance(v, f, b, s)
    BY <1>7, Zenon
<1> HIDE DEF f
<1>9. f[{}] \in R
    BY <1>8 DEF SolvesAdvance
<1>10. \A T \in SUBSET (1..n) :
          T # {} => f[T] = f[T \ {Max(T)}] \o News(s[Max(T)], watched[s[Max(T)]], history[served], history[served + 1], v)
    BY <1>1, <1>8 DEF SolvesAdvance
<1>11. \A T \in SUBSET (1..n) : T # {} /\ f[T \ {Max(T)}] \in R => f[T] \in R
    BY <1>1, <1>6, <1>10
<1>12. f[1..n] \in R
    BY <1>1, <1>9, <1>11, LoopStays, Zenon
<1>13. QED
    BY <1>1, <1>4, <1>12

(***************************************************************************)
(* The types of the state.                                                 *)
(***************************************************************************)

Data == [token : Nat, limboFree : Nat]
Resolution == [key : Doc, received : BOOLEAN]
Engine == [listening : BOOLEAN, documents : SUBSET Doc, synced : SUBSET Doc,
           current : BOOLEAN, limbo : SUBSET Doc, data : Data,
           byKey : PFun(Doc, LimboTarget), resolutions : PFun(LimboTarget, Resolution),
           enqueued : Seq(Doc)]

ChangeType == {"added", "modified", "removed"}
TargetState == [outstanding : Int, current : BOOLEAN, pending : BOOLEAN, token : Nat,
                changes : PFun(Doc, ChangeType)]
TargetData == [token : Nat, docs : SUBSET Doc]
OnlineState == [state : {"Unknown", "Online", "Offline"}, failures : Nat, timer : BOOLEAN]
Requests == [type : {"watch", "unwatch"}, target : Target, token : Nat, docs : SUBSET Doc]
Remote == [listens : PFun(Target, TargetData), online : OnlineState,
           stream : {"off", "starting", "open"}, idle : BOOLEAN, requests : Seq(Requests),
           states : PFun(Target, TargetState), updates : PFun(Doc, Level), resets : BOOLEAN]

Client == [engine : Engine, remote : Remote]

Disk == [cache : [Doc -> [level : Level, read : 0..MaxVersion]], keys : SUBSET Doc,
         saved : Data, lastSnapshot : Nat]

Message ==
    [type : {"added", "removed", "reset", "error"}, target : Target]
    \cup [type : {"current"}, target : Target, version : Nat]
    \cup [type : {"snapshot"}, target : {-1}, version : Nat]
    \cup [type : {"filter"}, target : Target, count : Nat]
    \cup [type : {"document"}, target : Target, doc : Doc, level : Level, belongs : BOOLEAN,
          values : {{}} \cup {{l} : l \in Level}]

\* RemoteStore listens to what SyncEngine knows of, and a limbo target is
\* about the key of its resolution.
Linked(c) ==
    /\ DOMAIN c.remote.listens =
          DOMAIN c.engine.resolutions \cup (IF c.engine.listening THEN {Query} ELSE {})
    /\ \A d \in DOMAIN c.engine.byKey :
          /\ c.engine.byKey[d] \in DOMAIN c.engine.resolutions
          /\ c.engine.resolutions[c.engine.byKey[d]].key = d
    /\ \A t \in DOMAIN c.engine.resolutions :
          c.remote.listens[t].docs = {c.engine.resolutions[t].key}

Fit == {c \in Client : Linked(c)}

LEMMA Targets ==
    /\ Query \in Target /\ LimboTarget \in SUBSET Target /\ Query \notin LimboTarget
    /\ \A t \in Target : t \in Nat /\ (t # Query => t \in LimboTarget)
BY FirestoreWatchAssumption DEF Query, Target

LEMMA Levels ==
    /\ Absent \in Level /\ Matching \in Level /\ Deleted \in Level /\ Other \in Level
    /\ Level \in SUBSET Nat
BY DEF Absent, Matching, Other, Deleted, Level

LEMMA EmptyIs == Empty = <<>> /\ DOMAIN Empty = {}
BY DEF Empty

LEMMA FirstRemoteIs == FirstRemote \in Remote
<1>1. Empty \in PFun(Target, TargetData) /\ Empty \in PFun(Target, TargetState)
      /\ Empty \in PFun(Doc, Level)
    BY EmptyPFun
<1>2. QED
    BY <1>1 DEF FirstRemote, Remote, Online, OnlineState

LEMMA CleanUpIs ==
    ASSUME NEW r \in Remote
    PROVE  /\ CleanUp(r) \in Remote
           /\ CleanUp(r).listens = r.listens /\ CleanUp(r).online = r.online
           /\ CleanUp(r).stream = "off" /\ ~CleanUp(r).idle
           /\ CleanUp(r).requests = <<>> /\ CleanUp(r).states = Empty
BY FirstRemoteIs DEF CleanUp, FirstRemote, Remote

LEMMA FirstEngineIs == FirstEngine \in Engine
<1>1. Empty \in PFun(Doc, LimboTarget) /\ Empty \in PFun(LimboTarget, Resolution)
    BY EmptyPFun
<1>2. QED
    BY <1>1 DEF FirstEngine, Engine, NoData, Data

LEMMA StateOfIs ==
    ASSUME NEW r \in Remote, NEW t
    PROVE  StateOf(r, t) \in TargetState
<1>1. Empty \in PFun(Doc, ChangeType)
    BY EmptyPFun
<1>2. r.states \in PFun(Target, TargetState)
    BY DEF Remote
<1>3. t \in DOMAIN r.states => r.states[t] \in TargetState
    BY <1>2, PFunIs
<1>4. NewTargetState \in TargetState
    BY <1>1 DEF NewTargetState, TargetState
<1>5. QED
    BY <1>3, <1>4 DEF StateOf

\* What RemoteStore does to one target's state, whatever the state becomes.
LEMMA StateChanged ==
    ASSUME NEW r \in Remote, NEW t \in Target, NEW x \in TargetState
    PROVE  With(r.states, t, x) \in PFun(Target, TargetState)
BY WithIs DEF Remote

LEMMA SendIs ==
    ASSUME NEW r \in Remote, NEW q \in Requests
    PROVE  /\ Send(r, q) \in Remote
           /\ Send(r, q).listens = r.listens
           /\ Send(r, q).stream = r.stream /\ Send(r, q).online = r.online
           /\ ~Send(r, q).idle
           /\ Send(r, q).requests = Append(r.requests, q)
           /\ DOMAIN Send(r, q).states = DOMAIN r.states \cup {q.target}
<1>1. q.target \in Target /\ r.states \in PFun(Target, TargetState) /\ r.requests \in Seq(Requests)
    BY DEF Remote, Requests
<1>2. StateOf(r, q.target) \in TargetState
    BY StateOfIs
<1> DEFINE x == [StateOf(r, q.target) EXCEPT !.outstanding = @ + 1]
<1>3. x \in TargetState
    BY <1>2 DEF TargetState
<1>4. Send(r, q) = [r EXCEPT !.requests = Append(r.requests, q), !.idle = FALSE,
                             !.states = With(r.states, q.target, x)]
    BY DEF Send
<1> HIDE DEF x
<1>5. /\ With(r.states, q.target, x) \in PFun(Target, TargetState)
      /\ DOMAIN With(r.states, q.target, x) = DOMAIN r.states \cup {q.target}
    BY <1>1, <1>3, WithIs DEF With
<1>6. Append(r.requests, q) \in Seq(Requests)
    BY <1>1
<1>7. QED
    BY <1>4, <1>5, <1>6 DEF Remote

LEMMA StartWatchStreamIs ==
    ASSUME NEW r \in Remote
    PROVE  /\ StartWatchStream(r) \in Remote
           /\ StartWatchStream(r).listens = r.listens
           /\ StartWatchStream(r).stream = "starting"
           /\ StartWatchStream(r).requests = r.requests
           /\ StartWatchStream(r).states = r.states
           /\ StartWatchStream(r).idle = r.idle
BY DEF StartWatchStream, HandleWatchStreamStart, Remote, OnlineState

LEMMA RequestIs ==
    ASSUME NEW type \in {"watch", "unwatch"}, NEW t \in Target, NEW data \in TargetData
    PROVE  /\ Request(type, t, data) \in Requests
           /\ Request(type, t, data).type = type /\ Request(type, t, data).target = t
           /\ Request(type, t, data).docs = data.docs
BY DEF Request, Requests, TargetData

LEMMA ListenToIs ==
    ASSUME NEW r \in Remote, NEW t \in Target, NEW data \in TargetData
    PROVE  /\ ListenTo(r, t, data) \in Remote
           /\ ListenTo(r, t, data).listens = With(r.listens, t, data)
           /\ ListenTo(r, t, data).stream = IF r.stream = "off" THEN "starting" ELSE r.stream
<1> DEFINE l == [r EXCEPT !.listens = With(@, t, data)]
<1>1. With(r.listens, t, data) \in PFun(Target, TargetData)
    BY WithIs DEF Remote
<1>2. l \in Remote /\ l.listens = With(r.listens, t, data) /\ l.stream = r.stream
    BY <1>1 DEF Remote
<1>3. ListenTo(r, t, data) = CASE r.stream = "off"  -> StartWatchStream(l)
          [] r.stream = "open" -> Send(l, Request("watch", t, data))
          [] OTHER             -> l
    BY DEF ListenTo
<1> HIDE DEF l
<1>4. Request("watch", t, data) \in Requests
    BY RequestIs
<1>5. Send(l, Request("watch", t, data)) \in Remote
      /\ Send(l, Request("watch", t, data)).listens = l.listens
      /\ Send(l, Request("watch", t, data)).stream = l.stream
    BY <1>2, <1>4, SendIs
<1>6. QED
    BY <1>2, <1>3, <1>5, StartWatchStreamIs

LEMMA StopListeningToIs ==
    ASSUME NEW r \in Remote, NEW t \in DOMAIN r.listens
    PROVE  /\ StopListeningTo(r, t) \in Remote
           /\ StopListeningTo(r, t).listens = Drop(r.listens, t)
           /\ StopListeningTo(r, t).stream = r.stream
<1>1. r.listens \in PFun(Target, TargetData) /\ t \in Target /\ r.listens[t] \in TargetData
    <2>1. r.listens \in PFun(Target, TargetData)
        BY DEF Remote
    <2>2. QED
        BY <2>1, PFunIs
<1> DEFINE s == [r EXCEPT !.listens = Drop(@, t)]
           told == IF r.stream = "open" THEN Send(s, Request("unwatch", t, r.listens[t])) ELSE s
<1>2. Drop(r.listens, t) \in PFun(Target, TargetData)
    BY <1>1, DropIs
<1>3. s \in Remote /\ s.listens = Drop(r.listens, t) /\ s.stream = r.stream
    BY <1>2 DEF Remote
<1>4. StopListeningTo(r, t) =
        IF told.listens # Empty THEN told
        ELSE IF r.stream = "open" THEN [told EXCEPT !.idle = TRUE]
        ELSE [told EXCEPT !.online = Online("Unknown")]
    BY DEF StopListeningTo
<1> HIDE DEF s
<1>5. Request("unwatch", t, r.listens[t]) \in Requests
    BY <1>1, RequestIs
<1>6. told \in Remote /\ told.listens = Drop(r.listens, t) /\ told.stream = r.stream
    BY <1>3, <1>5, SendIs
<1> HIDE DEF told
<1>7. Online("Unknown") \in OnlineState
    BY DEF Online, OnlineState
<1>8. QED
    BY <1>4, <1>6, <1>7 DEF Remote

(***************************************************************************)
(* Limbo resolutions.                                                      *)
(***************************************************************************)

\* A fresh id can be found, and nothing refers to it.
LEMMA NextIdIs ==
    ASSUME ~IsFiniteSet(LimboTarget), wire \in Seq(Message), NEW c \in Client
    PROVE  /\ NextId(c) \in LimboTarget
           /\ NextId(c) \notin DOMAIN c.engine.resolutions
           /\ NextId(c) \notin DOMAIN c.remote.states
           /\ \A i \in DOMAIN wire : wire[i].target # NextId(c)
<1> DEFINE S == {wire[i].target : i \in 1..Len(wire)}
           g == [i \in 1..Len(wire) |-> wire[i].target]
           U == (DOMAIN c.engine.resolutions \cup DOMAIN c.remote.states) \cup S
<1>1. Len(wire) \in Nat /\ DOMAIN wire = 1..Len(wire)
    OBVIOUS
<1>2. IsFiniteSet(S)
    <2>1. 1 \in Int /\ Len(wire) \in Int
        BY <1>1
    <2>2. IsFiniteSet(1..Len(wire))
        BY <2>1, FS_Interval
    <2>3. g \in Surjection(1..Len(wire), S)
        <3>1. g \in [1..Len(wire) -> S] /\ \A x \in S : \E i \in 1..Len(wire) : g[i] = x
            OBVIOUS
        <3>2. QED
            BY <3>1, Fun_IsSurj
    <2>4. QED
        BY <2>2, <2>3, FS_Surjection
<1>3. IsFiniteSet(DOMAIN c.engine.resolutions) /\ IsFiniteSet(DOMAIN c.remote.states)
    <2>1. /\ c.engine.resolutions \in PFun(LimboTarget, Resolution)
          /\ c.remote.states \in PFun(Target, TargetState)
        BY DEF Client, Engine, Remote
    <2>2. QED
        BY <2>1, PFunIs
<1>4. IsFiniteSet(U)
    BY <1>2, <1>3, FS_Union
<1>5. FreshIds(c) = LimboTarget \ U
    BY <1>1 DEF FreshIds
<1> HIDE DEF U, S
<1>6. FreshIds(c) # {}
    <2>1. FreshIds(c) = {} => LimboTarget \in SUBSET U
        BY <1>5
    <2>2. QED
        BY <1>4, <2>1, FS_Subset
<1>7. FreshIds(c) \in SUBSET Nat
    BY <1>5, FirestoreWatchAssumption
<1>8. \E x \in FreshIds(c) : \A y \in FreshIds(c) : x <= y
    BY <1>6, <1>7, LeastNumber
<1>9. NextId(c) \in FreshIds(c)
    BY <1>8, Zenon DEF NextId, Min
<1>10. QED
    BY <1>9 DEF FreshIds

\* A new limbo target: both sides know it.
LEMMA LinkNew ==
    ASSUME NEW e \in Engine, NEW r \in Remote, Linked([engine |-> e, remote |-> r]),
           NEW id \in LimboTarget, id \notin DOMAIN e.resolutions, NEW d \in Doc,
           NEW q \in Engine, NEW p \in Remote,
           q.resolutions = With(e.resolutions, id, [key |-> d, received |-> FALSE]),
           q.byKey = IF d \in DOMAIN e.byKey THEN e.byKey ELSE With(e.byKey, d, id),
           q.listening = e.listening,
           p.listens = With(r.listens, id, [token |-> 0, docs |-> {d}])
    PROVE  Linked([engine |-> q, remote |-> p])
<1>1. /\ e.resolutions \in PFun(LimboTarget, Resolution) /\ e.byKey \in PFun(Doc, LimboTarget)
      /\ r.listens \in PFun(Target, TargetData)
      /\ [key |-> d, received |-> FALSE] \in Resolution
      /\ [token |-> 0, docs |-> {d}] \in TargetData
      /\ id \in Target /\ id # Query
    BY Targets DEF Engine, Remote, Resolution, TargetData
<1>2. /\ DOMAIN q.resolutions = DOMAIN e.resolutions \cup {id}
      /\ q.resolutions[id].key = d
      /\ \A t \in DOMAIN e.resolutions : t # id => q.resolutions[t] = e.resolutions[t]
    BY DEF With
<1>3. /\ DOMAIN p.listens = DOMAIN r.listens \cup {id}
      /\ p.listens[id].docs = {d}
      /\ \A t \in DOMAIN r.listens : t # id => p.listens[t] = r.listens[t]
    BY DEF With
<1>4. /\ DOMAIN q.byKey = DOMAIN e.byKey \cup {d}
      /\ \A x \in DOMAIN e.byKey : q.byKey[x] = e.byKey[x]
      /\ d \notin DOMAIN e.byKey => q.byKey[d] = id
    BY DEF With
<1>5. /\ DOMAIN r.listens = DOMAIN e.resolutions \cup (IF e.listening THEN {Query} ELSE {})
      /\ \A x \in DOMAIN e.byKey :
            e.byKey[x] \in DOMAIN e.resolutions /\ e.resolutions[e.byKey[x]].key = x
      /\ \A t \in DOMAIN e.resolutions : r.listens[t].docs = {e.resolutions[t].key}
    BY DEF Linked
<1>6. DOMAIN p.listens = DOMAIN q.resolutions \cup (IF q.listening THEN {Query} ELSE {})
    BY <1>2, <1>3, <1>5
<1>7. ASSUME NEW t \in DOMAIN q.resolutions
      PROVE  /\ q.resolutions[t].key = IF t = id THEN d ELSE e.resolutions[t].key
             /\ p.listens[t].docs = IF t = id THEN {d} ELSE r.listens[t].docs
             /\ t = id \/ t \in DOMAIN e.resolutions
    <2>1. CASE t = id
        BY <1>2, <1>3, <2>1
    <2>2. CASE t # id
        <3>1. t \in DOMAIN e.resolutions /\ t \in DOMAIN r.listens
            BY <1>2, <1>5, <2>2
        <3>2. QED
            BY <1>2, <1>3, <2>2, <3>1
    <2>3. QED
        BY <2>1, <2>2
<1>8. \A x \in DOMAIN q.byKey :
         q.byKey[x] \in DOMAIN q.resolutions /\ q.resolutions[q.byKey[x]].key = x
    <2> TAKE x \in DOMAIN q.byKey
    <2>1. CASE x \in DOMAIN e.byKey
        <3>1. /\ q.byKey[x] \in DOMAIN e.resolutions /\ q.byKey[x] # id
              /\ e.resolutions[q.byKey[x]].key = x
            BY <1>4, <1>5, <2>1
        <3>2. QED
            BY <1>2, <1>7, <3>1
    <2>2. CASE x \notin DOMAIN e.byKey
        <3>1. x = d /\ q.byKey[x] = id
            BY <1>4, <2>2
        <3>2. QED
            BY <1>2, <1>7, <3>1
    <2>3. QED
        BY <2>1, <2>2
<1>9. \A t \in DOMAIN q.resolutions : p.listens[t].docs = {q.resolutions[t].key}
    BY <1>5, <1>7
<1>10. QED
    BY <1>6, <1>8, <1>9 DEF Linked

LEMMA LinkDrop ==
    ASSUME NEW e \in Engine, NEW r \in Remote, Linked([engine |-> e, remote |-> r]),
           NEW id \in DOMAIN e.resolutions,
           NEW q \in Engine, NEW p \in Remote,
           q.resolutions = Drop(e.resolutions, id),
           q.byKey = Drop(e.byKey, e.resolutions[id].key),
           q.listening = e.listening,
           p.listens = Drop(r.listens, id)
    PROVE  Linked([engine |-> q, remote |-> p])
<1>1. /\ e.resolutions \in PFun(LimboTarget, Resolution) /\ e.byKey \in PFun(Doc, LimboTarget)
      /\ r.listens \in PFun(Target, TargetData)
    BY DEF Engine, Remote
<1>2. /\ DOMAIN q.resolutions = DOMAIN e.resolutions \ {id}
      /\ \A t \in DOMAIN e.resolutions : t # id => q.resolutions[t] = e.resolutions[t]
    BY DEF Drop
<1>3. /\ DOMAIN p.listens = DOMAIN r.listens \ {id}
      /\ \A t \in DOMAIN r.listens : t # id => p.listens[t] = r.listens[t]
    BY DEF Drop
<1>4. /\ DOMAIN q.byKey = DOMAIN e.byKey \ {e.resolutions[id].key}
      /\ \A x \in DOMAIN q.byKey : q.byKey[x] = e.byKey[x]
    BY DEF Drop
<1>5. /\ DOMAIN r.listens = DOMAIN e.resolutions \cup (IF e.listening THEN {Query} ELSE {})
      /\ \A x \in DOMAIN e.byKey :
            e.byKey[x] \in DOMAIN e.resolutions /\ e.resolutions[e.byKey[x]].key = x
      /\ \A t \in DOMAIN e.resolutions : r.listens[t].docs = {e.resolutions[t].key}
    BY DEF Linked
<1>6. id # Query
    BY <1>1, PFunIs, Targets
<1>7. DOMAIN p.listens = DOMAIN q.resolutions \cup (IF q.listening THEN {Query} ELSE {})
    BY <1>2, <1>3, <1>5, <1>6
<1>8. \A x \in DOMAIN q.byKey :
         q.byKey[x] \in DOMAIN q.resolutions /\ q.resolutions[q.byKey[x]].key = x
    BY <1>2, <1>4, <1>5
<1>9. \A t \in DOMAIN q.resolutions : p.listens[t].docs = {q.resolutions[t].key}
    BY <1>2, <1>3, <1>5
<1>10. QED
    BY <1>7, <1>8, <1>9 DEF Linked

LEMMA FitIs ==
    ASSUME NEW c
    PROVE  c \in Fit <=> /\ c \in Client /\ c.engine \in Engine /\ c.remote \in Remote
                         /\ Linked([engine |-> c.engine, remote |-> c.remote])
BY DEF Fit, Client, Linked

LEMMA MakeFit ==
    ASSUME NEW e \in Engine, NEW r \in Remote, Linked([engine |-> e, remote |-> r])
    PROVE  [engine |-> e, remote |-> r] \in Fit
BY DEF Fit, Client

LEMMA PumpOneFits ==
    ASSUME ~IsFiniteSet(LimboTarget), wire \in Seq(Message), NEW c \in Fit
    PROVE  PumpOne(c) \in Fit
<1> DEFINE e == c.engine
           d == Head(e.enqueued)
           id == NextId(c)
           q == [e EXCEPT !.enqueued = Tail(@),
                          !.byKey = IF d \in DOMAIN @ THEN @ ELSE With(@, d, id),
                          !.resolutions = With(@, id, [key |-> d, received |-> FALSE])]
           p == ListenTo(c.remote, id, [token |-> 0, docs |-> {d}])
<1>1. c \in Client /\ e \in Engine /\ c.remote \in Remote
      /\ Linked([engine |-> e, remote |-> c.remote])
    BY FitIs
<1>2. PumpOne(c) = c \/ (e.enqueued # <<>> /\ PumpOne(c) = [engine |-> q, remote |-> p])
    BY DEF PumpOne
<1>3. ASSUME e.enqueued # <<>> PROVE [engine |-> q, remote |-> p] \in Fit
    <2>1. e.enqueued \in Seq(Doc) /\ e.byKey \in PFun(Doc, LimboTarget)
          /\ e.resolutions \in PFun(LimboTarget, Resolution)
        BY <1>1 DEF Engine
    <2>2. d \in Doc /\ Tail(e.enqueued) \in Seq(Doc)
        BY <1>3, <2>1
    <2>3. id \in LimboTarget /\ id \notin DOMAIN e.resolutions /\ id \in Target
        BY <1>1, NextIdIs, Targets
    <2> DEFINE b == IF d \in DOMAIN e.byKey THEN e.byKey ELSE With(e.byKey, d, id)
               s == With(e.resolutions, id, [key |-> d, received |-> FALSE])
    <2>4. b \in PFun(Doc, LimboTarget)
        BY <2>1, <2>2, <2>3, WithIs
    <2>5. s \in PFun(LimboTarget, Resolution)
        <3>1. [key |-> d, received |-> FALSE] \in Resolution
            BY <2>2 DEF Resolution
        <3>2. QED
            BY <2>1, <2>3, <3>1, WithIs
    <2>6. q = [e EXCEPT !.enqueued = Tail(e.enqueued), !.byKey = b, !.resolutions = s]
        OBVIOUS
    <2>7. [token |-> 0, docs |-> {d}] \in TargetData
        BY <2>2 DEF TargetData
    <2>8. p \in Remote /\ p.listens = With(c.remote.listens, id, [token |-> 0, docs |-> {d}])
        BY <1>1, <2>3, <2>7, ListenToIs
    <2> HIDE DEF b, s, d, id, e, p
    <2>9. q \in Engine /\ q.resolutions = s /\ q.byKey = b /\ q.listening = e.listening
        BY <1>1, <2>2, <2>4, <2>5, <2>6 DEF Engine
    <2> HIDE DEF q
    <2>10. Linked([engine |-> q, remote |-> p])
        BY <1>1, <2>2, <2>3, <2>8, <2>9, LinkNew DEF b, s
    <2>11. QED
        BY <2>8, <2>9, <2>10, MakeFit
<1>4. QED
    BY <1>2, <1>3

-----------------------------------------------------------------------------
(* What the loops of SyncEngine preserve: whatever each of their steps     *)
(* preserves.                                                              *)

\* The steps: a turn of the pump, a resolution that ends, and what changes
\* nothing but the queue or the limbo documents.
Freed(c, d) ==
    [engine |-> [c.engine EXCEPT !.byKey = Drop(@, d), !.resolutions = Drop(@, c.engine.byKey[d])],
     remote |-> StopListeningTo(c.remote, c.engine.byKey[d])]
Queued(c, s) == [engine |-> [c.engine EXCEPT !.enqueued = s], remote |-> c.remote]
InLimbo(c, l) == [engine |-> [c.engine EXCEPT !.limbo = l], remote |-> c.remote]

Closed(R) ==
    /\ \A c \in R : PumpOne(c) \in R
    /\ \A c \in R : \A d \in DOMAIN c.engine.byKey : Freed(c, d) \in R
    /\ \A c \in R : \A s \in Seq(Doc) : Queued(c, s) \in R
    /\ \A c \in R : \A l \in SUBSET Doc : InLimbo(c, l) \in R

LEMMA QueuedFits ==
    ASSUME NEW c \in Fit, NEW s \in Seq(Doc)
    PROVE  Queued(c, s) \in Fit
<1> DEFINE q == [c.engine EXCEPT !.enqueued = s]
<1>1. c.engine \in Engine /\ c.remote \in Remote
      /\ Linked([engine |-> c.engine, remote |-> c.remote])
    BY FitIs
<1>2. q \in Engine /\ Linked([engine |-> q, remote |-> c.remote])
    BY <1>1 DEF Linked, Engine
<1>3. QED
    BY <1>1, <1>2, MakeFit DEF Queued

LEMMA InLimboFits ==
    ASSUME NEW c \in Fit, NEW l \in SUBSET Doc
    PROVE  InLimbo(c, l) \in Fit
<1> DEFINE q == [c.engine EXCEPT !.limbo = l]
<1>1. c.engine \in Engine /\ c.remote \in Remote
      /\ Linked([engine |-> c.engine, remote |-> c.remote])
    BY FitIs
<1>2. q \in Engine /\ Linked([engine |-> q, remote |-> c.remote])
    BY <1>1 DEF Linked, Engine
<1>3. QED
    BY <1>1, <1>2, MakeFit DEF InLimbo

LEMMA FreedFits ==
    ASSUME NEW c \in Fit, NEW d \in DOMAIN c.engine.byKey
    PROVE  Freed(c, d) \in Fit
<1> DEFINE e == c.engine
           id == e.byKey[d]
           p == StopListeningTo(c.remote, id)
           q == [e EXCEPT !.byKey = Drop(@, d), !.resolutions = Drop(@, id)]
<1>1. e \in Engine /\ c.remote \in Remote /\ c \in Client
      /\ Linked([engine |-> e, remote |-> c.remote])
    BY FitIs
<1>2. id \in DOMAIN e.resolutions /\ e.resolutions[id].key = d /\ id \in DOMAIN c.remote.listens
    BY <1>1 DEF Linked
<1>3. /\ e.byKey \in PFun(Doc, LimboTarget) /\ e.resolutions \in PFun(LimboTarget, Resolution)
    BY <1>1 DEF Engine
<1>4. q \in Engine /\ q.byKey = Drop(e.byKey, d) /\ q.resolutions = Drop(e.resolutions, id)
      /\ q.listening = e.listening
    <2>1. /\ Drop(e.byKey, d) \in PFun(Doc, LimboTarget)
          /\ Drop(e.resolutions, id) \in PFun(LimboTarget, Resolution)
        BY <1>3, DropIs
    <2>2. QED
        BY <1>1, <2>1 DEF Engine
<1>5. p \in Remote /\ p.listens = Drop(c.remote.listens, id)
    BY <1>1, <1>2, StopListeningToIs
<1>6. Freed(c, d) = [engine |-> q, remote |-> p]
    BY DEF Freed
<1> HIDE DEF q, p, id
<1>7. Linked([engine |-> q, remote |-> p])
    BY <1>1, <1>2, <1>4, <1>5, LinkDrop
<1>8. QED
    BY <1>4, <1>5, <1>6, <1>7, MakeFit

LEMMA FitIsClosed ==
    ASSUME ~IsFiniteSet(LimboTarget), wire \in Seq(Message)
    PROVE  Closed(Fit)
BY PumpOneFits, QueuedFits, InLimboFits, FreedFits DEF Closed

LEMMA EnginePart ==
    ASSUME NEW c \in Client, NEW v
    PROVE  /\ [c EXCEPT !.engine.enqueued = v] =
                  [engine |-> [c.engine EXCEPT !.enqueued = v], remote |-> c.remote]
           /\ [c EXCEPT !.engine.limbo = v] =
                  [engine |-> [c.engine EXCEPT !.limbo = v], remote |-> c.remote]
BY DEF Client

LEMMA SortedDocs ==
    ASSUME NEW S \in SUBSET Doc
    PROVE  Ascending(S) \in Seq(Doc)
<1>1. S \in SUBSET Nat /\ IsFiniteSet(S)
    BY FirestoreWatchAssumption, FS_Subset
<1>2. Ascending(S) \in Seq(S)
    BY <1>1, AscendingSorts
<1>3. QED
    BY <1>2

LEMMA PumpStays ==
    ASSUME NEW R \in SUBSET Fit, Closed(R), NEW c \in R
    PROVE  PumpEnqueuedLimboResolutions(c) \in R
<1>1. c.engine.enqueued \in Seq(Doc)
    BY FitIs DEF Engine
<1>2. \A x \in R, d \in Doc : PumpOne(x) \in R
    BY DEF Closed
<1>3. QED
    BY <1>1, <1>2, PumpLoop DEF PumpEnqueuedLimboResolutions

LEMMA TrackStays ==
    ASSUME NEW R \in SUBSET Fit, Closed(R), NEW c \in R, NEW d \in Doc
    PROVE  TrackLimboChange(c, d) \in R
<1>1. c \in Client /\ c.engine \in Engine /\ c.engine.enqueued \in Seq(Doc)
    BY FitIs DEF Engine
<1>2. Append(c.engine.enqueued, d) \in Seq(Doc)
    BY <1>1
<1>3. [c EXCEPT !.engine.enqueued = Append(@, d)] = Queued(c, Append(c.engine.enqueued, d))
    BY <1>1, EnginePart DEF Queued
<1>4. Queued(c, Append(c.engine.enqueued, d)) \in R
    BY <1>2 DEF Closed
<1>5. QED
    BY <1>3, <1>4, PumpStays DEF TrackLimboChange

LEMMA RemoveStays ==
    ASSUME NEW R \in SUBSET Fit, Closed(R), NEW c \in R, NEW d \in Doc
    PROVE  RemoveLimboTarget(c, d) \in R
<1>1. CASE d \notin DOMAIN c.engine.byKey
    BY <1>1 DEF RemoveLimboTarget
<1>2. CASE d \in DOMAIN c.engine.byKey
    <2>1. RemoveLimboTarget(c, d) = PumpEnqueuedLimboResolutions(Freed(c, d))
        BY <1>2 DEF RemoveLimboTarget, Freed
    <2>2. Freed(c, d) \in R
        BY <1>2 DEF Closed
    <2>3. QED
        BY <2>1, <2>2, PumpStays
<1>3. QED
    BY <1>1, <1>2

LEMMA RemoveAllStays ==
    ASSUME NEW R \in SUBSET Fit, Closed(R), NEW c \in R, NEW S \in SUBSET Doc
    PROVE  FoldLeft(RemoveLimboTarget, c, Ascending(S)) \in R
<1>1. Ascending(S) \in Seq(Doc)
    BY SortedDocs
<1>2. \A x \in R, d \in Doc : RemoveLimboTarget(x, d) \in R
    BY RemoveStays
<1>3. QED
    BY <1>1, <1>2, RemoveLoop

LEMMA UpdateLimboStays ==
    ASSUME NEW R \in SUBSET Fit, Closed(R), NEW c \in R
    PROVE  UpdateLimbo(c) \in R
<1> DEFINE old == c.engine.limbo
           new == c.engine.documents \ c.engine.synced
           first == [c EXCEPT !.engine.limbo = new]
           fewer == FoldLeft(RemoveLimboTarget, first, Ascending(old \ new))
<1>1. c.engine \in Engine /\ c \in Client
    BY FitIs
<1>2. old \in SUBSET Doc /\ new \in SUBSET Doc
    BY <1>1 DEF Engine
<1>3. first = InLimbo(c, new)
    BY <1>1, EnginePart DEF InLimbo
<1>4. first \in R
    BY <1>2, <1>3 DEF Closed
<1> HIDE DEF first
<1>5. fewer \in R
    <2>1. old \ new \in SUBSET Doc
        BY <1>2
    <2> HIDE DEF old, new
    <2>2. QED
        BY <1>4, <2>1, RemoveAllStays
<1>6. Ascending(new \ old) \in Seq(Doc)
    BY <1>2, SortedDocs
<1> HIDE DEF fewer
<1>7. \A x \in R, d \in Doc : TrackLimboChange(x, d) \in R
    BY TrackStays
<1>8. FoldLeft(TrackLimboChange, fewer, Ascending(new \ old)) \in R
    BY <1>5, <1>6, <1>7, TrackLoop
<1>9. QED
    BY <1>8 DEF UpdateLimbo, fewer, first

LEMMA CleanupStays ==
    ASSUME NEW R \in SUBSET Fit, Closed(R), NEW c \in Client,
           [engine |-> WithoutView(c.engine), remote |-> c.remote] \in R
    PROVE  CleanupTarget(c) \in R
<1>1. [c EXCEPT !.engine = WithoutView(@)] = [engine |-> WithoutView(c.engine), remote |-> c.remote]
    BY DEF Client
<1>2. c.engine.limbo \in SUBSET Doc
    BY DEF Client, Engine
<1>3. QED
    BY <1>1, <1>2, RemoveAllStays DEF CleanupTarget

LEMMA PumpFits ==
    ASSUME ~IsFiniteSet(LimboTarget), wire \in Seq(Message), NEW c \in Fit
    PROVE  PumpEnqueuedLimboResolutions(c) \in Fit
BY FitIsClosed, PumpStays

LEMMA UpdateLimboFits ==
    ASSUME ~IsFiniteSet(LimboTarget), wire \in Seq(Message), NEW c \in Fit
    PROVE  UpdateLimbo(c) \in Fit
BY FitIsClosed, UpdateLimboStays

LEMMA CleanupFits ==
    ASSUME ~IsFiniteSet(LimboTarget), wire \in Seq(Message), NEW c \in Client,
           Linked([engine |-> WithoutView(c.engine), remote |-> c.remote])
    PROVE  CleanupTarget(c) \in Fit
<1>1. c.engine \in Engine /\ c.remote \in Remote
    BY DEF Client
<1>2. WithoutView(c.engine) \in Engine
    BY <1>1, FirstEngineIs DEF WithoutView, FirstEngine, Engine
<1>3. [engine |-> WithoutView(c.engine), remote |-> c.remote] \in Fit
    BY <1>1, <1>2, MakeFit
<1>4. QED
    BY <1>3, FitIsClosed, CleanupStays

(***************************************************************************)
(* The aggregator.                                                         *)
(***************************************************************************)

\* What the messages of the stream leave alone.
Kept(p, r) ==
    /\ p.listens = r.listens /\ p.online = r.online /\ p.stream = r.stream
    /\ p.idle = r.idle /\ p.requests = r.requests

LEMMA ResolutionIs ==
    ASSUME NEW e \in Engine, NEW t \in DOMAIN e.resolutions
    PROVE  /\ e.resolutions[t] \in Resolution /\ t \in LimboTarget
           /\ e.resolutions[t].key \in Doc /\ e.resolutions[t].received \in BOOLEAN
<1>1. e.resolutions \in PFun(LimboTarget, Resolution)
    BY DEF Engine
<1>2. e.resolutions[t] \in Resolution /\ t \in LimboTarget
    BY <1>1, PFunIs
<1>3. QED
    BY <1>2 DEF Resolution

LEMMA RemoteKeysIs ==
    ASSUME NEW e \in Engine, NEW t
    PROVE  RemoteKeys(e, t) \in SUBSET Doc
<1>1. e.synced \in SUBSET Doc
    BY DEF Engine
<1>2. \A x \in DOMAIN e.resolutions : e.resolutions[x].key \in Doc
    BY ResolutionIs
<1>3. QED
    BY <1>1, <1>2 DEF RemoteKeys

LEMMA ChangesIs ==
    ASSUME NEW x \in TargetState
    PROVE  x.changes \in PFun(Doc, ChangeType)
BY DEF TargetState

\* A target's state is replaced.
LEMMA StatesKept ==
    ASSUME NEW r \in Remote, NEW s \in PFun(Target, TargetState)
    PROVE  /\ [r EXCEPT !.states = s] \in Remote
           /\ Kept([r EXCEPT !.states = s], r)
           /\ [r EXCEPT !.states = s].states = s
           /\ [r EXCEPT !.states = s].updates = r.updates
           /\ [r EXCEPT !.states = s].resets = r.resets
BY DEF Remote, Kept

LEMMA StatesUpdatesKept ==
    ASSUME NEW r \in Remote, NEW s \in PFun(Target, TargetState), NEW u \in PFun(Doc, Level)
    PROVE  /\ [r EXCEPT !.states = s, !.updates = u] \in Remote
           /\ Kept([r EXCEPT !.states = s, !.updates = u], r)
           /\ [r EXCEPT !.states = s, !.updates = u].states = s
           /\ [r EXCEPT !.states = s, !.updates = u].updates = u
           /\ [r EXCEPT !.states = s, !.updates = u].resets = r.resets
BY DEF Remote, Kept

LEMMA AddDocumentIs ==
    ASSUME NEW r \in Remote, NEW t \in Target, NEW d \in Doc, NEW level \in Level
    PROVE  AddDocument(r, t, d, level) \in Remote /\ Kept(AddDocument(r, t, d, level), r)
<1> DEFINE type == IF d \in RemoteKeys(engine, t) THEN "modified" ELSE "added"
           x == [StateOf(r, t) EXCEPT !.pending = TRUE, !.changes = With(@, d, type)]
<1>1. StateOf(r, t) \in TargetState
    BY StateOfIs
<1>2. With(StateOf(r, t).changes, d, type) \in PFun(Doc, ChangeType)
    <2>1. type \in ChangeType
        BY DEF ChangeType
    <2> HIDE DEF type
    <2>2. StateOf(r, t).changes \in PFun(Doc, ChangeType)
        BY <1>1, ChangesIs
    <2>3. QED
        BY <2>1, <2>2, WithIs
<1>3. x \in TargetState
    BY <1>1, <1>2 DEF TargetState
<1>4. With(r.states, t, x) \in PFun(Target, TargetState)
    BY <1>3, StateChanged
<1>5. With(r.updates, d, level) \in PFun(Doc, Level)
    BY WithIs DEF Remote
<1>6. AddDocument(r, t, d, level) =
         IF ~IsActive(r, t) THEN r
         ELSE [r EXCEPT !.states = With(r.states, t, x), !.updates = With(r.updates, d, level)]
    BY DEF AddDocument
<1> HIDE DEF x
<1>7. CASE ~IsActive(r, t)
    BY <1>6, <1>7 DEF Kept
<1>8. CASE IsActive(r, t)
    <2> DEFINE p == [r EXCEPT !.states = With(r.states, t, x), !.updates = With(r.updates, d, level)]
    <2>1. p \in Remote /\ Kept(p, r)
        BY <1>4, <1>5, StatesUpdatesKept
    <2>2. AddDocument(r, t, d, level) = p
        BY <1>6, <1>8
    <2>3. QED
        BY <2>1, <2>2, Zenon
<1>9. QED
    BY <1>7, <1>8

LEMMA RemoveDocumentIs ==
    ASSUME NEW r \in Remote, NEW t \in Target, NEW d \in Doc, NEW values \in SUBSET Level
    PROVE  RemoveDocument(r, t, d, values) \in Remote /\ Kept(RemoveDocument(r, t, d, values), r)
<1> DEFINE y == IF d \in RemoteKeys(engine, t) THEN With(StateOf(r, t).changes, d, "removed")
                ELSE Drop(StateOf(r, t).changes, d)
           x == [StateOf(r, t) EXCEPT !.pending = TRUE, !.changes = y]
           u == IF values = {} THEN r.updates
                ELSE With(r.updates, d, CHOOSE v \in values : TRUE)
<1>1. StateOf(r, t) \in TargetState /\ StateOf(r, t).changes \in PFun(Doc, ChangeType)
    BY StateOfIs, ChangesIs
<1>2. y \in PFun(Doc, ChangeType)
    <2>1. "removed" \in ChangeType
        BY DEF ChangeType
    <2>2. /\ With(StateOf(r, t).changes, d, "removed") \in PFun(Doc, ChangeType)
          /\ Drop(StateOf(r, t).changes, d) \in PFun(Doc, ChangeType)
        BY <1>1, <2>1, WithIs, DropIs
    <2>3. QED
        BY <2>2
<1>3. RemoveDocument(r, t, d, values) =
         IF ~IsActive(r, t) THEN r
         ELSE [r EXCEPT !.states = With(r.states, t, x), !.updates = u]
    BY DEF RemoveDocument
<1> HIDE DEF y
<1>4. x \in TargetState
    BY <1>1, <1>2 DEF TargetState
<1> HIDE DEF x
<1>5. With(r.states, t, x) \in PFun(Target, TargetState)
    BY <1>4, StateChanged
<1>6. u \in PFun(Doc, Level)
    <2>1. r.updates \in PFun(Doc, Level)
        BY DEF Remote
    <2>2. values # {} => (CHOOSE v \in values : TRUE) \in Level
        OBVIOUS
    <2>3. QED
        BY <2>1, <2>2, WithIs
<1> HIDE DEF u
<1>7. CASE ~IsActive(r, t)
    BY <1>3, <1>7 DEF Kept
<1>8. CASE IsActive(r, t)
    <2> DEFINE p == [r EXCEPT !.states = With(r.states, t, x), !.updates = u]
    <2>1. p \in Remote /\ Kept(p, r)
        BY <1>5, <1>6, StatesUpdatesKept
    <2>2. RemoveDocument(r, t, d, values) = p
        BY <1>3, <1>8
    <2>3. QED
        BY <2>1, <2>2, Zenon
<1>9. QED
    BY <1>7, <1>8

LEMMA ResetTargetIs ==
    ASSUME NEW r \in Remote, NEW t \in Target, engine \in Engine
    PROVE  ResetTarget(r, t) \in Remote /\ Kept(ResetTarget(r, t), r)
<1> DEFINE b == [r EXCEPT !.states = With(@, t, NewTargetState)]
           R == {p \in Remote : Kept(p, r)}
<1>1. NewTargetState \in TargetState
    <2>1. Empty \in PFun(Doc, ChangeType)
        BY EmptyPFun
    <2>2. QED
        BY <2>1 DEF NewTargetState, TargetState
<1>2. b \in R
    BY <1>1, StateChanged, StatesKept
<1>3. Ascending(RemoteKeys(engine, t)) \in Seq(Doc)
    BY RemoteKeysIs, SortedDocs
<1>4. \A p \in R, d \in Doc : RemoveDocument(p, t, d, {}) \in R
    BY RemoveDocumentIs DEF Kept
<1> HIDE DEF b, R
<1>5. ResetTarget(r, t) \in R
    BY <1>2, <1>3, <1>4, ResetLoop DEF b
<1>6. QED
    BY <1>5 DEF R

LEMMA HandleTargetAddedIs ==
    ASSUME NEW r \in Remote, NEW t \in Target
    PROVE  HandleTargetAdded(r, t) \in Remote /\ Kept(HandleTargetAdded(r, t), r)
<1> DEFINE x == Answered(r, t)
           y == IF x.outstanding # 0 THEN x ELSE [x EXCEPT !.pending = FALSE, !.changes = Empty]
<1>1. x \in TargetState
    BY StateOfIs DEF Answered, TargetState
<1>2. Empty \in PFun(Doc, ChangeType)
    BY EmptyPFun
<1>3. y \in TargetState
    BY <1>1, <1>2 DEF TargetState
<1>4. HandleTargetAdded(r, t) = [r EXCEPT !.states = With(r.states, t, y)]
    BY DEF HandleTargetAdded
<1> HIDE DEF y
<1>5. QED
    BY <1>3, <1>4, StateChanged, StatesKept

LEMMA HandleTargetRemovedIs ==
    ASSUME NEW r \in Remote, NEW t \in Target
    PROVE  HandleTargetRemoved(r, t) \in Remote /\ Kept(HandleTargetRemoved(r, t), r)
<1> DEFINE x == Answered(r, t)
           s == IF x.outstanding # 0 THEN With(r.states, t, x) ELSE Drop(r.states, t)
<1>1. x \in TargetState
    BY StateOfIs DEF Answered, TargetState
<1>2. s \in PFun(Target, TargetState)
    <2>1. With(r.states, t, x) \in PFun(Target, TargetState)
        BY <1>1, StateChanged
    <2>2. Drop(r.states, t) \in PFun(Target, TargetState)
        BY DropIs DEF Remote
    <2>3. QED
        BY <2>1, <2>2
<1>3. HandleTargetRemoved(r, t) = [r EXCEPT !.states = s]
    BY DEF HandleTargetRemoved
<1> HIDE DEF s
<1>4. QED
    BY <1>2, <1>3, StatesKept

LEMMA UpdateResumeTokenIs ==
    ASSUME NEW x \in TargetState, NEW token \in Nat
    PROVE  UpdateResumeToken(x, token) \in TargetState
BY DEF UpdateResumeToken, TargetState

LEMMA HandleTargetCurrentIs ==
    ASSUME NEW r \in Remote, NEW t \in Target, NEW token \in Nat
    PROVE  HandleTargetCurrent(r, t, token) \in Remote /\ Kept(HandleTargetCurrent(r, t, token), r)
<1> DEFINE x == [StateOf(r, t) EXCEPT !.current = TRUE, !.pending = TRUE]
<1>1. x \in TargetState
    BY StateOfIs DEF TargetState
<1>2. HandleTargetCurrent(r, t, token) =
         IF IsActive(r, t) THEN [r EXCEPT !.states = With(r.states, t, UpdateResumeToken(x, token))]
         ELSE r
    BY DEF HandleTargetCurrent
<1> HIDE DEF x
<1>3. With(r.states, t, UpdateResumeToken(x, token)) \in PFun(Target, TargetState)
    BY <1>1, UpdateResumeTokenIs, StateChanged
<1>4. QED
    BY <1>2, <1>3, StatesKept DEF Kept

LEMMA HandleSnapshotIs ==
    ASSUME NEW r \in Remote, NEW token \in Nat
    PROVE  HandleSnapshot(r, token) \in Remote /\ Kept(HandleSnapshot(r, token), r)
<1> DEFINE s == [t \in DOMAIN r.states |->
                    IF IsActive(r, t) THEN UpdateResumeToken(r.states[t], token) ELSE r.states[t]]
<1>1. r.states \in PFun(Target, TargetState)
    BY DEF Remote
<1>2. /\ DOMAIN r.states \in SUBSET Target /\ IsFiniteSet(DOMAIN r.states)
      /\ \A t \in DOMAIN r.states : r.states[t] \in TargetState
    BY <1>1, PFunIs
<1>3. s \in [DOMAIN r.states -> TargetState]
    BY <1>2, UpdateResumeTokenIs
<1>4. HandleSnapshot(r, token) = [r EXCEPT !.states = s]
    BY DEF HandleSnapshot
<1> HIDE DEF s
<1>5. s \in PFun(Target, TargetState)
    BY <1>2, <1>3, IsPFun
<1>6. QED
    BY <1>4, <1>5, StatesKept

Keyed(r) == \A t \in DOMAIN r.listens : t # Query => KeyOf(r, t) \in Doc

LEMMA LinkedIsKeyed ==
    ASSUME NEW c \in Client, Linked(c)
    PROVE  /\ Keyed(c.remote)
           /\ \A t \in DOMAIN c.remote.listens : t # Query =>
                 /\ t \in DOMAIN c.engine.resolutions
                 /\ KeyOf(c.remote, t) = c.engine.resolutions[t].key
                 /\ c.remote.listens[t].docs = {KeyOf(c.remote, t)}
<1>1. \A t \in DOMAIN c.remote.listens : t # Query =>
         t \in DOMAIN c.engine.resolutions /\ c.remote.listens[t].docs = {c.engine.resolutions[t].key}
    BY DEF Linked
<1>2. c.engine \in Engine
    BY DEF Client
<1>3. \A t \in DOMAIN c.engine.resolutions : c.engine.resolutions[t].key \in Doc
    BY <1>2, ResolutionIs
<1>4. \A t \in DOMAIN c.remote.listens : t # Query =>
         /\ t \in DOMAIN c.engine.resolutions
         /\ KeyOf(c.remote, t) = c.engine.resolutions[t].key
         /\ c.remote.listens[t].docs = {KeyOf(c.remote, t)}
    BY <1>1 DEF KeyOf
<1>5. QED
    BY <1>3, <1>4 DEF Keyed

LEMMA HandleExistenceFilterIs ==
    ASSUME NEW r \in Remote, NEW t \in Target, NEW count, engine \in Engine, Keyed(r)
    PROVE  /\ HandleExistenceFilter(r, t, count) \in Remote
           /\ Kept(HandleExistenceFilter(r, t, count), r)
<1> DEFINE p == HandleExistenceFilter(r, t, count)
<1>1. CASE p = r
    BY <1>1 DEF Kept
<1>2. CASE IsActive(r, t) /\ t # Query /\ p = RemoveDocument(r, t, KeyOf(r, t), {Absent})
    <2>1. KeyOf(r, t) \in Doc /\ {Absent} \in SUBSET Level
        BY <1>2, Levels DEF IsActive, Keyed
    <2>2. QED
        BY <1>2, <2>1, RemoveDocumentIs
<1>3. CASE p = [ResetTarget(r, t) EXCEPT !.resets = TRUE]
    <2>1. ResetTarget(r, t) \in Remote /\ Kept(ResetTarget(r, t), r)
        BY ResetTargetIs
    <2>2. QED
        BY <1>3, <2>1 DEF Remote, Kept
<1>4. QED
    BY <1>1, <1>2, <1>3 DEF HandleExistenceFilter

(***************************************************************************)
(* A remote event.                                                         *)
(***************************************************************************)

Full == [disk : Disk, engine : Engine, remote : Remote]

\* The sync engine's part of c, with RemoteStore's.
Both(c) == [engine |-> c.engine, remote |-> c.remote]

LEMMA SynthesizeDeleteIs ==
    ASSUME NEW r \in Remote, NEW t \in Target, Keyed(r), engine \in Engine
    PROVE  SynthesizeDelete(r, t) \in Remote /\ Kept(SynthesizeDelete(r, t), r)
<1>1. CASE SynthesizeDelete(r, t) = r
    BY <1>1 DEF Kept
<1>2. CASE SynthesizeDelete(r, t) = RemoveDocument(r, t, KeyOf(r, t), {Deleted})
           /\ IsActive(r, t) /\ t # Query
    <2>1. KeyOf(r, t) \in Doc /\ {Deleted} \in SUBSET Level
        BY <1>2, Levels DEF IsActive, Keyed
    <2>2. QED
        BY <1>2, <2>1, RemoveDocumentIs
<1>3. QED
    BY <1>1, <1>2 DEF SynthesizeDelete

\* The aggregator's targets are numbers, and finitely many.
LEMMA StatesIs ==
    ASSUME NEW r \in Remote
    PROVE  /\ DOMAIN r.states \in SUBSET Target /\ IsFiniteSet(DOMAIN r.states)
           /\ \A t \in DOMAIN r.states : r.states[t] \in TargetState
           /\ Ascending(DOMAIN r.states) \in Seq(Target)
<1>1. r.states \in PFun(Target, TargetState)
    BY DEF Remote
<1>2. /\ DOMAIN r.states \in SUBSET Target /\ IsFiniteSet(DOMAIN r.states)
      /\ \A t \in DOMAIN r.states : r.states[t] \in TargetState
    BY <1>1, PFunIs
<1>3. DOMAIN r.states \in SUBSET Nat
    BY <1>2, Targets
<1>4. Ascending(DOMAIN r.states) \in Seq(DOMAIN r.states)
    BY <1>2, <1>3, AscendingSorts
<1>5. QED
    BY <1>2, <1>4

\* What CreateRemoteEvent makes of r once the deletes are in.
LEMMA SynthesizedIs ==
    ASSUME NEW r \in Remote, Keyed(r), engine \in Engine
    PROVE  LET full == FoldLeft(SynthesizeDelete, r, Ascending(DOMAIN r.states))
           IN  full \in Remote /\ Kept(full, r)
<1> DEFINE R == {p \in Remote : Kept(p, r)}
<1>1. r \in R
    BY DEF Kept
<1>2. ASSUME NEW p \in R, NEW t \in Target PROVE SynthesizeDelete(p, t) \in R
    <2>1. Keyed(p)
        BY DEF Keyed, KeyOf, Kept
    <2>2. QED
        BY <2>1, SynthesizeDeleteIs DEF Kept
<1>3. Ascending(DOMAIN r.states) \in Seq(Target)
    BY StatesIs
<1> HIDE DEF R
<1>4. FoldLeft(SynthesizeDelete, r, Ascending(DOMAIN r.states)) \in R
    BY <1>1, <1>2, <1>3, SynthesizeLoop
<1>5. QED
    BY <1>4 DEF R

LEMMA CreateRemoteEventIs ==
    ASSUME NEW r \in Remote, NEW version, Keyed(r), engine \in Engine
    PROVE  LET created == CreateRemoteEvent(r, version)
           IN  /\ created.event.version = version
               /\ created.event.updates \in PFun(Doc, Level)
               /\ created.event.changes \in PFun(Target, TargetState)
               /\ created.event.mismatch \in BOOLEAN
               /\ created.rest \in Remote
               /\ Kept(created.rest, r)
<1> DEFINE full == FoldLeft(SynthesizeDelete, r, Ascending(DOMAIN r.states))
           changed == {t \in DOMAIN full.states : IsActive(full, t) /\ full.states[t].pending}
           changes == [t \in changed |-> full.states[t]]
           states == [t \in DOMAIN full.states |->
                         IF t \in changed THEN [full.states[t] EXCEPT !.pending = FALSE, !.changes = Empty]
                                          ELSE full.states[t]]
           created == CreateRemoteEvent(r, version)
<1>1. full \in Remote /\ Kept(full, r)
    BY SynthesizedIs
<1>2. /\ created.event.version = version
      /\ created.event.updates = full.updates
      /\ created.event.changes = changes
      /\ created.event.mismatch = full.resets
      /\ created.rest = [full EXCEPT !.updates = Empty, !.resets = FALSE, !.states = states]
    BY DEF CreateRemoteEvent
<1> HIDE DEF full, created
<1>3. /\ DOMAIN full.states \in SUBSET Target /\ IsFiniteSet(DOMAIN full.states)
      /\ \A t \in DOMAIN full.states : full.states[t] \in TargetState
    BY <1>1, StatesIs
<1>4. changes \in PFun(Target, TargetState)
    <2>1. changed \in SUBSET Target /\ IsFiniteSet(changed)
        BY <1>3, FS_Subset
    <2>2. changes \in [changed -> TargetState]
        BY <1>3
    <2> HIDE DEF changed, changes
    <2>3. QED
        BY <2>1, <2>2, IsPFun
<1>5. states \in PFun(Target, TargetState)
    <2>1. Empty \in PFun(Doc, ChangeType)
        BY EmptyPFun
    <2>2. \A t \in DOMAIN full.states :
             [full.states[t] EXCEPT !.pending = FALSE, !.changes = Empty] \in TargetState
        BY <1>3, <2>1 DEF TargetState
    <2>3. states \in [DOMAIN full.states -> TargetState]
        BY <1>3, <2>2
    <2> HIDE DEF states
    <2>4. QED
        BY <1>3, <2>3, IsPFun
<1> HIDE DEF changes, states
<1>6. Empty \in PFun(Doc, Level)
    BY EmptyPFun
<1>7. created.rest \in Remote /\ Kept(created.rest, r)
    BY <1>1, <1>2, <1>5, <1>6 DEF Remote, Kept
<1>8. full.updates \in PFun(Doc, Level) /\ full.resets \in BOOLEAN
    BY <1>1 DEF Remote
<1>9. QED
    BY <1>2, <1>4, <1>7, <1>8 DEF created

LEMMA OfTypeIs ==
    ASSUME NEW x \in TargetState, NEW type
    PROVE  OfType(x, type) \in SUBSET Doc
<1>1. x.changes \in PFun(Doc, ChangeType)
    BY ChangesIs
<1>2. DOMAIN x.changes \in SUBSET Doc
    BY <1>1, PFunIs
<1>3. QED
    BY <1>2 DEF OfType

\* An event: what its parts are.
Event(event) ==
    /\ event.version \in 0..MaxVersion
    /\ event.updates \in PFun(Doc, Level)
    /\ event.changes \in PFun(Target, TargetState)

\* The query's documents on disk, after an event.
NowStored(c, changes) ==
    IF c.engine.listening /\ Query \in DOMAIN changes
    THEN (c.disk.keys \ OfType(changes[Query], "removed")) \cup OfType(changes[Query], "added")
    ELSE c.disk.keys

LEMMA StoreTargetChangeIs ==
    ASSUME NEW c \in Full, NEW event, Event(event), NEW late
    PROVE  LET x == StoreTargetChange(c, event, late)
           IN  /\ x \in Full /\ x.remote = c.remote
               /\ x.disk.cache = c.disk.cache /\ x.disk.lastSnapshot = c.disk.lastSnapshot
               /\ x.disk.keys = NowStored(c, event.changes)
               /\ \E data \in Data : x.engine = [c.engine EXCEPT !.data = data]
<1> DEFINE x == StoreTargetChange(c, event, late)
           change == event.changes[Query]
           data == [c.engine.data EXCEPT !.token = change.token]
           keys == (c.disk.keys \ OfType(change, "removed")) \cup OfType(change, "added")
           stored == [c EXCEPT !.disk.keys = keys]
<1>1. c.engine \in Engine /\ c.disk \in Disk /\ c.remote \in Remote
    BY DEF Full
<1>2. c.engine.data \in Data /\ c.engine = [c.engine EXCEPT !.data = c.engine.data]
    BY <1>1 DEF Engine
<1>3. CASE ~c.engine.listening \/ Query \notin DOMAIN event.changes
    <2>1. x = c
        BY <1>3 DEF StoreTargetChange
    <2>2. NowStored(c, event.changes) = c.disk.keys
        BY <1>3 DEF NowStored
    <2>3. QED
        BY <1>2, <2>1, <2>2
<1>4. CASE c.engine.listening /\ Query \in DOMAIN event.changes
    <2>1. change \in TargetState
        BY <1>4, PFunIs DEF Event
    <2>2. keys \in SUBSET Doc
        BY <1>1, <2>1, OfTypeIs DEF Disk
    <2>3. change.token \in Nat
        BY <2>1 DEF TargetState
    <2>4. data \in Data
        BY <1>2, <2>3 DEF Data
    <2>0. keys = NowStored(c, event.changes)
        BY <1>4 DEF NowStored
    <2> HIDE DEF keys, data
    <2>5. /\ stored.disk = [c.disk EXCEPT !.keys = keys]
          /\ stored.engine = c.engine /\ stored.remote = c.remote
          /\ stored = [disk |-> stored.disk, engine |-> stored.engine, remote |-> stored.remote]
        BY DEF Full
    <2>6. stored.disk \in Disk /\ stored.disk.cache = c.disk.cache
          /\ stored.disk.lastSnapshot = c.disk.lastSnapshot /\ stored.disk.keys = keys
        BY <1>1, <2>2, <2>5 DEF Disk
    <2>7. stored \in Full
        BY <1>1, <2>5, <2>6 DEF Full
    <2>8. CASE change.token = 0
        <3>1. x = stored
            BY <1>4, <2>8 DEF StoreTargetChange, keys
        <3>2. QED
            BY <1>2, <2>0, <2>5, <2>6, <2>7, <3>1
    <2>9. CASE change.token # 0
        <3> DEFINE save == c.engine.data.token = 0 \/ change.changes # Empty \/ late
                   saved == IF save THEN data ELSE stored.disk.saved
        <3>1. x = [stored EXCEPT !.engine.data = data, !.disk.saved = saved]
            BY <1>4, <2>9 DEF StoreTargetChange, keys, data
        <3>2. saved \in Data
            BY <2>4, <2>6 DEF Disk
        <3> HIDE DEF saved, stored, x
        <3>3. /\ x.engine = [stored.engine EXCEPT !.data = data]
              /\ x.disk = [stored.disk EXCEPT !.saved = saved]
              /\ x.remote = stored.remote
              /\ x = [disk |-> x.disk, engine |-> x.engine, remote |-> x.remote]
            BY <2>7, <3>1 DEF Full
        <3>4. x.engine \in Engine
            BY <1>1, <2>4, <2>5, <3>3 DEF Engine
        <3>5. x.disk \in Disk /\ x.disk.cache = c.disk.cache
              /\ x.disk.lastSnapshot = c.disk.lastSnapshot /\ x.disk.keys = keys
            BY <2>6, <3>2, <3>3 DEF Disk
        <3>6. x \in Full
            BY <1>1, <2>5, <3>3, <3>4, <3>5 DEF Full
        <3>7. x.engine = [c.engine EXCEPT !.data = data] /\ x.remote = c.remote
            BY <2>5, <3>3
        <3>8. QED
            BY <2>0, <2>4, <3>5, <3>6, <3>7 DEF x
    <2>10. QED
        BY <2>8, <2>9
<1>5. QED
    BY <1>3, <1>4

\* The documents that the backend has reported, after an event.
NowSynced(e, changes) ==
    IF e.listening /\ Query \in DOMAIN changes
    THEN (e.synced \cup OfType(changes[Query], "added")) \ OfType(changes[Query], "removed")
    ELSE e.synced

LEMMA ApplyToViewIs ==
    ASSUME NEW e \in Engine, NEW cache \in [Doc -> [level : Level, read : 0..MaxVersion]],
           NEW taken \in SUBSET Doc, NEW changes \in PFun(Target, TargetState)
    PROVE  LET x == ApplyToView(e, cache, taken, changes)
           IN  /\ x \in Engine
               /\ x.listening = e.listening /\ x.byKey = e.byKey
               /\ x.resolutions = e.resolutions /\ x.enqueued = e.enqueued
               /\ x.synced = NowSynced(e, changes)
<1> DEFINE shown == (e.documents \ taken) \cup {d \in taken : cache[d].level = Matching}
           change == changes[Query]
           x == ApplyToView(e, cache, taken, changes)
           synced == (e.synced \cup OfType(change, "added")) \ OfType(change, "removed")
<1>1. shown \in SUBSET Doc
    BY DEF Engine
<1> HIDE DEF shown
<1>2. CASE ~e.listening
    BY <1>2 DEF ApplyToView, NowSynced
<1>3. CASE e.listening /\ Query \notin DOMAIN changes
    <2>1. x = [e EXCEPT !.documents = shown]
        BY <1>3 DEF ApplyToView, shown
    <2>2. QED
        BY <1>1, <1>3, <2>1 DEF Engine, NowSynced
<1>4. CASE e.listening /\ Query \in DOMAIN changes
    <2>1. change \in TargetState
        BY <1>4, PFunIs
    <2>2. change.current \in BOOLEAN /\ synced \in SUBSET Doc
        BY <2>1, OfTypeIs DEF TargetState, Engine
    <2>3. x = [e EXCEPT !.documents = shown, !.synced = synced, !.current = change.current]
        BY <1>4 DEF ApplyToView, shown
    <2> HIDE DEF synced, x
    <2>4. x \in Engine /\ x.listening = e.listening /\ x.byKey = e.byKey
          /\ x.resolutions = e.resolutions /\ x.enqueued = e.enqueued /\ x.synced = synced
        BY <1>1, <2>2, <2>3 DEF Engine
    <2>5. QED
        BY <1>4, <2>4 DEF synced, x, NowSynced
<1>5. QED
    BY <1>2, <1>3, <1>4

\* Whether a limbo resolution has received its document, after an event.
NowReceived(s, changes, t) ==
    IF t \notin DOMAIN changes THEN s[t].received
    ELSE /\ s[t].received \/ OfType(changes[t], "added") # {}
         /\ OfType(changes[t], "removed") = {}

LEMMA ReceiveIs ==
    ASSUME NEW s \in PFun(LimboTarget, Resolution), NEW changes
    PROVE  /\ Receive(s, changes) \in PFun(LimboTarget, Resolution)
           /\ DOMAIN Receive(s, changes) = DOMAIN s
           /\ \A t \in DOMAIN s :
                 /\ Receive(s, changes)[t].key = s[t].key
                 /\ Receive(s, changes)[t].received = NowReceived(s, changes, t)
<1> DEFINE x == Receive(s, changes)
<1>1. /\ DOMAIN s \in SUBSET LimboTarget /\ IsFiniteSet(DOMAIN s)
      /\ \A t \in DOMAIN s : s[t] \in Resolution
    BY PFunIs
<1>2. x = [t \in DOMAIN s |-> [s[t] EXCEPT !.received = NowReceived(s, changes, t)]]
    BY DEF Receive, NowReceived
<1>3. \A t \in DOMAIN s : NowReceived(s, changes, t) \in BOOLEAN
    BY <1>1 DEF Resolution, NowReceived
<1> HIDE DEF x
<1>4. \A t \in DOMAIN s : /\ x[t] \in Resolution /\ x[t].key = s[t].key
                          /\ x[t].received = NowReceived(s, changes, t)
    BY <1>1, <1>2, <1>3 DEF Resolution
<1>5. x \in [DOMAIN s -> Resolution] /\ DOMAIN x = DOMAIN s
    BY <1>2, <1>4
<1>6. x \in PFun(LimboTarget, Resolution)
    BY <1>1, <1>5, IsPFun
<1>7. QED
    BY <1>4, <1>5, <1>6 DEF x

\* Linked does not look at what an event changes.
LEMMA LinkSame ==
    ASSUME NEW e, NEW r, Linked([engine |-> e, remote |-> r]), NEW q, NEW p,
           q.listening = e.listening, q.byKey = e.byKey,
           DOMAIN q.resolutions = DOMAIN e.resolutions,
           \A t \in DOMAIN e.resolutions : q.resolutions[t].key = e.resolutions[t].key,
           DOMAIN p.listens = DOMAIN r.listens,
           \A t \in DOMAIN r.listens : t # Query => p.listens[t].docs = r.listens[t].docs,
           Query \notin DOMAIN e.resolutions
    PROVE  Linked([engine |-> q, remote |-> p])
<1>1. /\ DOMAIN r.listens = DOMAIN e.resolutions \cup (IF e.listening THEN {Query} ELSE {})
      /\ \A x \in DOMAIN e.byKey :
            e.byKey[x] \in DOMAIN e.resolutions /\ e.resolutions[e.byKey[x]].key = x
      /\ \A t \in DOMAIN e.resolutions : r.listens[t].docs = {e.resolutions[t].key}
    BY DEF Linked
<1>2. DOMAIN p.listens = DOMAIN q.resolutions \cup (IF q.listening THEN {Query} ELSE {})
    BY <1>1
<1>3. \A x \in DOMAIN q.byKey :
         q.byKey[x] \in DOMAIN q.resolutions /\ q.resolutions[q.byKey[x]].key = x
    BY <1>1
<1>4. \A t \in DOMAIN q.resolutions : p.listens[t].docs = {q.resolutions[t].key}
    BY <1>1
<1>5. QED
    BY <1>2, <1>3, <1>4 DEF Linked

\* ApplyRemoteEvent up to UpdateLimboDocuments, and the disk it leaves.
Applying(c, event, late) ==
    LET taken  == Taken(c.disk, event.updates)
        cache  == [d \in Doc |-> IF d \in taken
                                 THEN [level |-> event.updates[d], read |-> event.version]
                                 ELSE c.disk.cache[d]]
        stored == StoreTargetChange(c, event, late)
        view   == ApplyToView(stored.engine, cache, taken, event.changes)
    IN  [disk   |-> [stored.disk EXCEPT
                       !.cache = cache,
                       !.lastSnapshot = IF event.version = 0 THEN @ ELSE event.version],
         engine |-> [view EXCEPT !.resolutions = Receive(@, event.changes)],
         remote |-> c.remote]

LEMMA ApplyingIs ==
    ASSUME NEW c \in Full, NEW event, Event(event), NEW late
    PROVE  LET x == Applying(c, event, late)
           IN  /\ x \in Full /\ x.remote = c.remote
               /\ x.engine.listening = c.engine.listening /\ x.engine.byKey = c.engine.byKey
               /\ x.engine.enqueued = c.engine.enqueued
               /\ x.engine.resolutions = Receive(c.engine.resolutions, event.changes)
               /\ x.engine.synced = NowSynced(c.engine, event.changes)
               /\ x.disk.keys = NowStored(c, event.changes)
<1> DEFINE x == Applying(c, event, late)
           taken == Taken(c.disk, event.updates)
           cache == [d \in Doc |-> IF d \in taken
                                   THEN [level |-> event.updates[d], read |-> event.version]
                                   ELSE c.disk.cache[d]]
           stored == StoreTargetChange(c, event, late)
           last == IF event.version = 0 THEN stored.disk.lastSnapshot ELSE event.version
           view == ApplyToView(stored.engine, cache, taken, event.changes)
           res == Receive(view.resolutions, event.changes)
<1>1. c.engine \in Engine /\ c.disk \in Disk /\ c.remote \in Remote
    BY DEF Full
<1>2. /\ stored \in Full /\ stored.remote = c.remote
      /\ \E data \in Data : stored.engine = [c.engine EXCEPT !.data = data]
      /\ stored.disk.keys = NowStored(c, event.changes)
    BY StoreTargetChangeIs
<1>3. /\ stored.engine \in Engine /\ stored.disk \in Disk
      /\ stored.engine.listening = c.engine.listening /\ stored.engine.byKey = c.engine.byKey
      /\ stored.engine.resolutions = c.engine.resolutions
      /\ stored.engine.enqueued = c.engine.enqueued
      /\ stored.engine.synced = c.engine.synced
    BY <1>1, <1>2 DEF Full, Engine
<1>4. taken \in SUBSET Doc /\ \A d \in taken : event.updates[d] \in Level
    <2>1. DOMAIN event.updates \in SUBSET Doc /\ \A d \in DOMAIN event.updates : event.updates[d] \in Level
        BY PFunIs DEF Event
    <2>2. QED
        BY <2>1 DEF Taken
<1>5. cache \in [Doc -> [level : Level, read : 0..MaxVersion]]
    <2>1. \A d \in Doc : c.disk.cache[d] \in [level : Level, read : 0..MaxVersion]
        BY <1>1 DEF Disk
    <2> HIDE DEF taken
    <2>2. \A d \in Doc : cache[d] \in [level : Level, read : 0..MaxVersion]
        BY <1>4, <2>1 DEF Event
    <2>3. QED
        BY <2>2
<1>6. x = [disk |-> [stored.disk EXCEPT !.cache = cache, !.lastSnapshot = last],
           engine |-> [view EXCEPT !.resolutions = res], remote |-> c.remote]
    BY DEF Applying
<1> HIDE DEF x, taken, cache, stored
<1>7. /\ view \in Engine
      /\ view.listening = c.engine.listening /\ view.byKey = c.engine.byKey
      /\ view.resolutions = c.engine.resolutions /\ view.enqueued = c.engine.enqueued
      /\ view.synced = NowSynced(c.engine, event.changes)
    <2>1. view.synced = NowSynced(stored.engine, event.changes)
        BY <1>3, <1>4, <1>5, ApplyToViewIs DEF Event
    <2>2. NowSynced(stored.engine, event.changes) = NowSynced(c.engine, event.changes)
        BY <1>3 DEF NowSynced
    <2>3. QED
        BY <1>3, <1>4, <1>5, <2>1, <2>2, ApplyToViewIs DEF Event
<1> HIDE DEF view
<1>8. c.engine.resolutions \in PFun(LimboTarget, Resolution)
    BY <1>1 DEF Engine
<1>9. res \in PFun(LimboTarget, Resolution) /\ res = Receive(c.engine.resolutions, event.changes)
    BY <1>7, <1>8, ReceiveIs
<1> HIDE DEF res
<1>10. last \in Nat
    BY <1>3, FirestoreWatchAssumption DEF Event, Disk
<1> HIDE DEF last
<1>11. /\ x.disk = [stored.disk EXCEPT !.cache = cache, !.lastSnapshot = last]
       /\ x.engine = [view EXCEPT !.resolutions = res]
       /\ x.remote = c.remote
       /\ x = [disk |-> x.disk, engine |-> x.engine, remote |-> x.remote]
    BY <1>6
<1>12. x.disk \in Disk /\ x.disk.keys = stored.disk.keys
    BY <1>3, <1>5, <1>10, <1>11 DEF Disk
<1>13. /\ x.engine \in Engine /\ x.engine.listening = view.listening
       /\ x.engine.byKey = view.byKey /\ x.engine.enqueued = view.enqueued
       /\ x.engine.synced = view.synced /\ x.engine.resolutions = res
    BY <1>7, <1>9, <1>11 DEF Engine
<1>14. x \in Full
    BY <1>1, <1>2, <1>11, <1>12, <1>13 DEF Full
<1>15. QED
    BY <1>2, <1>7, <1>9, <1>11, <1>12, <1>13, <1>14 DEF x

\* What ApplyRemoteEvent does after that: limbo documents, then the data.
LEMMA ApplyRemoteEventIs ==
    ASSUME ~IsFiniteSet(LimboTarget), wire \in Seq(Message),
           NEW c \in Full, Linked(Both(c)), NEW event, Event(event), NEW late
    PROVE  LET x == ApplyRemoteEvent(c, event, late)
               a == Applying(c, event, late)
           IN  /\ x \in Full /\ Linked(Both(x))
               /\ Both(a) \in Fit
               /\ x.disk = a.disk
               /\ x.remote = UpdateLimbo(Both(a)).remote
               /\ x.engine.synced = UpdateLimbo(Both(a)).engine.synced
               /\ x.engine.listening = UpdateLimbo(Both(a)).engine.listening
               /\ x.engine.resolutions = UpdateLimbo(Both(a)).engine.resolutions
<1> DEFINE a == Applying(c, event, late)
           u == UpdateLimbo(Both(a))
           b == [disk |-> a.disk, engine |-> u.engine, remote |-> u.remote]
           x == ApplyRemoteEvent(c, event, late)
<1>1. c.engine \in Engine /\ c.disk \in Disk /\ c.remote \in Remote
    BY DEF Full
<1>2. x = NotifyLocalViewChanges(b, c.engine)
    BY DEF ApplyRemoteEvent, Applying, Both
<1>3. /\ a \in Full /\ a.remote = c.remote
      /\ a.engine.listening = c.engine.listening /\ a.engine.byKey = c.engine.byKey
      /\ a.engine.resolutions = Receive(c.engine.resolutions, event.changes)
    BY ApplyingIs
<1> HIDE DEF a, x
<1>4. a.engine \in Engine /\ a.disk \in Disk /\ a.remote \in Remote
    BY <1>3 DEF Full
<1>5. c.engine.resolutions \in PFun(LimboTarget, Resolution) /\ Query \notin DOMAIN c.engine.resolutions
    <2>1. c.engine.resolutions \in PFun(LimboTarget, Resolution)
        BY <1>1 DEF Engine
    <2>2. QED
        BY <2>1, PFunIs, Targets
<1>6. /\ DOMAIN a.engine.resolutions = DOMAIN c.engine.resolutions
      /\ \A t \in DOMAIN c.engine.resolutions :
            a.engine.resolutions[t].key = c.engine.resolutions[t].key
    <2> DEFINE y == Receive(c.engine.resolutions, event.changes)
    <2>1. /\ DOMAIN y = DOMAIN c.engine.resolutions
          /\ \A t \in DOMAIN c.engine.resolutions : y[t].key = c.engine.resolutions[t].key
        BY <1>5, ReceiveIs
    <2> HIDE DEF y
    <2>2. a.engine.resolutions = y
        BY <1>3 DEF y
    <2>3. QED
        BY <2>1, <2>2
<1>7. Linked([engine |-> a.engine, remote |-> a.remote])
    BY <1>3, <1>5, <1>6, LinkSame DEF Both
<1>8. Both(a) \in Fit
    BY <1>4, <1>7, MakeFit DEF Both
<1>9. u \in Fit
    BY <1>8, UpdateLimboFits
<1>10. u.engine \in Engine /\ u.remote \in Remote
       /\ Linked([engine |-> u.engine, remote |-> u.remote])
    BY <1>9, FitIs
<1> HIDE DEF u
<1>11. /\ b.disk = a.disk /\ b.engine = u.engine /\ b.remote = u.remote
       /\ b = [disk |-> b.disk, engine |-> b.engine, remote |-> b.remote]
    OBVIOUS
<1>12. b \in Full
    BY <1>4, <1>10, <1>11 DEF Full
<1> HIDE DEF b
<1>13. b.engine = [b.engine EXCEPT !.data = b.engine.data] /\ b.engine.data \in Data
    BY <1>10, <1>11 DEF Engine
<1>14. \/ x = b
       \/ x = [b EXCEPT !.engine.data.limboFree = b.engine.data.token]
    BY <1>2 DEF NotifyLocalViewChanges
<1>15. /\ x \in Full /\ x.disk = b.disk /\ x.remote = b.remote
       /\ \E data \in Data : x.engine = [b.engine EXCEPT !.data = data]
    <2>1. CASE x = b
        BY <1>12, <1>13, <2>1
    <2>2. CASE x = [b EXCEPT !.engine.data.limboFree = b.engine.data.token]
        <3> DEFINE data == [b.engine.data EXCEPT !.limboFree = b.engine.data.token]
        <3>1. data \in Data
            BY <1>13 DEF Data
        <3>2. /\ x.engine = [b.engine EXCEPT !.data = data] /\ x.disk = b.disk /\ x.remote = b.remote
              /\ x = [disk |-> x.disk, engine |-> x.engine, remote |-> x.remote]
            BY <1>12, <2>2 DEF Full
        <3> HIDE DEF data
        <3>3. x.engine \in Engine
            BY <1>10, <1>11, <3>1, <3>2 DEF Engine
        <3>4. x \in Full
            BY <1>12, <3>2, <3>3 DEF Full
        <3>5. QED
            BY <3>1, <3>2, <3>4
    <2>3. QED
        BY <1>14, <2>1, <2>2
<1>16. Linked(Both(x))
    <2>1. x.engine.listening = u.engine.listening /\ x.engine.byKey = u.engine.byKey
          /\ x.engine.resolutions = u.engine.resolutions
        BY <1>10, <1>11, <1>15 DEF Engine
    <2>2. x.remote = u.remote
        BY <1>11, <1>15
    <2>3. Query \notin DOMAIN u.engine.resolutions
        BY <1>10, ResolutionIs, Targets
    <2>4. QED
        BY <1>10, <2>1, <2>2, <2>3, LinkSame DEF Both
<1>17. /\ x.engine.synced = u.engine.synced /\ x.engine.resolutions = u.engine.resolutions
       /\ x.engine.listening = u.engine.listening
    BY <1>10, <1>11, <1>15 DEF Engine
<1>18. QED
    BY <1>8, <1>11, <1>15, <1>16, <1>17 DEF x, a, u

(***************************************************************************)
(* What the backend sends.                                                 *)
(***************************************************************************)

LEMMA MessageIs ==
    ASSUME NEW m \in Message
    PROVE  /\ m.type # "snapshot" => m.target \in Target
           /\ m.type = "snapshot" => m.target = -1
           /\ m.type \in {"snapshot", "current"} => m.version \in Nat
           /\ m.type = "document" => /\ m.doc \in Doc /\ m.level \in Level
                                     /\ m.values \in SUBSET Level
BY DEF Message

\* What is told of a target besides that it is added.
Telling(t, docs) ==
    {m \in Message : /\ m.type \in {"document", "current", "filter", "snapshot", "reset"}
                     /\ m.type = "snapshot" => m.version = served
                     /\ m.type # "snapshot" => m.target = t
                     /\ m.type = "document" => m.doc \in docs}

DocumentsOf(t, docs) ==
    {m \in Message : m.type = "document" /\ m.target = t /\ m.doc \in docs}

LEMMA DocumentMessageIs ==
    ASSUME NEW t \in Target, NEW docs \in SUBSET Doc, NEW d \in docs, NEW level \in Level,
           NEW v \in BOOLEAN
    PROVE  DocumentMessage(t, d, level, v) \in DocumentsOf(t, docs)
<1> DEFINE values == IF v THEN {level} ELSE {}
<1>1. Belongs(t, level) \in BOOLEAN
    BY DEF Belongs
<1>2. values \in {{}} \cup {{l} : l \in Level}
    OBVIOUS
<1> HIDE DEF values
<1>3. DocumentMessage(t, d, level, v) =
         [type |-> "document", target |-> t, doc |-> d, level |-> level,
          belongs |-> Belongs(t, level), values |-> values]
    BY DEF DocumentMessage, values
<1>4. DocumentMessage(t, d, level, v) \in
         [type : {"document"}, target : Target, doc : Doc, level : Level, belongs : BOOLEAN,
          values : {{}} \cup {{l} : l \in Level}]
    BY <1>1, <1>2, <1>3
<1>5. DocumentMessage(t, d, level, v) \in Message
    BY <1>4, Zenon DEF Message
<1>6. /\ DocumentMessage(t, d, level, v).type = "document"
      /\ DocumentMessage(t, d, level, v).target = t /\ DocumentMessage(t, d, level, v).doc = d
    BY <1>3
<1>7. QED
    BY <1>5, <1>6 DEF DocumentsOf

LEMMA NewsIs ==
    ASSUME NEW t \in Target, NEW docs \in SUBSET Doc, NEW then \in [Doc -> Level],
           NEW now \in [Doc -> Level], NEW v \in BOOLEAN
    PROVE  News(t, docs, then, now, v) \in Seq(DocumentsOf(t, docs))
<1> DEFINE changed == {d \in docs : then[d] # now[d] /\ (Belongs(t, then[d]) \/ Belongs(t, now[d]))}
           n == Cardinality(changed)
           f == Ascending(changed)
<1>1. changed \in SUBSET docs /\ changed \in SUBSET Nat /\ IsFiniteSet(changed)
    BY FirestoreWatchAssumption, FS_Subset
<1>2. News(t, docs, then, now, v) = [i \in 1..n |-> DocumentMessage(t, f[i], now[f[i]], v)]
    BY DEF News
<1> HIDE DEF changed
<1>3. n \in Nat /\ f \in [1..n -> changed]
    BY <1>1, AscendingSorts DEF IsAscending
<1> HIDE DEF n, f
<1>4. \A i \in 1..n : DocumentMessage(t, f[i], now[f[i]], v) \in DocumentsOf(t, docs)
    <2> TAKE i \in 1..n
    <2>1. f[i] \in docs /\ f[i] \in Doc /\ now[f[i]] \in Level
        BY <1>1, <1>3
    <2>2. QED
        BY <2>1, DocumentMessageIs
<1>5. [i \in 1..n |-> DocumentMessage(t, f[i], now[f[i]], v)] \in [1..n -> DocumentsOf(t, docs)]
    BY <1>4
<1>6. QED
    BY <1>2, <1>3, <1>5

LEMMA TargetMessageIs ==
    ASSUME NEW type \in {"added", "removed", "reset", "error"}, NEW t \in Target
    PROVE  /\ TargetMessage(type, t) \in Message
           /\ TargetMessage(type, t).type = type /\ TargetMessage(type, t).target = t
<1>1. TargetMessage(type, t) \in [type : {"added", "removed", "reset", "error"}, target : Target]
    BY DEF TargetMessage
<1>2. TargetMessage(type, t) \in Message
    BY <1>1, Zenon DEF Message
<1>3. QED
    BY <1>2 DEF TargetMessage

LEMMA EndingIs ==
    ASSUME NEW t \in Target, NEW docs \in SUBSET Doc, served \in Nat, NEW n \in Nat
    PROVE  /\ CurrentMessage(t) \in Telling(t, docs)
           /\ SnapshotMessage(served) \in Telling(t, docs)
           /\ FilterMessage(t, n) \in Telling(t, docs)
           /\ TargetMessage("reset", t) \in Telling(t, docs)
<1>1. /\ CurrentMessage(t) \in [type : {"current"}, target : Target, version : Nat]
      /\ SnapshotMessage(served) \in [type : {"snapshot"}, target : {-1}, version : Nat]
      /\ FilterMessage(t, n) \in [type : {"filter"}, target : Target, count : Nat]
    BY DEF CurrentMessage, SnapshotMessage, FilterMessage
<1>2. CurrentMessage(t) \in Message /\ SnapshotMessage(served) \in Message
      /\ FilterMessage(t, n) \in Message
    BY <1>1, Zenon DEF Message
<1>3. CurrentMessage(t) \in Telling(t, docs)
    BY <1>2 DEF Telling, CurrentMessage
<1>4. SnapshotMessage(served) \in Telling(t, docs)
    BY <1>2 DEF Telling, SnapshotMessage
<1>5. FilterMessage(t, n) \in Telling(t, docs)
    BY <1>2 DEF Telling, FilterMessage
<1>6. TargetMessage("reset", t) \in Telling(t, docs)
    BY TargetMessageIs DEF Telling
<1>7. QED
    BY <1>3, <1>4, <1>5, <1>6

\* Each answer says first that the target is added.
LEMMA AnswersIs ==
    ASSUME history \in Seq([Doc -> Level]), served \in 1..Len(history),
           NEW t \in Target, NEW token \in 0..served, NEW docs \in SUBSET Doc,
           NEW answer \in Answers(t, token, docs)
    PROVE  \E rest \in Seq(Telling(t, docs)) : answer = <<TargetMessage("added", t)>> \o rest
<1> DEFINE M == Telling(t, docs)
           a == TargetMessage("added", t)
           none == [d \in Doc |-> Absent]
           now == history[served]
           then == IF token = 0 THEN none ELSE history[token]
           present == {d \in docs : Belongs(t, now[d])}
           n == Cardinality(present)
           end == <<CurrentMessage(t), SnapshotMessage(served)>>
           counted == <<CurrentMessage(t), FilterMessage(t, n), SnapshotMessage(served)>>
<1>1. none \in [Doc -> Level] /\ now \in [Doc -> Level] /\ then \in [Doc -> Level]
    <2>1. none \in [Doc -> Level]
        BY Levels
    <2>2. now \in [Doc -> Level]
        OBVIOUS
    <2>3. token # 0 => history[token] \in [Doc -> Level]
        OBVIOUS
    <2>4. QED
        BY <2>1, <2>2, <2>3
<1>2. present \in SUBSET docs
    OBVIOUS
<1>3. n \in Nat
    <2>1. IsFiniteSet(present)
        BY <1>2, FirestoreWatchAssumption, FS_Subset
    <2>2. QED
        BY <2>1, FS_CardinalityType
<1>4. /\ CurrentMessage(t) \in M /\ SnapshotMessage(served) \in M /\ FilterMessage(t, n) \in M
      /\ TargetMessage("reset", t) \in M
    BY <1>3, EndingIs
<1>5. end \in Seq(M) /\ counted \in Seq(M) /\ <<TargetMessage("reset", t)>> \in Seq(M)
    BY <1>4
<1>6. ASSUME NEW x \in [Doc -> Level], NEW v \in BOOLEAN, NEW ds \in SUBSET docs
      PROVE  News(t, ds, x, now, v) \in Seq(M)
    <2>1. ds \in SUBSET Doc
        OBVIOUS
    <2>2. News(t, ds, x, now, v) \in Seq(DocumentsOf(t, ds))
        BY <1>1, <2>1, NewsIs
    <2>3. DocumentsOf(t, ds) \in SUBSET M
        BY DEF DocumentsOf, Telling
    <2>4. QED
        BY <2>2, <2>3, SeqMonotonic
<1>7. \A d \in docs : <<DocumentMessage(t, d, Deleted, TRUE)>> \in Seq(M)
    <2>1. \A d \in docs : DocumentMessage(t, d, Deleted, TRUE) \in DocumentsOf(t, docs)
        BY Levels, DocumentMessageIs
    <2>2. DocumentsOf(t, docs) \in SUBSET M
        BY DEF DocumentsOf, Telling
    <2>3. \A d \in docs : DocumentMessage(t, d, Deleted, TRUE) \in M
        BY <2>1, <2>2
    <2>4. \A x \in M : <<x>> \in Seq(M)
        OBVIOUS
    <2> HIDE DEF M
    <2>5. QED
        BY <2>3, <2>4, Zenon
<1>8. \/ \E v \in BOOLEAN : answer = <<a>> \o News(t, docs, then, now, v) \o end
      \/ answer = (<<a>> \o <<TargetMessage("reset", t)>>) \o News(t, docs, none, now, TRUE) \o end
      \/ answer = <<a>> \o News(t, present, then, now, TRUE) \o counted
      \/ \E d \in docs \ present :
            answer = <<a>> \o <<DocumentMessage(t, d, Deleted, TRUE)>> \o end
      \/ answer = <<a>> \o counted
    BY DEF Answers
<1>9. \A p, q \in Seq(M) : (<<a>> \o p) \o q = <<a>> \o (p \o q) /\ p \o q \in Seq(M)
    <2> TAKE p, q \in Seq(M)
    <2>1. <<a>> \in Seq(M \cup {a}) /\ p \in Seq(M \cup {a}) /\ q \in Seq(M \cup {a})
        BY SeqMonotonic
    <2>2. (<<a>> \o p) \o q = <<a>> \o (p \o q)
        BY <2>1, ConcatAssociative
    <2>3. QED
        BY <2>2
<1> HIDE DEF M, a, none, now, then, present, n, end, counted
<1>10. CASE \E v \in BOOLEAN : answer = <<a>> \o News(t, docs, then, now, v) \o end
    <2>1. PICK v \in BOOLEAN : answer = (<<a>> \o News(t, docs, then, now, v)) \o end
        BY <1>10
    <2>2. News(t, docs, then, now, v) \in Seq(M)
        BY <1>1, <1>6
    <2>3. QED
        BY <1>5, <1>9, <2>1, <2>2 DEF M, a
<1>11. CASE answer = (<<a>> \o <<TargetMessage("reset", t)>>) \o News(t, docs, none, now, TRUE) \o end
    <2> DEFINE r == <<TargetMessage("reset", t)>>
               w == News(t, docs, none, now, TRUE)
    <2>1. w \in Seq(M) /\ r \in Seq(M)
        BY <1>1, <1>5, <1>6
    <2>2. answer = ((<<a>> \o r) \o w) \o end
        BY <1>11
    <2> HIDE DEF w, r
    <2>3. (<<a>> \o r) \o w = <<a>> \o (r \o w) /\ r \o w \in Seq(M)
        BY <1>9, <2>1
    <2>4. answer = <<a>> \o ((r \o w) \o end) /\ (r \o w) \o end \in Seq(M)
        BY <1>5, <1>9, <2>2, <2>3
    <2>5. QED
        BY <2>4 DEF M, a
<1>12. CASE answer = <<a>> \o News(t, present, then, now, TRUE) \o counted
    <2>1. News(t, present, then, now, TRUE) \in Seq(M)
        BY <1>1, <1>2, <1>6
    <2>2. QED
        BY <1>5, <1>9, <1>12, <2>1 DEF M, a
<1>13. CASE \E d \in docs \ present :
               answer = <<a>> \o <<DocumentMessage(t, d, Deleted, TRUE)>> \o end
    <2>1. PICK d \in docs \ present :
             answer = (<<a>> \o <<DocumentMessage(t, d, Deleted, TRUE)>>) \o end
        BY <1>13
    <2> DEFINE w == <<DocumentMessage(t, d, Deleted, TRUE)>>
    <2>2. w \in Seq(M) /\ answer = (<<a>> \o w) \o end
        BY <1>7, <2>1
    <2> HIDE DEF w
    <2>3. answer = <<a>> \o (w \o end) /\ w \o end \in Seq(M)
        BY <1>5, <1>9, <2>2
    <2>4. QED
        BY <2>3 DEF M, a
<1>14. CASE answer = <<a>> \o counted
    BY <1>5, <1>14 DEF M, a
<1>15. QED
    BY <1>8, <1>10, <1>11, <1>12, <1>13, <1>14

(***************************************************************************)
(* What a snapshot and a refusal do.                                       *)
(***************************************************************************)

\* RaiseWatchSnapshot before the event is applied: tokens, then mismatches.
WithTokens(created) ==
    [created.rest EXCEPT !.listens =
        [t \in DOMAIN @ |->
            IF t \in DOMAIN created.event.changes /\ created.event.changes[t].token # 0
            THEN [@[t] EXCEPT !.token = created.event.changes[t].token] ELSE @[t]]]

Anew == [token |-> 0, docs |-> Doc]

Relisted(r) ==
    Send(Send([r EXCEPT !.listens[Query] = Anew], Request("unwatch", Query, Anew)),
         Request("watch", Query, Anew))

Raising(r, version) ==
    LET created == CreateRemoteEvent(r, version)
    IN  IF created.event.mismatch /\ Query \in DOMAIN WithTokens(created).listens
        THEN Relisted(WithTokens(created)) ELSE WithTokens(created)

LEMMA WithTokensIs ==
    ASSUME NEW created, created.rest \in Remote, created.event.changes \in PFun(Target, TargetState)
    PROVE  LET x == WithTokens(created)
           IN  /\ x \in Remote
               /\ DOMAIN x.listens = DOMAIN created.rest.listens
               /\ \A t \in DOMAIN x.listens : x.listens[t].docs = created.rest.listens[t].docs
               /\ x.online = created.rest.online /\ x.stream = created.rest.stream
               /\ x.idle = created.rest.idle /\ x.requests = created.rest.requests
               /\ x.states = created.rest.states
<1> DEFINE r == created.rest
           changes == created.event.changes
           told(t) == t \in DOMAIN changes /\ changes[t].token # 0
           l == [t \in DOMAIN r.listens |->
                    IF told(t) THEN [r.listens[t] EXCEPT !.token = changes[t].token]
                    ELSE r.listens[t]]
<1>1. r.listens \in PFun(Target, TargetData)
    BY DEF Remote
<1>2. /\ DOMAIN r.listens \in SUBSET Target /\ IsFiniteSet(DOMAIN r.listens)
      /\ \A t \in DOMAIN r.listens : r.listens[t] \in TargetData
    BY <1>1, PFunIs
<1>3. \A t \in DOMAIN changes : changes[t] \in TargetState
    BY PFunIs
<1>4. \A t \in DOMAIN changes : changes[t].token \in Nat
    BY <1>3 DEF TargetState
<1>5. \A t \in DOMAIN r.listens : l[t] \in TargetData /\ l[t].docs = r.listens[t].docs
    BY <1>2, <1>4 DEF TargetData
<1>6. l \in [DOMAIN r.listens -> TargetData] /\ DOMAIN l = DOMAIN r.listens
    BY <1>5
<1>7. WithTokens(created) = [r EXCEPT !.listens = l]
    BY DEF WithTokens
<1> HIDE DEF l
<1>8. l \in PFun(Target, TargetData)
    BY <1>2, <1>6, IsPFun
<1>9. QED
    BY <1>5, <1>6, <1>7, <1>8 DEF Remote

LEMMA RelistedIs ==
    ASSUME NEW r \in Remote, Query \in DOMAIN r.listens
    PROVE  /\ Relisted(r) \in Remote
           /\ DOMAIN Relisted(r).listens = DOMAIN r.listens
           /\ \A t \in DOMAIN r.listens : t # Query => Relisted(r).listens[t] = r.listens[t]
           /\ Relisted(r).online = r.online /\ Relisted(r).stream = r.stream
           /\ ~Relisted(r).idle
<1> DEFINE l == [r.listens EXCEPT ![Query] = Anew]
           p == [r EXCEPT !.listens = l]
<1>1. Anew \in TargetData
    BY DEF Anew, TargetData
<1>2. r.listens \in PFun(Target, TargetData)
    BY DEF Remote
<1>3. /\ DOMAIN r.listens \in SUBSET Target /\ IsFiniteSet(DOMAIN r.listens)
      /\ r.listens \in [DOMAIN r.listens -> TargetData]
    BY <1>2, PFunIs
<1>4. l \in [DOMAIN r.listens -> TargetData] /\ DOMAIN l = DOMAIN r.listens
      /\ \A t \in DOMAIN r.listens : t # Query => l[t] = r.listens[t]
    BY <1>1, <1>3
<1>5. l \in PFun(Target, TargetData)
    BY <1>3, <1>4, IsPFun
<1>6. Relisted(r) = Send(Send(p, Request("unwatch", Query, Anew)), Request("watch", Query, Anew))
    BY DEF Relisted
<1> HIDE DEF l
<1>7. p \in Remote /\ p.listens = l /\ p.online = r.online /\ p.stream = r.stream
    BY <1>5 DEF Remote
<1> HIDE DEF p
<1>8. /\ Request("unwatch", Query, Anew) \in Requests /\ Request("watch", Query, Anew) \in Requests
    BY <1>1, Targets, RequestIs
<1> DEFINE s == Send(p, Request("unwatch", Query, Anew))
<1>9. s \in Remote /\ s.listens = l /\ s.online = r.online /\ s.stream = r.stream
    BY <1>7, <1>8, SendIs
<1>10. Relisted(r) = Send(s, Request("watch", Query, Anew))
    BY <1>6
<1> HIDE DEF s
<1>11. /\ Relisted(r) \in Remote /\ Relisted(r).listens = s.listens
       /\ Relisted(r).online = s.online /\ Relisted(r).stream = s.stream /\ ~Relisted(r).idle
    BY <1>8, <1>9, <1>10, SendIs
<1>12. QED
    BY <1>4, <1>9, <1>11

LEMMA RaisingIs ==
    ASSUME NEW r \in Remote, NEW version, Keyed(r), engine \in Engine
    PROVE  /\ Raising(r, version) \in Remote
           /\ DOMAIN Raising(r, version).listens = DOMAIN r.listens
           /\ \A t \in DOMAIN r.listens : t # Query =>
                 Raising(r, version).listens[t].docs = r.listens[t].docs
           /\ Raising(r, version).online = r.online /\ Raising(r, version).stream = r.stream
           /\ Raising(r, version).idle => r.idle
<1> DEFINE created == CreateRemoteEvent(r, version)
           tokens == WithTokens(created)
<1>1. /\ created.event.changes \in PFun(Target, TargetState)
      /\ created.rest \in Remote /\ Kept(created.rest, r)
    BY CreateRemoteEventIs
<1>2. \/ Raising(r, version) = tokens
      \/ Query \in DOMAIN tokens.listens /\ Raising(r, version) = Relisted(tokens)
    BY DEF Raising
<1> HIDE DEF created
<1>3. /\ tokens \in Remote /\ DOMAIN tokens.listens = DOMAIN r.listens
      /\ \A t \in DOMAIN tokens.listens : tokens.listens[t].docs = r.listens[t].docs
      /\ tokens.online = r.online /\ tokens.stream = r.stream /\ tokens.idle = r.idle
    BY <1>1, WithTokensIs DEF Kept
<1> HIDE DEF tokens
<1>4. CASE Raising(r, version) = tokens
    BY <1>3, <1>4
<1>5. CASE Query \in DOMAIN tokens.listens /\ Raising(r, version) = Relisted(tokens)
    BY <1>3, <1>5, RelistedIs
<1>6. QED
    BY <1>2, <1>4, <1>5

LEMMA RaiseWatchSnapshotIs ==
    ASSUME ~IsFiniteSet(LimboTarget), wire \in Seq(Message), engine \in Engine,
           NEW c \in Full, Linked(Both(c)), NEW version \in 0..MaxVersion, NEW late
    PROVE  LET x == RaiseWatchSnapshot(c, version, late)
               event == CreateRemoteEvent(c.remote, version).event
               b == [c EXCEPT !.remote = Raising(c.remote, version)]
           IN  /\ x \in Full /\ Linked(Both(x))
               /\ Event(event) /\ b \in Full /\ Linked(Both(b))
               /\ b.disk = c.disk /\ b.engine = c.engine /\ b.remote = Raising(c.remote, version)
               /\ x = ApplyRemoteEvent(b, event, late)
<1> DEFINE x == RaiseWatchSnapshot(c, version, late)
           event == CreateRemoteEvent(c.remote, version).event
           r == Raising(c.remote, version)
           b == [c EXCEPT !.remote = r]
<1>1. c.engine \in Engine /\ c.disk \in Disk /\ c.remote \in Remote
    BY DEF Full
<1>2. Keyed(c.remote)
    <2>1. Both(c) \in Client
        BY <1>1 DEF Both, Client
    <2>2. QED
        BY <2>1, LinkedIsKeyed DEF Both
<1>3. Event(event)
    BY <1>1, <1>2, CreateRemoteEventIs DEF Event
<1>4. x = ApplyRemoteEvent(b, event, late)
    BY DEF RaiseWatchSnapshot, Raising, WithTokens, Relisted, Anew
<1> HIDE DEF x, event
<1>5. /\ r \in Remote /\ DOMAIN r.listens = DOMAIN c.remote.listens
      /\ \A t \in DOMAIN c.remote.listens : t # Query => r.listens[t].docs = c.remote.listens[t].docs
    BY <1>1, <1>2, RaisingIs
<1> HIDE DEF r
<1>6. /\ b.disk = c.disk /\ b.engine = c.engine /\ b.remote = r
      /\ b = [disk |-> b.disk, engine |-> b.engine, remote |-> b.remote]
    BY DEF Full
<1> HIDE DEF b
<1>7. b \in Full
    BY <1>1, <1>5, <1>6 DEF Full
<1>8. Query \notin DOMAIN c.engine.resolutions
    BY <1>1, ResolutionIs, Targets
<1>9. Linked(Both(b))
    BY <1>5, <1>6, <1>8, LinkSame DEF Both
<1>10. x \in Full /\ Linked(Both(x))
    BY <1>3, <1>4, <1>7, <1>9, ApplyRemoteEventIs
<1>11. QED
    BY <1>3, <1>4, <1>6, <1>7, <1>9, <1>10 DEF x, event, r, b

\* A limbo resolution that is refused: RemoteStore and SyncEngine forget it,
\* and its document is taken for deleted.
Forgotten(e, t) ==
    [e EXCEPT !.byKey = Drop(@, e.resolutions[t].key), !.resolutions = Drop(@, t)]
Unlistened(r, t) == [r EXCEPT !.listens = Drop(@, t), !.states = Drop(@, t)]
Purge(d) == [version |-> 0, updates |-> [x \in {d} |-> Absent], changes |-> Empty]

LEMMA UnlistenedIs ==
    ASSUME NEW r \in Remote, NEW t
    PROVE  /\ Unlistened(r, t) \in Remote
           /\ Unlistened(r, t).listens = Drop(r.listens, t)
           /\ Unlistened(r, t).states = Drop(r.states, t)
           /\ Unlistened(r, t).online = r.online /\ Unlistened(r, t).stream = r.stream
           /\ Unlistened(r, t).idle = r.idle /\ Unlistened(r, t).requests = r.requests
<1>1. /\ Drop(r.listens, t) \in PFun(Target, TargetData)
      /\ Drop(r.states, t) \in PFun(Target, TargetState)
    BY DropIs DEF Remote
<1>2. QED
    BY <1>1 DEF Unlistened, Remote

LEMMA ForgottenIs ==
    ASSUME NEW e \in Engine, NEW r \in Remote, Linked([engine |-> e, remote |-> r]),
           NEW t \in DOMAIN e.resolutions
    PROVE  /\ Forgotten(e, t) \in Engine
           /\ Forgotten(e, t).resolutions = Drop(e.resolutions, t)
           /\ Forgotten(e, t).byKey = Drop(e.byKey, e.resolutions[t].key)
           /\ Forgotten(e, t).listening = e.listening /\ Forgotten(e, t).synced = e.synced
           /\ [engine |-> Forgotten(e, t), remote |-> Unlistened(r, t)] \in Fit
<1> DEFINE q == Forgotten(e, t)
           p == Unlistened(r, t)
<1>1. /\ Drop(e.byKey, e.resolutions[t].key) \in PFun(Doc, LimboTarget)
      /\ Drop(e.resolutions, t) \in PFun(LimboTarget, Resolution)
    BY DropIs DEF Engine
<1>2. /\ q \in Engine /\ q.resolutions = Drop(e.resolutions, t)
      /\ q.byKey = Drop(e.byKey, e.resolutions[t].key)
      /\ q.listening = e.listening /\ q.synced = e.synced
    BY <1>1 DEF Forgotten, Engine
<1>3. p \in Remote /\ p.listens = Drop(r.listens, t)
    BY UnlistenedIs
<1> HIDE DEF q, p
<1>4. Linked([engine |-> q, remote |-> p])
    BY <1>2, <1>3, LinkDrop
<1>5. [engine |-> q, remote |-> p] \in Fit
    BY <1>2, <1>3, <1>4, MakeFit
<1>6. QED
    BY <1>2, <1>5 DEF q, p

LEMMA PurgeIs ==
    ASSUME NEW d \in Doc
    PROVE  Event(Purge(d))
<1>1. [x \in {d} |-> Absent] \in PFun(Doc, Level)
    <2>1. [x \in {d} |-> Absent] \in [{d} -> Level]
        BY Levels
    <2>2. {d} \in SUBSET Doc /\ IsFiniteSet({d})
        BY FS_Singleton
    <2>3. QED
        BY <2>1, <2>2, IsPFun
<1>2. Empty \in PFun(Target, TargetState)
    BY EmptyPFun
<1>3. 0 \in 0..MaxVersion
    BY FirestoreWatchAssumption
<1>4. QED
    BY <1>1, <1>2, <1>3 DEF Event, Purge

LEMMA WithoutViewIs ==
    ASSUME NEW e \in Engine
    PROVE  /\ WithoutView(e) \in Engine
           /\ ~WithoutView(e).listening /\ WithoutView(e).byKey = e.byKey
           /\ WithoutView(e).resolutions = e.resolutions /\ WithoutView(e).synced = {}
BY FirstEngineIs DEF WithoutView, FirstEngine, Engine

\* The query goes: what is left is linked.
LEMMA LinkWithoutQuery ==
    ASSUME NEW e \in Engine, NEW r \in Remote, Linked([engine |-> e, remote |-> r]),
           NEW p \in Remote, p.listens = Drop(r.listens, Query)
    PROVE  Linked([engine |-> WithoutView(e), remote |-> p])
<1>1. /\ ~WithoutView(e).listening /\ WithoutView(e).byKey = e.byKey
      /\ WithoutView(e).resolutions = e.resolutions
    BY WithoutViewIs
<1>2. Query \notin DOMAIN e.resolutions
    BY ResolutionIs, Targets
<1>3. /\ DOMAIN r.listens = DOMAIN e.resolutions \cup (IF e.listening THEN {Query} ELSE {})
      /\ \A x \in DOMAIN e.byKey :
            e.byKey[x] \in DOMAIN e.resolutions /\ e.resolutions[e.byKey[x]].key = x
      /\ \A t \in DOMAIN e.resolutions : r.listens[t].docs = {e.resolutions[t].key}
    BY DEF Linked
<1>4. /\ DOMAIN p.listens = DOMAIN r.listens \ {Query}
      /\ \A t \in DOMAIN r.listens : t # Query => p.listens[t] = r.listens[t]
    BY DEF Drop
<1> HIDE DEF WithoutView
<1>5. DOMAIN p.listens = DOMAIN e.resolutions
    BY <1>2, <1>3, <1>4
<1>6. \A t \in DOMAIN e.resolutions : p.listens[t].docs = {e.resolutions[t].key}
    BY <1>2, <1>3, <1>4
<1>7. QED
    BY <1>1, <1>3, <1>5, <1>6 DEF Linked

LEMMA ProcessTargetErrorIs ==
    ASSUME ~IsFiniteSet(LimboTarget), wire \in Seq(Message),
           NEW c \in Full, Linked(Both(c)), NEW t \in Target
    PROVE  LET x == ProcessTargetError(c, t)
           IN  x \in Full /\ Linked(Both(x))
<1> DEFINE x == ProcessTargetError(c, t)
           e == c.engine
           r == Unlistened(c.remote, t)
           left == CleanupTarget([engine |-> e, remote |-> r])
           pumped == PumpEnqueuedLimboResolutions([engine |-> Forgotten(e, t), remote |-> r])
<1>1. c.engine \in Engine /\ c.disk \in Disk /\ c.remote \in Remote
      /\ Linked([engine |-> c.engine, remote |-> c.remote])
    BY DEF Full, Both
<1>2. r \in Remote /\ r.listens = Drop(c.remote.listens, t)
    BY <1>1, UnlistenedIs
<1>3. CASE t \notin DOMAIN c.remote.listens
    BY <1>3 DEF ProcessTargetError
<1>4. CASE t \in DOMAIN e.resolutions
    <2> DEFINE d == e.resolutions[t].key
               b == [disk |-> c.disk, engine |-> pumped.engine, remote |-> pumped.remote]
    <2>1. t \in DOMAIN c.remote.listens /\ d \in Doc
        BY <1>1, <1>4, ResolutionIs DEF Linked
    <2>2. x = ApplyRemoteEvent(b, Purge(d), FALSE)
        BY <1>4, <2>1 DEF ProcessTargetError, HandleRejectedListen, Unlistened, Forgotten, Purge
    <2>3. [engine |-> Forgotten(e, t), remote |-> r] \in Fit
        BY <1>1, <1>4, ForgottenIs
    <2>4. pumped \in Fit
        BY <2>3, PumpFits
    <2> HIDE DEF x, pumped, d
    <2>5. /\ pumped.engine \in Engine /\ pumped.remote \in Remote
          /\ Linked([engine |-> pumped.engine, remote |-> pumped.remote])
        BY <2>4, FitIs
    <2>6. b \in Full /\ Linked(Both(b))
        BY <1>1, <2>5 DEF Full, Both
    <2> HIDE DEF b
    <2>7. Event(Purge(d))
        BY <2>1, PurgeIs
    <2>8. /\ ApplyRemoteEvent(b, Purge(d), FALSE) \in Full
          /\ Linked(Both(ApplyRemoteEvent(b, Purge(d), FALSE)))
        BY <2>6, <2>7, ApplyRemoteEventIs
    <2>9. x \in Full /\ Linked(Both(x))
        BY <2>2, <2>8
    <2>10. QED
        BY <2>9 DEF x
<1>5. CASE t \in DOMAIN c.remote.listens /\ t \notin DOMAIN e.resolutions
    <2>1. x = [[c EXCEPT !.remote = r, !.disk.saved = e.data]
                   EXCEPT !.engine = left.engine, !.remote = left.remote]
        BY <1>5 DEF ProcessTargetError, HandleRejectedListen, Unlistened, ReleaseTarget, Full
    <2>2. t = Query
        BY <1>1, <1>5 DEF Linked
    <2>3. Linked([engine |-> WithoutView(e), remote |-> r])
        BY <1>1, <1>2, <2>2, LinkWithoutQuery
    <2>4. left \in Fit
        BY <1>1, <1>2, <2>3, CleanupFits DEF Client
    <2> HIDE DEF left, r
    <2>5. left.engine \in Engine /\ left.remote \in Remote
          /\ Linked([engine |-> left.engine, remote |-> left.remote])
        BY <2>4, FitIs
    <2>6. /\ x.disk = [c.disk EXCEPT !.saved = e.data]
          /\ x.engine = left.engine /\ x.remote = left.remote
          /\ x = [disk |-> x.disk, engine |-> x.engine, remote |-> x.remote]
        BY <2>1 DEF Full
    <2>7. x.disk \in Disk
        BY <1>1, <2>6 DEF Disk, Engine
    <2> HIDE DEF x
    <2>8. x \in Full /\ Linked(Both(x))
        BY <2>5, <2>6, <2>7 DEF Full, Both
    <2>9. QED
        BY <2>8 DEF x
<1>6. QED
    BY <1>3, <1>4, <1>5

-----------------------------------------------------------------------------
(* All that is listened to is asked for, one after the other.              *)

SolvesWatch(f, b, s) ==
    f = [T \in SUBSET DOMAIN s |->
            IF T = {} THEN b
            ELSE Send(f[T \ {Max(T)}],
                      Request("watch", s[Max(T)], f[T \ {Max(T)}].listens[s[Max(T)]]))]

\* A step of the loop of OnWatchStreamOpen.
Asking(x, t) == Send(x, Request("watch", t, x.listens[t]))

\* The turns of the loop of OnWatchStreamOpen, from an open stream to WatchAll.
LEMMA WatchTurns ==
    ASSUME NEW r \in Remote, NEW order \in Seq(DOMAIN r.listens)
    PROVE  \E st : /\ st \in [0..Len(order) -> {x \in Remote : x.listens = r.listens}]
                   /\ st[0] = [r EXCEPT !.stream = "open"]
                   /\ \A k \in 1..Len(order) : st[k] = Asking(st[k - 1], order[k])
                   /\ st[Len(order)] = WatchAll(r, order)
<1> DEFINE R == {x \in Remote : x.listens = r.listens}
           b == [r EXCEPT !.stream = "open"]
           n == Len(order)
           F == [p \in (1..n) \X R |-> Asking(p[2], order[p[1]])]
           f == CHOOSE g : SolvesWatch(g, b, order)
<1>1. n \in Nat /\ DOMAIN order = 1..n /\ \A i \in 1..n : order[i] \in DOMAIN r.listens
    OBVIOUS
<1>2. ASSUME NEW x \in R, NEW t \in DOMAIN r.listens
      PROVE  Asking(x, t) \in R
    <2>1. t \in Target /\ x.listens[t] \in TargetData /\ x \in Remote /\ x.listens = r.listens
        BY PFunIs DEF Remote
    <2>2. Request("watch", t, x.listens[t]) \in Requests
        BY <2>1, RequestIs
    <2> HIDE DEF R
    <2>3. /\ Send(x, Request("watch", t, x.listens[t])) \in Remote
          /\ Send(x, Request("watch", t, x.listens[t])).listens = x.listens
        BY <2>1, <2>2, SendIs
    <2>4. QED
        BY <2>1, <2>3 DEF Asking, R
<1>3. F \in [(1..n) \X R -> R]
    BY <1>1, <1>2
<1>4. \A i \in 1..n, c \in R : F[<<i, c>>] = Asking(c, order[i])
    OBVIOUS
<1>5. WatchAll(r, order) = f[DOMAIN order]
    BY DEF WatchAll, FoldLeft, MapThenFoldSet, SolvesWatch
<1>6. b \in R
    BY DEF Remote
<1> HIDE DEF n, F, b, R
<1>7. PICK g : Runs(g, R, n, b, F)
    BY <1>1, <1>3, <1>6, RunsExist
<1>8. \A T \in SUBSET (1..n) : T # {} => Max(T) \in 1..n /\ T \ {Max(T)} \in SUBSET (1..n)
    BY <1>1, MaxIn
<1>9. SolvesWatch(g, b, order)
    <2>1. ASSUME NEW T \in SUBSET (1..n)
          PROVE  g[T] = IF T = {} THEN b ELSE Asking(g[T \ {Max(T)}], order[Max(T)])
        BY <1>4, <1>7, <1>8 DEF Runs
    <2>2. g = [T \in SUBSET (1..n) |-> g[T]]
        BY <1>7 DEF Runs
    <2>3. QED
        BY <1>1, <2>1, <2>2, Zenon DEF SolvesWatch, Asking
<1>10. SolvesWatch(f, b, order)
    BY <1>9, Zenon
<1> HIDE DEF f
<1>11. f[{}] = b
    BY <1>10 DEF SolvesWatch
<1>12. \A T \in SUBSET (1..n) : T # {} => f[T] = Asking(f[T \ {Max(T)}], order[Max(T)])
    BY <1>1, <1>10 DEF SolvesWatch, Asking
<1> DEFINE st == [k \in 0..n |-> f[1..k]]
<1>13. \A k \in 1..n : f[1..k] = Asking(f[1..(k - 1)], order[k])
    BY <1>1, <1>12, LastTurn
<1>14. f[1..0] = b
    <2>1. 1..0 = {}
        OBVIOUS
    <2>2. QED
        BY <1>11, <2>1
<1>15. \A k \in 0..n : f[1..k] \in R
    <2> DEFINE P == {k \in 0..n : f[1..k] \in R}
               Q(m) == {k \in 0..m : f[1..k] \in R}
    <2>1. ASSUME NEW m \in 0..n
          PROVE  m \in P
        <3>1. 0 \in Q(m)
            BY <1>6, <1>14
        <3>2. \A k \in 1..m : k - 1 \in Q(m) => k \in Q(m)
            BY <1>1, <1>2, <1>13
        <3>3. m \in Nat
            BY <1>1
        <3> HIDE DEF Q
        <3>4. m \in Q(m)
            BY <3>1, <3>2, <3>3, Upwards
        <3>5. QED
            BY <3>4 DEF Q
    <2>2. QED
        BY <2>1
<1>16. st \in [0..n -> R] /\ st[0] = b /\ st[n] = WatchAll(r, order)
    BY <1>1, <1>5, <1>14, <1>15
<1>17. \A k \in 1..n : st[k] = Asking(st[k - 1], order[k])
    BY <1>1, <1>13
<1>18. QED
    BY <1>16, <1>17, Zenon DEF n, R, b

LEMMA WatchAllIs ==
    ASSUME NEW r \in Remote, NEW order \in Seq(DOMAIN r.listens)
    PROVE  /\ WatchAll(r, order) \in Remote /\ WatchAll(r, order).listens = r.listens
<1>1. PICK st : /\ st \in [0..Len(order) -> {x \in Remote : x.listens = r.listens}]
                /\ st[Len(order)] = WatchAll(r, order)
    BY WatchTurns, Zenon
<1>2. Len(order) \in 0..Len(order)
    OBVIOUS
<1>3. st[Len(order)] \in {x \in Remote : x.listens = r.listens}
    BY <1>1, <1>2
<1>4. QED
    BY <1>1, <1>3

(***************************************************************************)
(* Type correctness.                                                       *)
(***************************************************************************)

Snapshots(w, n) == \A i \in DOMAIN w : w[i].type = "snapshot" => w[i].version \in 0..n

TypeInv ==
    /\ disk \in Disk /\ engine \in Engine /\ remote \in Remote
    /\ Linked([engine |-> engine, remote |-> remote])
    /\ wire \in Seq(Message) /\ watched \in PFun(Target, SUBSET Doc)
    /\ history \in Seq([Doc -> Level]) /\ Len(history) \in 1..MaxVersion
    /\ served \in 0..Len(history) /\ viewVersion \in 0..Len(history)
    /\ remote.stream = "open" => served > 0
    /\ Snapshots(wire, Len(history))

\* A turn of the pump listens to a limbo document under a fresh id, or does
\* nothing.
LEMMA PumpOneIs ==
    ASSUME ~IsFiniteSet(LimboTarget), wire \in Seq(Message), NEW c \in Fit
    PROVE  \/ PumpOne(c) = c
           \/ \E d \in Doc :
                 /\ PumpOne(c).remote = ListenTo(c.remote, NextId(c), [token |-> 0, docs |-> {d}])
                 /\ PumpOne(c).engine.synced = c.engine.synced
                 /\ PumpOne(c).engine.listening = c.engine.listening
                 /\ PumpOne(c).engine.resolutions =
                       With(c.engine.resolutions, NextId(c), [key |-> d, received |-> FALSE])
<1> DEFINE e == c.engine
           d == Head(e.enqueued)
           id == NextId(c)
           b == IF d \in DOMAIN e.byKey THEN e.byKey ELSE With(e.byKey, d, id)
           s == With(e.resolutions, id, [key |-> d, received |-> FALSE])
           q == [e EXCEPT !.enqueued = Tail(@),
                          !.byKey = IF d \in DOMAIN @ THEN @ ELSE With(@, d, id),
                          !.resolutions = With(@, id, [key |-> d, received |-> FALSE])]
           p == ListenTo(c.remote, id, [token |-> 0, docs |-> {d}])
<1>1. PumpOne(c) = c \/ (e.enqueued # <<>> /\ PumpOne(c) = [engine |-> q, remote |-> p])
    BY DEF PumpOne
<1>2. e \in Engine
    BY FitIs
<1>3. ASSUME e.enqueued # <<>> PROVE d \in Doc
    BY <1>2, <1>3 DEF Engine
<1>4. q = [e EXCEPT !.enqueued = Tail(e.enqueued), !.byKey = b, !.resolutions = s]
    OBVIOUS
<1> HIDE DEF b, s, d, id, e, p
<1>5. q.resolutions = s /\ q.synced = e.synced /\ q.listening = e.listening
    BY <1>2, <1>4 DEF Engine
<1> HIDE DEF q
<1>6. /\ p = ListenTo(c.remote, NextId(c), [token |-> 0, docs |-> {d}])
      /\ s = With(c.engine.resolutions, NextId(c), [key |-> d, received |-> FALSE])
      /\ e = c.engine
    BY DEF s, p, id, e
<1>7. CASE PumpOne(c) = c
    BY <1>7
<1>8. CASE e.enqueued # <<>> /\ PumpOne(c) = [engine |-> q, remote |-> p]
    <2>1. d \in Doc
        BY <1>3, <1>8
    <2>2. PumpOne(c).remote = p /\ PumpOne(c).engine = q
        BY <1>8
    <2>3. /\ PumpOne(c).remote = ListenTo(c.remote, NextId(c), [token |-> 0, docs |-> {d}])
          /\ PumpOne(c).engine.synced = c.engine.synced
          /\ PumpOne(c).engine.listening = c.engine.listening
          /\ PumpOne(c).engine.resolutions =
                With(c.engine.resolutions, NextId(c), [key |-> d, received |-> FALSE])
        BY <1>5, <1>6, <2>2
    <2>4. QED
        BY <2>1, <2>3
<1>9. QED
    BY <1>1, <1>7, <1>8

LEMMA StreamIsClosed ==
    ASSUME ~IsFiniteSet(LimboTarget), wire \in Seq(Message), NEW P \in BOOLEAN
    PROVE  Closed({c \in Fit : c.remote.stream = "open" => P})
<1> DEFINE R == {c \in Fit : c.remote.stream = "open" => P}
<1>1. ASSUME NEW c \in R PROVE PumpOne(c) \in R
    <2>1. PumpOne(c) \in Fit
        BY PumpOneFits
    <2>2. CASE PumpOne(c) = c
        BY <2>2
    <2>3. CASE \E d \in Doc :
                  PumpOne(c).remote = ListenTo(c.remote, NextId(c), [token |-> 0, docs |-> {d}])
        <3>1. PICK d \in Doc :
                  PumpOne(c).remote = ListenTo(c.remote, NextId(c), [token |-> 0, docs |-> {d}])
            BY <2>3
        <3>2. [token |-> 0, docs |-> {d}] \in TargetData
            BY DEF TargetData
        <3>3. NextId(c) \in Target /\ c.remote \in Remote
            BY FitIs, NextIdIs, Targets
        <3>4. \A data \in TargetData : ListenTo(c.remote, NextId(c), data).stream =
                 IF c.remote.stream = "off" THEN "starting" ELSE c.remote.stream
            BY <3>3, ListenToIs
        <3>5. PumpOne(c).remote.stream = IF c.remote.stream = "off" THEN "starting" ELSE c.remote.stream
            BY <3>1, <3>2, <3>4
        <3>6. QED
            BY <2>1, <3>5
    <2>4. QED
        BY <2>2, <2>3, PumpOneIs
<1>2. ASSUME NEW c \in R, NEW d \in DOMAIN c.engine.byKey PROVE Freed(c, d) \in R
    <2>1. Freed(c, d) \in Fit
        BY FreedFits
    <2>2. c.engine.byKey[d] \in DOMAIN c.remote.listens
        BY FitIs DEF Linked
    <2>3. Freed(c, d).remote.stream = c.remote.stream
        BY <2>2, FitIs, StopListeningToIs DEF Freed
    <2>4. QED
        BY <2>1, <2>3
<1>3. ASSUME NEW c \in R, NEW s \in Seq(Doc) PROVE Queued(c, s) \in R
    BY QueuedFits DEF Queued
<1>4. ASSUME NEW c \in R, NEW l \in SUBSET Doc PROVE InLimbo(c, l) \in R
    BY InLimboFits DEF InLimbo
<1>5. QED
    BY <1>1, <1>2, <1>3, <1>4 DEF Closed

LEMMA InitTyped ==
    Init => TypeInv
<1> SUFFICES ASSUME Init PROVE TypeInv
    OBVIOUS
<1>1. engine \in Engine /\ remote \in Remote
    BY FirstEngineIs, FirstRemoteIs DEF Init
<1>2. disk \in Disk
    BY Levels, FirestoreWatchAssumption DEF Init, Disk, NoData, Data
<1>3. Linked([engine |-> engine, remote |-> remote])
    BY EmptyIs DEF Init, Linked, FirstEngine, FirstRemote
<1>4. /\ wire \in Seq(Message) /\ Snapshots(wire, Len(history))
      /\ remote.stream # "open"
    BY DEF Init, Snapshots, FirstRemote
<1>5. watched \in PFun(Target, SUBSET Doc)
    BY EmptyPFun DEF Init
<1>6. history \in Seq([Doc -> Level]) /\ Len(history) = 1
    <2>1. PICK documents \in [Doc -> {Absent, Matching}] : history = <<documents>>
        BY DEF Init
    <2>2. documents \in [Doc -> Level]
        BY Levels
    <2>3. QED
        BY <2>1, <2>2
<1>7. served \in 0..Len(history) /\ viewVersion \in 0..Len(history) /\ Len(history) \in 1..MaxVersion
    BY <1>6, FirestoreWatchAssumption DEF Init
<1>8. QED
    BY <1>1, <1>2, <1>3, <1>4, <1>5, <1>6, <1>7 DEF TypeInv

-----------------------------------------------------------------------------
(* The app and the clock                                                   *)

LEMMA ListenTyped ==
    ASSUME TypeInv, Listen
    PROVE  TypeInv'
<1> DEFINE data == [token |-> disk.saved.token, docs |-> Doc]
<1>1. /\ engine \in Engine /\ remote \in Remote /\ disk \in Disk
      /\ Linked([engine |-> engine, remote |-> remote])
    BY DEF TypeInv
<1>2. data \in TargetData /\ Query \in Target
    BY <1>1, Targets DEF Disk, Data, TargetData
<1>3. remote' = ListenTo(remote, Query, data)
    BY DEF Listen
<1> HIDE DEF data
<1>4. /\ remote' \in Remote /\ remote'.listens = With(remote.listens, Query, data)
      /\ remote'.stream = IF remote.stream = "off" THEN "starting" ELSE remote.stream
    BY <1>1, <1>2, <1>3, ListenToIs
<1>5. /\ engine' \in Engine /\ engine'.listening
      /\ engine'.byKey = engine.byKey /\ engine'.resolutions = engine.resolutions
    <2>1. GetDocumentsMatchingQuery \in SUBSET Doc /\ disk.keys \in SUBSET Doc /\ disk.saved \in Data
        BY <1>1 DEF GetDocumentsMatchingQuery, Disk
    <2>2. engine' = [engine EXCEPT !.listening = TRUE, !.documents = GetDocumentsMatchingQuery,
                                   !.synced = disk.keys, !.data = disk.saved]
        BY DEF Listen
    <2> HIDE DEF GetDocumentsMatchingQuery
    <2>3. QED
        BY <1>1, <2>1, <2>2 DEF Engine
<1>6. Query \notin DOMAIN engine.resolutions
    BY <1>1, ResolutionIs, Targets
<1>7. Linked([engine |-> engine', remote |-> remote'])
    <2>1. DOMAIN remote.listens = DOMAIN engine.resolutions
        BY <1>1 DEF Linked, Listen
    <2>2. /\ DOMAIN remote'.listens = DOMAIN remote.listens \cup {Query}
          /\ \A t \in DOMAIN remote.listens : t # Query => remote'.listens[t] = remote.listens[t]
        BY <1>4 DEF With
    <2>3. QED
        BY <1>1, <1>5, <1>6, <2>1, <2>2 DEF Linked
<1>8. UNCHANGED <<disk, wire, history, served, watched, viewVersion>>
    BY DEF Listen, backend
<1>9. QED
    BY <1>4, <1>5, <1>7, <1>8 DEF TypeInv, Snapshots

LEMMA StopListeningTyped ==
    ASSUME ~IsFiniteSet(LimboTarget), TypeInv, StopListening
    PROVE  TypeInv'
<1> DEFINE r == StopListeningTo(remote, Query)
           left == CleanupTarget([engine |-> engine, remote |-> r])
           R == {c \in Fit : c.remote.stream = "open" => served > 0}
<1>1. /\ engine \in Engine /\ remote \in Remote /\ disk \in Disk /\ wire \in Seq(Message)
      /\ Linked([engine |-> engine, remote |-> remote])
    BY DEF TypeInv
<1>2. Query \in DOMAIN remote.listens
    BY <1>1 DEF Linked, StopListening
<1>3. r \in Remote /\ r.listens = Drop(remote.listens, Query) /\ r.stream = remote.stream
    BY <1>1, <1>2, StopListeningToIs
<1>4. engine' = left.engine /\ remote' = left.remote
    BY DEF StopListening
<1> HIDE DEF r
<1>5. Linked([engine |-> WithoutView(engine), remote |-> r])
    BY <1>1, <1>3, LinkWithoutQuery
<1>6. [engine |-> WithoutView(engine), remote |-> r] \in R
    <2>1. [engine |-> WithoutView(engine), remote |-> r] \in Fit
        BY <1>1, <1>3, <1>5, WithoutViewIs, MakeFit
    <2>2. QED
        BY <1>3, <2>1 DEF TypeInv
<1>7. left \in R
    <2>1. (served > 0) \in BOOLEAN
        OBVIOUS
    <2>2. Closed(R)
        BY <1>1, <2>1, StreamIsClosed
    <2>3. [engine |-> engine, remote |-> r] \in Client
        BY <1>1, <1>3 DEF Client
    <2> HIDE DEF R
    <2>4. R \in SUBSET Fit
        BY DEF R
    <2>5. QED
        BY <1>6, <2>2, <2>3, <2>4, CleanupStays
<1> HIDE DEF left
<1>8. /\ left.engine \in Engine /\ left.remote \in Remote
      /\ Linked([engine |-> left.engine, remote |-> left.remote])
      /\ left.remote.stream = "open" => served > 0
    BY <1>7, FitIs
<1>9. disk' \in Disk
    <2>1. disk' = [disk EXCEPT !.saved = engine.data]
        BY DEF StopListening, ReleaseTarget
    <2>2. engine.data \in Data
        BY <1>1 DEF Engine
    <2>3. QED
        BY <1>1, <2>1, <2>2 DEF Disk
<1>10. UNCHANGED <<wire, history, served, watched, viewVersion>>
    BY DEF StopListening, backend
<1>11. QED
    BY <1>4, <1>8, <1>9, <1>10 DEF TypeInv, Snapshots

LEMMA KillTyped ==
    ASSUME TypeInv, Kill
    PROVE  TypeInv'
<1>1. engine' \in Engine /\ remote' \in Remote /\ remote'.stream = "off"
    BY FirstEngineIs, FirstRemoteIs DEF Kill, FirstRemote
<1>2. Linked([engine |-> engine', remote |-> remote'])
    BY EmptyIs DEF Kill, Linked, FirstEngine, FirstRemote
<1>3. watched' \in PFun(Target, SUBSET Doc)
    BY EmptyPFun DEF Kill
<1>4. wire' = <<>> /\ UNCHANGED <<disk, history, served, viewVersion>>
    BY DEF Kill
<1>5. QED
    BY <1>1, <1>2, <1>3, <1>4 DEF TypeInv, Snapshots

\* Going offline changes what the view says of itself only.
LEMMA BroadcastIs ==
    ASSUME NEW e \in Engine, NEW r
    PROVE  /\ Broadcast(e, r) \in Engine
           /\ Broadcast(e, r).listening = e.listening /\ Broadcast(e, r).byKey = e.byKey
           /\ Broadcast(e, r).resolutions = e.resolutions
           /\ Broadcast(e, r).synced = e.synced
BY DEF Broadcast, Engine

\* A client whose sync engine has the same targets, and that listens to the
\* same ones, is linked.
LEMMA LinkKept ==
    ASSUME NEW e \in Engine, NEW r, Linked([engine |-> e, remote |-> r]), NEW q, NEW p,
           q.listening = e.listening, q.byKey = e.byKey, q.resolutions = e.resolutions,
           p.listens = r.listens
    PROVE  Linked([engine |-> q, remote |-> p])
BY DEF Linked

LEMMA OnlineStateTimeoutTyped ==
    ASSUME TypeInv, OnlineStateTimeout
    PROVE  TypeInv'
<1>1. /\ engine \in Engine /\ remote \in Remote
      /\ Linked([engine |-> engine, remote |-> remote])
    BY DEF TypeInv
<1>2. remote' \in Remote /\ remote'.listens = remote.listens /\ remote'.stream = remote.stream
    <2> DEFINE o == [remote.online EXCEPT !.timer = FALSE, !.state = "Offline"]
    <2>1. o \in OnlineState
        BY <1>1 DEF Remote, OnlineState
    <2>2. remote' = [remote EXCEPT !.online = o]
        BY DEF OnlineStateTimeout
    <2> HIDE DEF o
    <2>3. QED
        BY <1>1, <2>1, <2>2 DEF Remote
<1>3. /\ engine' \in Engine /\ engine'.listening = engine.listening
      /\ engine'.byKey = engine.byKey /\ engine'.resolutions = engine.resolutions
    BY <1>1, BroadcastIs DEF OnlineStateTimeout
<1>4. Linked([engine |-> engine', remote |-> remote'])
    BY <1>1, <1>2, <1>3, LinkKept
<1>5. UNCHANGED <<disk, wire, history, served, watched, viewVersion>>
    BY DEF OnlineStateTimeout, backend
<1>6. QED
    BY <1>2, <1>3, <1>4, <1>5 DEF TypeInv, Snapshots

-----------------------------------------------------------------------------
(* The stream                                                              *)

LEMMA OnlineIs ==
    /\ \A s \in {"Unknown", "Online", "Offline"} :
          /\ Online(s) \in OnlineState /\ Online(s).state = s /\ ~Online(s).timer
    /\ \A o \in OnlineState : HandleWatchStreamFailure(o) \in OnlineState
BY DEF Online, OnlineState, HandleWatchStreamFailure

LEMMA OnlineSet ==
    ASSUME NEW r \in Remote, NEW o \in OnlineState
    PROVE  LET x == [r EXCEPT !.online = o]
           IN  /\ x \in Remote
               /\ x.listens = r.listens /\ x.stream = r.stream /\ x.idle = r.idle
               /\ x.requests = r.requests /\ x.states = r.states /\ x.online = o
BY DEF Remote

LEMMA OrderIs ==
    ASSUME NEW r \in Remote, NEW order \in SetToSeqs(DOMAIN r.listens)
    PROVE  /\ order \in Seq(DOMAIN r.listens) /\ DOMAIN order = 1..Len(order)
           /\ \A i, j \in DOMAIN order : i # j => order[i] # order[j]
<1> DEFINE S == DOMAIN r.listens
           n == Cardinality(S)
<1>1. order \in [1..n -> S] /\ \A i, j \in 1..n : i # j => order[i] # order[j]
    BY DEF SetToSeqs
<1>2. n \in Nat
    <2>1. r.listens \in PFun(Target, TargetData)
        BY DEF Remote
    <2>2. IsFiniteSet(S)
        BY <2>1, PFunIs
    <2>3. QED
        BY <2>2, FS_CardinalityType
<1> HIDE DEF n, S
<1>3. order \in Seq(S) /\ Len(order) = n /\ DOMAIN order = 1..n
    BY <1>1, <1>2
<1>4. QED
    BY <1>1, <1>3 DEF S

LEMMA OpenTyped ==
    ASSUME TypeInv, Open
    PROVE  TypeInv'
<1>1. /\ engine \in Engine /\ remote \in Remote
      /\ Linked([engine |-> engine, remote |-> remote])
    BY DEF TypeInv
<1>2. PICK order \in SetToSeqs(DOMAIN remote.listens) : remote' = WatchAll(remote, order)
    BY DEF Open
<1>3. remote' \in Remote /\ remote'.listens = remote.listens
    BY <1>1, <1>2, OrderIs, WatchAllIs
<1>4. Linked([engine |-> engine, remote |-> remote'])
    BY <1>1, <1>3, LinkKept
<1>5. served' \in 1..Len(history)
    BY DEF Open
<1>6. UNCHANGED <<disk, engine, wire, history, watched, viewVersion>>
    BY DEF Open
<1>7. served' \in 0..Len(history) /\ served' > 0
    BY <1>5 DEF TypeInv
<1>8. QED
    BY <1>3, <1>4, <1>6, <1>7 DEF TypeInv, Snapshots

\* Whatever becomes of the client when the stream goes: it is still linked.
LEMMA DisconnectedTyped ==
    ASSUME TypeInv, Disconnected, NEW r \in Remote, remote' = r,
           r.listens = remote.listens, r.stream # "open",
           engine' \in Engine, engine'.listening = engine.listening,
           engine'.byKey = engine.byKey, engine'.resolutions = engine.resolutions
    PROVE  TypeInv'
<1>1. Linked([engine |-> engine', remote |-> r])
    BY LinkKept DEF TypeInv
<1>2. watched' \in PFun(Target, SUBSET Doc)
    BY EmptyPFun DEF Disconnected
<1>3. wire' = <<>> /\ UNCHANGED <<disk, history, served, viewVersion>>
    BY DEF Disconnected
<1>4. QED
    BY <1>1, <1>2, <1>3 DEF TypeInv, Snapshots

\* The ways in which the stream goes.
LEMMA StoppedIs ==
    ASSUME NEW r \in Remote
    PROVE  LET stopped == [CleanUp(r) EXCEPT !.online = Online("Unknown")]
               again == StartWatchStream(stopped)
           IN  /\ stopped \in Remote /\ stopped.listens = r.listens /\ stopped.stream = "off"
               /\ again \in Remote /\ again.listens = r.listens /\ again.stream = "starting"
<1> DEFINE stopped == [CleanUp(r) EXCEPT !.online = Online("Unknown")]
<1>1. stopped \in Remote /\ stopped.listens = r.listens /\ stopped.stream = "off"
    BY CleanUpIs, OnlineIs, OnlineSet
<1> HIDE DEF stopped
<1>2. /\ StartWatchStream(stopped) \in Remote /\ StartWatchStream(stopped).listens = r.listens
      /\ StartWatchStream(stopped).stream = "starting"
    BY <1>1, StartWatchStreamIs
<1>3. QED
    BY <1>1, <1>2 DEF stopped

LEMMA CloseTyped ==
    ASSUME TypeInv, Close
    PROVE  TypeInv'
<1> DEFINE closed == CleanUp(remote)
           quiet == [closed EXCEPT !.online = Online("Unknown")]
           failed == [closed EXCEPT !.online = HandleWatchStreamFailure(closed.online)]
<1>1. remote \in Remote /\ engine \in Engine
    BY DEF TypeInv
<1>2. closed \in Remote /\ closed.listens = remote.listens
    BY <1>1, CleanUpIs
<1>3. remote' = quiet \/ remote' = StartWatchStream(failed)
    BY DEF Close
<1>4. quiet \in Remote /\ quiet.listens = remote.listens /\ quiet.stream # "open"
    BY <1>1, StoppedIs
<1> HIDE DEF closed
<1>5. failed \in Remote /\ failed.listens = remote.listens
    <2>1. HandleWatchStreamFailure(closed.online) \in OnlineState
        BY <1>2, OnlineIs DEF Remote
    <2>2. QED
        BY <1>2, <2>1, OnlineSet
<1> HIDE DEF quiet, failed
<1>6. remote' \in Remote /\ remote'.listens = remote.listens /\ remote'.stream # "open"
    BY <1>3, <1>4, <1>5, StartWatchStreamIs
<1>7. /\ engine' \in Engine /\ engine'.listening = engine.listening
      /\ engine'.byKey = engine.byKey /\ engine'.resolutions = engine.resolutions
    <2>1. \E r : engine' = Broadcast(engine, r)
        BY DEF Close
    <2>2. QED
        BY <1>1, <2>1, BroadcastIs
<1>8. Disconnected
    BY DEF Close
<1>9. QED
    BY <1>6, <1>7, <1>8, DisconnectedTyped

LEMMA IdleTimeoutTyped ==
    ASSUME TypeInv, IdleTimeout
    PROVE  TypeInv'
<1>1. remote \in Remote /\ engine \in Engine
    BY DEF TypeInv
<1>2. remote' \in Remote /\ remote'.listens = remote.listens /\ remote'.stream = "off"
    BY <1>1, StoppedIs DEF IdleTimeout
<1>3. engine' = engine /\ Disconnected
    BY DEF IdleTimeout
<1>4. QED
    BY <1>1, <1>2, <1>3, DisconnectedTyped

LEMMA RestartNetworkTyped ==
    ASSUME TypeInv, RestartNetwork
    PROVE  TypeInv'
<1> DEFINE stopped == [CleanUp(remote) EXCEPT !.online = Online("Unknown")]
<1>1. remote \in Remote /\ engine \in Engine
    BY DEF TypeInv
<1>2. remote' = stopped \/ remote' = StartWatchStream(stopped)
    BY DEF RestartNetwork
<1>3. /\ stopped \in Remote /\ stopped.listens = remote.listens /\ stopped.stream = "off"
      /\ StartWatchStream(stopped) \in Remote
      /\ StartWatchStream(stopped).listens = remote.listens
      /\ StartWatchStream(stopped).stream = "starting"
    BY <1>1, StoppedIs
<1> HIDE DEF stopped
<1>4. remote' \in Remote /\ remote'.listens = remote.listens /\ remote'.stream # "open"
    BY <1>2, <1>3
<1>5. engine' = engine /\ Disconnected
    BY DEF RestartNetwork
<1>6. QED
    BY <1>1, <1>4, <1>5, DisconnectedTyped

-----------------------------------------------------------------------------
(* OnWatchStreamChange                                                     *)

LEMMA HeardIs ==
    ASSUME remote \in Remote
    PROVE  /\ Heard \in Remote
           /\ Heard.listens = remote.listens /\ Heard.stream = remote.stream
           /\ Heard.idle = remote.idle /\ Heard.requests = remote.requests
           /\ Heard.states = remote.states /\ Heard.online = Online("Online")
BY OnlineIs, OnlineSet DEF Heard

\* The head of the wire, and what is left.
LEMMA HeadIs ==
    ASSUME wire \in Seq(Message), wire # <<>>
    PROVE  /\ Head(wire) \in Message /\ Head(wire) = wire[1] /\ 1 \in DOMAIN wire
           /\ Tail(wire) \in Seq(Message) /\ Len(Tail(wire)) = Len(wire) - 1
           /\ \A i \in DOMAIN Tail(wire) : i + 1 \in DOMAIN wire /\ Tail(wire)[i] = wire[i + 1]
OBVIOUS

LEMMA ReadTyped ==
    ASSUME TypeInv, remote.stream = "open", wire # <<>>, wire' = Tail(wire),
           disk' \in Disk, engine' \in Engine, remote' \in Remote,
           Linked([engine |-> engine', remote |-> remote']),
           UNCHANGED <<history, served, watched>>, viewVersion' \in 0..Len(history)
    PROVE  TypeInv'
<1>1. wire \in Seq(Message) /\ Snapshots(wire, Len(history))
    BY DEF TypeInv
<1>2. wire' \in Seq(Message) /\ Snapshots(wire', Len(history))
    BY <1>1, HeadIs DEF Snapshots
<1>3. QED
    BY <1>2 DEF TypeInv

LEMMA GatheredTyped ==
    ASSUME TypeInv, remote.stream = "open", wire # <<>>,
           NEW r \in Remote, Kept(r, Heard), Gathered(r)
    PROVE  TypeInv'
<1>1. /\ engine \in Engine /\ remote \in Remote /\ disk \in Disk
      /\ Linked([engine |-> engine, remote |-> remote])
    BY DEF TypeInv
<1>2. remote' = r /\ wire' = Tail(wire) /\ UNCHANGED <<disk, engine, history, served, watched, viewVersion>>
    BY DEF Gathered
<1>3. r.listens = remote.listens
    BY <1>1, HeardIs DEF Kept
<1>4. Linked([engine |-> engine, remote |-> r])
    BY <1>1, <1>3, LinkKept
<1>5. viewVersion \in 0..Len(history)
    BY DEF TypeInv
<1>6. QED
    BY <1>1, <1>2, <1>4, <1>5, ReadTyped

\* Each message that the aggregator takes, on a client that has heard of it.
LEMMA GatheringTyped ==
    ASSUME TypeInv,
           \/ OnTargetAdded \/ OnTargetRemoved \/ OnTargetCurrent \/ OnTargetReset
           \/ OnDocument \/ OnExistenceFilter
    PROVE  TypeInv'
<1> DEFINE m == Head(wire)
<1>1. /\ engine \in Engine /\ remote \in Remote /\ wire \in Seq(Message)
      /\ Linked([engine |-> engine, remote |-> remote])
    BY DEF TypeInv
<1>2. remote.stream = "open" /\ wire # <<>>
    BY DEF Arrives, OnTargetAdded, OnTargetRemoved, OnTargetCurrent, OnTargetReset, OnDocument,
           OnExistenceFilter
<1>3. /\ m \in Message
      /\ m.type # "snapshot" => m.target \in Target
      /\ m.type \in {"snapshot", "current"} => m.version \in Nat
      /\ m.type = "document" => m.doc \in Doc /\ m.level \in Level /\ m.values \in SUBSET Level
    BY <1>1, <1>2, HeadIs, MessageIs
<1>4. Heard \in Remote /\ Heard.listens = remote.listens
    BY <1>1, HeardIs
<1>5. Keyed(Heard)
    <2>1. [engine |-> engine, remote |-> remote] \in Client
        BY <1>1 DEF Client
    <2>2. Keyed(remote)
        BY <1>1, <2>1, LinkedIsKeyed
    <2>3. QED
        BY <1>4, <2>2 DEF Keyed, KeyOf
<1> HIDE DEF m
<1>6. CASE OnTargetAdded
    <2>1. m.target \in Target /\ Gathered(HandleTargetAdded(Heard, m.target))
        BY <1>3, <1>6 DEF OnTargetAdded, Arrives, m
    <2>2. QED
        BY <1>2, <1>4, <2>1, HandleTargetAddedIs, GatheredTyped
<1>7. CASE OnTargetRemoved
    <2>1. m.target \in Target /\ Gathered(HandleTargetRemoved(Heard, m.target))
        BY <1>3, <1>7 DEF OnTargetRemoved, Arrives, m
    <2>2. QED
        BY <1>2, <1>4, <2>1, HandleTargetRemovedIs, GatheredTyped
<1>8. CASE OnTargetCurrent
    <2>1. m.target \in Target /\ m.version \in Nat
          /\ Gathered(HandleTargetCurrent(Heard, m.target, m.version))
        BY <1>3, <1>8 DEF OnTargetCurrent, Arrives, m
    <2>2. QED
        BY <1>2, <1>4, <2>1, HandleTargetCurrentIs, GatheredTyped
<1>9. CASE OnTargetReset
    <2>1. m.target \in Target
          /\ (Gathered(ResetTarget(Heard, m.target)) \/ Gathered(Heard))
        BY <1>3, <1>9 DEF OnTargetReset, Arrives, m
    <2>2. Kept(Heard, Heard)
        BY DEF Kept
    <2>3. QED
        BY <1>1, <1>2, <1>4, <2>1, <2>2, ResetTargetIs, GatheredTyped
<1>10. CASE OnDocument
    <2>1. /\ m.target \in Target /\ m.doc \in Doc /\ m.level \in Level /\ m.values \in SUBSET Level
          /\ Gathered(HandleDocumentChange(Heard, m))
        BY <1>3, <1>10 DEF OnDocument, Arrives, m
    <2>2. HandleDocumentChange(Heard, m) \in Remote /\ Kept(HandleDocumentChange(Heard, m), Heard)
        BY <1>4, <2>1, AddDocumentIs, RemoveDocumentIs DEF HandleDocumentChange
    <2>3. QED
        BY <1>2, <2>1, <2>2, GatheredTyped
<1>11. CASE OnExistenceFilter
    <2>1. m.target \in Target /\ Gathered(HandleExistenceFilter(Heard, m.target, m.count))
        BY <1>3, <1>11 DEF OnExistenceFilter, Arrives, m
    <2>2. QED
        BY <1>1, <1>2, <1>4, <1>5, <2>1, HandleExistenceFilterIs, GatheredTyped
<1>12. QED
    BY <1>6, <1>7, <1>8, <1>9, <1>10, <1>11

\* The client, as an event finds it: told of the message.
LEMMA ToldIs ==
    ASSUME TypeInv, NEW r \in Remote, Kept(r, Heard)
    PROVE  LET c == [disk |-> disk, engine |-> engine, remote |-> r]
           IN  /\ c \in Full /\ Linked(Both(c))
               /\ c.disk = disk /\ c.engine = engine /\ c.remote = r
<1>1. /\ engine \in Engine /\ remote \in Remote /\ disk \in Disk
      /\ Linked([engine |-> engine, remote |-> remote])
    BY DEF TypeInv
<1>2. r.listens = remote.listens
    BY <1>1, HeardIs DEF Kept
<1>3. Linked([engine |-> engine, remote |-> r])
    BY <1>1, <1>2, LinkKept
<1>4. QED
    BY <1>1, <1>3 DEF Full, Both

LEMMA AppliedTyped ==
    ASSUME TypeInv, remote.stream = "open", wire # <<>>,
           NEW c \in Full, Linked(Both(c)), Applied(c), viewVersion' \in 0..Len(history)
    PROVE  TypeInv'
<1>1. c.disk \in Disk /\ c.engine \in Engine /\ c.remote \in Remote
      /\ Linked([engine |-> c.engine, remote |-> c.remote])
    BY DEF Full, Both
<1>2. /\ disk' = c.disk /\ engine' = c.engine /\ remote' = c.remote /\ wire' = Tail(wire)
      /\ UNCHANGED <<history, served, watched>>
    BY DEF Applied
<1>3. QED
    BY <1>1, <1>2, ReadTyped

LEMMA OnTargetErrorTyped ==
    ASSUME ~IsFiniteSet(LimboTarget), TypeInv, OnTargetError
    PROVE  TypeInv'
<1> DEFINE c == [disk |-> disk, engine |-> engine, remote |-> Heard]
           t == Head(wire).target
<1>1. remote \in Remote /\ wire \in Seq(Message) /\ viewVersion \in 0..Len(history)
    BY DEF TypeInv
<1>2. remote.stream = "open" /\ wire # <<>> /\ Head(wire).type = "error"
    BY DEF OnTargetError, Arrives
<1>3. t \in Target
    BY <1>1, <1>2, HeadIs, MessageIs
<1>4. Heard \in Remote /\ Kept(Heard, Heard)
    BY <1>1, HeardIs DEF Kept
<1>5. c \in Full /\ Linked(Both(c))
    BY <1>4, ToldIs
<1>6. Applied(ProcessTargetError(c, t)) /\ viewVersion' = viewVersion
    BY DEF OnTargetError
<1> HIDE DEF c, t
<1>7. ProcessTargetError(c, t) \in Full /\ Linked(Both(ProcessTargetError(c, t)))
    BY <1>1, <1>3, <1>5, ProcessTargetErrorIs
<1>8. QED
    BY <1>1, <1>2, <1>6, <1>7, AppliedTyped

LEMMA OnGlobalSnapshotTyped ==
    ASSUME ~IsFiniteSet(LimboTarget), TypeInv, OnGlobalSnapshot
    PROVE  TypeInv'
<1> DEFINE version == Head(wire).version
           told == [disk |-> disk, engine |-> engine, remote |-> HandleSnapshot(Heard, version)]
<1>1. /\ remote \in Remote /\ wire \in Seq(Message) /\ viewVersion \in 0..Len(history)
      /\ Snapshots(wire, Len(history)) /\ Len(history) \in 1..MaxVersion /\ engine \in Engine
    BY DEF TypeInv
<1>2. remote.stream = "open" /\ wire # <<>> /\ Head(wire).type = "snapshot"
    BY DEF OnGlobalSnapshot, Arrives
<1>3. version \in 0..Len(history) /\ version \in Nat /\ version \in 0..MaxVersion
    <2>1. version \in 0..Len(history)
        BY <1>1, <1>2, HeadIs DEF Snapshots
    <2>2. QED
        BY <1>1, <2>1, FirestoreWatchAssumption
<1>4. HandleSnapshot(Heard, version) \in Remote /\ Kept(HandleSnapshot(Heard, version), Heard)
    BY <1>1, <1>3, HeardIs, HandleSnapshotIs
<1>5. told \in Full /\ Linked(Both(told))
    BY <1>4, ToldIs
<1>6. PICK late \in BOOLEAN :
         Applied(IF version >= disk.lastSnapshot THEN RaiseWatchSnapshot(told, version, late)
                                                 ELSE told)
    BY DEF OnGlobalSnapshot
<1>7. viewVersion' \in 0..Len(history)
    BY <1>1, <1>3 DEF OnGlobalSnapshot
<1> HIDE DEF told, version
<1>8. /\ RaiseWatchSnapshot(told, version, late) \in Full
      /\ Linked(Both(RaiseWatchSnapshot(told, version, late)))
    BY <1>1, <1>3, <1>5, RaiseWatchSnapshotIs
<1>9. Applied(told) \/ Applied(RaiseWatchSnapshot(told, version, late))
    BY <1>6
<1>10. QED
    BY <1>2, <1>5, <1>7, <1>8, <1>9, AppliedTyped

-----------------------------------------------------------------------------
(* The backend                                                             *)

\* The client has a request less to be read.
LEMMA RequestRead ==
    ASSUME remote \in Remote, remote.requests # <<>>,
           NEW r, r = [remote EXCEPT !.requests = Tail(@)]
    PROVE  /\ r \in Remote
           /\ r.listens = remote.listens /\ r.stream = remote.stream /\ r.online = remote.online
           /\ r.states = remote.states /\ r.idle = remote.idle
           /\ r.requests = Tail(remote.requests)
           /\ Head(remote.requests) \in Requests
           /\ Head(remote.requests) = remote.requests[1] /\ 1 \in DOMAIN remote.requests
<1>1. remote.requests \in Seq(Requests)
    BY DEF Remote
<1>2. /\ Tail(remote.requests) \in Seq(Requests) /\ Head(remote.requests) \in Requests
      /\ Head(remote.requests) = remote.requests[1] /\ 1 \in DOMAIN remote.requests
    BY <1>1
<1>3. /\ r \in Remote
      /\ r.listens = remote.listens /\ r.stream = remote.stream /\ r.online = remote.online
      /\ r.states = remote.states /\ r.idle = remote.idle
      /\ r.requests = Tail(remote.requests)
    BY <1>2 DEF Remote
<1>4. QED
    BY <1>2, <1>3

LEMMA ServedTyped ==
    ASSUME TypeInv, remote.requests # <<>>, remote' = [remote EXCEPT !.requests = Tail(@)],
           wire' \in Seq(Message), Snapshots(wire', Len(history)),
           watched' \in PFun(Target, SUBSET Doc),
           UNCHANGED <<disk, engine, history, served, viewVersion>>
    PROVE  TypeInv'
<1>1. /\ engine \in Engine /\ remote \in Remote
      /\ Linked([engine |-> engine, remote |-> remote])
    BY DEF TypeInv
<1>2. remote' \in Remote /\ remote'.listens = remote.listens /\ remote'.stream = remote.stream
    BY <1>1, RequestRead
<1>3. Linked([engine |-> engine, remote |-> remote'])
    BY <1>1, <1>2, LinkKept
<1>4. QED
    BY <1>2, <1>3 DEF TypeInv

\* What is said to a target, and what comes at the end of the wire.
LEMMA SnapshotsAppended ==
    ASSUME NEW n, NEW w \in Seq(Message), Snapshots(w, n),
           NEW v \in Seq(Message), Snapshots(v, n)
    PROVE  w \o v \in Seq(Message) /\ Snapshots(w \o v, n)
<1>1. w \o v \in Seq(Message) /\ Len(w \o v) = Len(w) + Len(v)
    OBVIOUS
<1>2. ASSUME NEW i \in DOMAIN (w \o v), (w \o v)[i].type = "snapshot"
      PROVE  (w \o v)[i].version \in 0..n
    <2>1. CASE i <= Len(w)
        BY <1>2, <2>1 DEF Snapshots
    <2>2. CASE i > Len(w)
        <3>1. i - Len(w) \in DOMAIN v /\ (w \o v)[i] = v[i - Len(w)]
            BY <2>2
        <3>2. QED
            BY <1>2, <3>1 DEF Snapshots
    <2>3. QED
        BY <2>1, <2>2
<1>3. QED
    BY <1>1, <1>2 DEF Snapshots

LEMMA OneMessage ==
    ASSUME NEW n, NEW m \in Message, m.type = "snapshot" => m.version \in 0..n
    PROVE  <<m>> \in Seq(Message) /\ Snapshots(<<m>>, n)
BY DEF Snapshots

LEMMA TellingTyped ==
    ASSUME TypeInv, NEW t, NEW docs, NEW rest \in Seq(Telling(t, docs))
    PROVE  rest \in Seq(Message) /\ Snapshots(rest, Len(history))
<1>1. \A i \in DOMAIN rest : rest[i] \in Telling(t, docs)
    OBVIOUS
<1>2. QED
    BY <1>1 DEF Telling, Snapshots, TypeInv

LEMMA ServeWatchTyped ==
    ASSUME TypeInv, ServeWatch
    PROVE  TypeInv'
<1> DEFINE request == Head(remote.requests)
<1>1. /\ remote \in Remote /\ wire \in Seq(Message) /\ watched \in PFun(Target, SUBSET Doc)
      /\ history \in Seq([Doc -> Level]) /\ served \in 1..Len(history)
      /\ Snapshots(wire, Len(history)) /\ Len(history) \in Nat
    BY DEF TypeInv, ServeWatch
<1>2. remote.requests # <<>> /\ remote' = [remote EXCEPT !.requests = Tail(@)]
    BY DEF ServeWatch
<1>3. request \in Requests
    BY <1>1, <1>2, RequestRead
<1>4. /\ request.target \in Target /\ request.token \in Nat /\ request.docs \in SUBSET Doc
      /\ request.token <= served
    BY <1>3 DEF Requests, ServeWatch
<1>5. request.token \in 0..served
    BY <1>1, <1>4
<1>6. PICK answer \in Answers(request.target, request.token, request.docs) :
         wire' = wire \o answer
    BY DEF ServeWatch
<1>7. watched' = With(watched, request.target, request.docs)
    BY DEF ServeWatch
<1> HIDE DEF request
<1>8. PICK rest \in Seq(Telling(request.target, request.docs)) :
         answer = <<TargetMessage("added", request.target)>> \o rest
    BY <1>1, <1>4, <1>5, AnswersIs
<1>9. answer \in Seq(Message) /\ Snapshots(answer, Len(history))
    <2>1. TargetMessage("added", request.target) \in Message
          /\ TargetMessage("added", request.target).type = "added"
        BY <1>4, TargetMessageIs
    <2>2. /\ <<TargetMessage("added", request.target)>> \in Seq(Message)
          /\ Snapshots(<<TargetMessage("added", request.target)>>, Len(history))
        BY <2>1, OneMessage
    <2>3. rest \in Seq(Message) /\ Snapshots(rest, Len(history))
        BY <1>8, TellingTyped
    <2>4. QED
        BY <1>8, <2>2, <2>3, SnapshotsAppended
<1>10. wire' \in Seq(Message) /\ Snapshots(wire', Len(history))
    BY <1>1, <1>6, <1>9, SnapshotsAppended
<1>11. watched' \in PFun(Target, SUBSET Doc)
    BY <1>1, <1>4, <1>7, WithIs
<1>12. UNCHANGED <<disk, engine, history, served, viewVersion>>
    BY DEF ServeWatch
<1>13. QED
    BY <1>2, <1>10, <1>11, <1>12, ServedTyped

\* A word about a target, at the end of the wire.
LEMMA ToldTyped ==
    ASSUME TypeInv, NEW type \in {"added", "removed", "reset", "error"}, NEW t \in Target
    PROVE  /\ Append(wire, TargetMessage(type, t)) \in Seq(Message)
           /\ Snapshots(Append(wire, TargetMessage(type, t)), Len(history))
<1> DEFINE m == TargetMessage(type, t)
<1>1. m \in Message /\ m.type # "snapshot"
    BY TargetMessageIs
<1>2. <<m>> \in Seq(Message) /\ Snapshots(<<m>>, Len(history))
    BY <1>1, OneMessage
<1>3. wire \in Seq(Message) /\ Snapshots(wire, Len(history))
    BY DEF TypeInv
<1>4. wire \o <<m>> \in Seq(Message) /\ Snapshots(wire \o <<m>>, Len(history))
    BY <1>2, <1>3, SnapshotsAppended
<1> HIDE DEF m
<1>5. Append(wire, m) = wire \o <<m>>
    BY <1>1, <1>3
<1>6. QED
    BY <1>4, <1>5 DEF m

LEMMA RefuseTyped ==
    ASSUME TypeInv, Refuse
    PROVE  TypeInv'
<1>1. remote.requests # <<>> /\ remote' = [remote EXCEPT !.requests = Tail(@)]
    BY DEF Refuse
<1>2. Head(remote.requests).target \in Target
    BY <1>1, RequestRead DEF TypeInv, Requests
<1>3. /\ wire' = Append(wire, TargetMessage("error", Head(remote.requests).target))
      /\ UNCHANGED <<disk, engine, history, served, watched, viewVersion>>
    BY DEF Refuse
<1>4. wire' \in Seq(Message) /\ Snapshots(wire', Len(history))
    BY <1>2, <1>3, ToldTyped
<1>5. QED
    BY <1>1, <1>3, <1>4, ServedTyped DEF TypeInv

LEMMA ServeUnwatchTyped ==
    ASSUME TypeInv, ServeUnwatch
    PROVE  TypeInv'
<1>1. remote.requests # <<>> /\ remote' = [remote EXCEPT !.requests = Tail(@)]
    BY DEF ServeUnwatch
<1>2. Head(remote.requests).target \in Target
    BY <1>1, RequestRead DEF TypeInv, Requests
<1>3. /\ wire' = Append(wire, TargetMessage("removed", Head(remote.requests).target))
      /\ watched' = Drop(watched, Head(remote.requests).target)
      /\ UNCHANGED <<disk, engine, history, served, viewVersion>>
    BY DEF ServeUnwatch
<1>4. wire' \in Seq(Message) /\ Snapshots(wire', Len(history))
    BY <1>2, <1>3, ToldTyped
<1>5. watched' \in PFun(Target, SUBSET Doc)
    BY <1>3, DropIs DEF TypeInv
<1>6. QED
    BY <1>1, <1>3, <1>4, <1>5, ServedTyped

LEMMA AdvanceTyped ==
    ASSUME TypeInv, Advance
    PROVE  TypeInv'
<1> DEFINE R == {w \in Seq(Message) : Snapshots(w, Len(history))}
<1>1. /\ wire \in R /\ watched \in PFun(Target, SUBSET Doc)
      /\ history \in Seq([Doc -> Level]) /\ served \in 1..Len(history)
      /\ served + 1 \in 1..Len(history) /\ Len(history) \in Nat
    BY DEF TypeInv, Advance
<1>2. PICK v \in BOOLEAN : wire' = NextNews(v) \o <<SnapshotMessage(served + 1)>>
    BY DEF Advance
<1>3. /\ Ascending(DOMAIN watched) \in Seq(DOMAIN watched)
      /\ \A t \in DOMAIN watched : t \in Target /\ watched[t] \in SUBSET Doc
    <2>1. /\ DOMAIN watched \in SUBSET Target /\ IsFiniteSet(DOMAIN watched)
          /\ \A t \in DOMAIN watched : watched[t] \in SUBSET Doc
        BY <1>1, PFunIs
    <2>2. DOMAIN watched \in SUBSET Nat
        BY <2>1, Targets
    <2>3. QED
        BY <2>1, <2>2, AscendingSorts
<1>4. ASSUME NEW w \in R, NEW t \in DOMAIN watched
      PROVE  w \o News(t, watched[t], history[served], history[served + 1], v) \in R
    <2> DEFINE news == News(t, watched[t], history[served], history[served + 1], v)
    <2>1. history[served] \in [Doc -> Level] /\ history[served + 1] \in [Doc -> Level]
        BY <1>1
    <2>2. news \in Seq(DocumentsOf(t, watched[t]))
        BY <1>3, <2>1, NewsIs
    <2> HIDE DEF news
    <2>3. \A i \in DOMAIN news : news[i] \in DocumentsOf(t, watched[t])
        BY <2>2
    <2>4. news \in Seq(Message) /\ Snapshots(news, Len(history))
        BY <2>2, <2>3 DEF DocumentsOf, Snapshots
    <2>5. QED
        BY <2>4, SnapshotsAppended DEF news
<1>5. NextNews(v) \in R
    <2> HIDE DEF R
    <2>1. QED
        BY <1>1, <1>3, <1>4, AdvanceLoop
<1>6. <<SnapshotMessage(served + 1)>> \in Seq(Message)
      /\ Snapshots(<<SnapshotMessage(served + 1)>>, Len(history))
    <2>1. SnapshotMessage(served + 1) \in Message
          /\ SnapshotMessage(served + 1).version = served + 1
        BY <1>1 DEF SnapshotMessage, Message
    <2>2. served + 1 \in 0..Len(history)
        BY <1>1
    <2>3. QED
        BY <2>1, <2>2, OneMessage
<1>7. wire' \in Seq(Message) /\ Snapshots(wire', Len(history))
    BY <1>2, <1>5, <1>6, SnapshotsAppended
<1>8. /\ served' = served + 1
      /\ UNCHANGED <<disk, engine, remote, history, watched, viewVersion>>
    BY DEF Advance
<1>9. served' \in 0..Len(history) /\ served' > 0
    BY <1>1, <1>8
<1>10. QED
    BY <1>7, <1>8, <1>9 DEF TypeInv

LEMMA CommitTyped ==
    ASSUME TypeInv, Commit
    PROVE  TypeInv'
<1>1. /\ history \in Seq([Doc -> Level]) /\ Len(history) \in 1..MaxVersion
      /\ Len(history) < MaxVersion /\ MaxVersion \in Nat
    BY FirestoreWatchAssumption DEF TypeInv, Commit
<1>2. PICK d \in Doc, level \in Level :
         history' = Append(history, [Last(history) EXCEPT ![d] = level])
    BY DEF Commit
<1>3. Last(history) \in [Doc -> Level]
    BY <1>1 DEF Last
<1>4. history' \in Seq([Doc -> Level]) /\ Len(history') = Len(history) + 1
    BY <1>1, <1>2, <1>3
<1>5. Len(history') \in 1..MaxVersion
    BY <1>1, <1>4
<1>6. \A n \in 0..Len(history) : n \in 0..Len(history')
    BY <1>1, <1>4
<1>7. UNCHANGED <<disk, engine, remote, wire, served, watched, viewVersion>>
    BY DEF Commit
<1>8. Snapshots(wire', Len(history'))
    BY <1>6, <1>7 DEF TypeInv, Snapshots
<1>9. QED
    BY <1>4, <1>5, <1>6, <1>7, <1>8 DEF TypeInv

\* Ids for limbo resolutions are never short: the code's generator counts on.
LEMMA NextTyped ==
    ASSUME ~IsFiniteSet(LimboTarget), TypeInv, [Next]_vars
    PROVE  TypeInv'
<1>1. CASE Listen
    BY <1>1, ListenTyped
<1>2. CASE StopListening
    BY <1>2, StopListeningTyped
<1>3. CASE Kill
    BY <1>3, KillTyped
<1>4. CASE OnlineStateTimeout
    BY <1>4, OnlineStateTimeoutTyped
<1>5. CASE Open
    BY <1>5, OpenTyped
<1>6. CASE Close
    BY <1>6, CloseTyped
<1>7. CASE IdleTimeout
    BY <1>7, IdleTimeoutTyped
<1>8. CASE RestartNetwork
    BY <1>8, RestartNetworkTyped
<1>9. CASE Deliver
    BY <1>9, GatheringTyped, OnTargetErrorTyped, OnGlobalSnapshotTyped DEF Deliver
<1>10. CASE ServeWatch
    BY <1>10, ServeWatchTyped
<1>11. CASE ServeUnwatch
    BY <1>11, ServeUnwatchTyped
<1>12. CASE Refuse
    BY <1>12, RefuseTyped
<1>13. CASE Advance
    BY <1>13, AdvanceTyped
<1>14. CASE Commit
    BY <1>14, CommitTyped
<1>15. CASE UNCHANGED vars
    BY <1>15 DEF TypeInv, Snapshots, vars
<1>16. QED
    BY <1>1, <1>2, <1>3, <1>4, <1>5, <1>6, <1>7, <1>8, <1>9, <1>10, <1>11, <1>12, <1>13,
       <1>14, <1>15 DEF Next

LEMMA TypeInvType ==
    ASSUME TypeInv
    PROVE  TypeOK
<1>1. /\ engine \in Engine /\ remote \in Remote /\ disk \in Disk
      /\ Linked([engine |-> engine, remote |-> remote])
    BY DEF TypeInv
<1>2. engine.listening <=> Query \in DOMAIN remote.listens
    <2>1. Query \notin DOMAIN engine.resolutions
        BY <1>1, ResolutionIs, Targets
    <2>2. QED
        BY <1>1, <2>1 DEF Linked
<1>3. remote.online \in OnlineState /\ remote.stream \in {"off", "starting", "open"}
    BY <1>1 DEF Remote
<1>4. engine.documents \cup engine.synced \cup engine.limbo \subseteq Doc
    BY <1>1 DEF Engine
<1>5. disk.cache \in [Doc -> [level : Level, read : 0..MaxVersion]] /\ disk.keys \subseteq Doc
    BY <1>1 DEF Disk
<1>6. served \in 0..Len(history) /\ viewVersion \in 0..Len(history)
    BY DEF TypeInv
<1>7. QED
    BY <1>2, <1>3, <1>4, <1>5, <1>6 DEF TypeOK, OnlineState

\* The state of the client and of the backend has its types: the view is of
\* documents, RemoteStore listens to the query exactly while SyncEngine has a
\* view of it, and no version is beyond the backend's last.  Ids for limbo
\* targets are unbounded, as target_id_generator.cc counts on.
THEOREM WatchTypeCorrect ==
    ASSUME ~IsFiniteSet(LimboTarget)
    PROVE  Spec => []TypeOK
<1>1. Init => TypeInv
    BY InitTyped
<1>2. TypeInv /\ [Next]_vars => TypeInv'
    BY NextTyped
<1>3. TypeInv => TypeOK
    BY TypeInvType
<1>4. QED
    BY <1>1, <1>2, <1>3, PTL DEF Spec

(***************************************************************************)
(* Counting the answers that are still to come.                            *)
(***************************************************************************)

CountOf(s, A) == Cardinality({i \in DOMAIN s : s[i] \in A})

LEMMA CountIs ==
    ASSUME NEW S, NEW s \in Seq(S), NEW A
    PROVE  /\ IsFiniteSet({i \in DOMAIN s : s[i] \in A})
           /\ CountOf(s, A) \in Nat
           /\ CountOf(s, A) = 0 <=> \A i \in DOMAIN s : s[i] \notin A
<1> DEFINE H == {i \in DOMAIN s : s[i] \in A}
<1>1. IsFiniteSet(DOMAIN s)
    BY FS_Interval
<1>2. IsFiniteSet(H)
    BY <1>1, FS_Subset
<1>3. Cardinality(H) \in Nat /\ (Cardinality(H) = 0 <=> H = {})
    BY <1>2, FS_CardinalityType, FS_EmptySet
<1>4. QED
    BY <1>2, <1>3 DEF CountOf

LEMMA CountNothing ==
    ASSUME NEW A
    PROVE  CountOf(<<>>, A) = 0
<1>1. {i \in DOMAIN <<>> : <<>>[i] \in A} = {}
    OBVIOUS
<1>2. QED
    BY <1>1, FS_EmptySet DEF CountOf

LEMMA CountAppend ==
    ASSUME NEW S, NEW s \in Seq(S), NEW x \in S, NEW A
    PROVE  CountOf(Append(s, x), A) = IF x \in A THEN CountOf(s, A) + 1 ELSE CountOf(s, A)
<1> DEFINE H == {i \in DOMAIN s : s[i] \in A}
           n == Len(s)
           K == {i \in DOMAIN Append(s, x) : Append(s, x)[i] \in A}
<1>1. IsFiniteSet(H) /\ n + 1 \notin H
    <2>1. IsFiniteSet(H)
        BY CountIs
    <2>2. n + 1 \notin DOMAIN s
        OBVIOUS
    <2>3. QED
        BY <2>1, <2>2
<1>2. CASE x \in A
    <2>1. K = H \cup {n + 1}
        BY <1>2
    <2>2. Cardinality(H \cup {n + 1}) = Cardinality(H) + 1
        BY <1>1, FS_AddElement
    <2>3. QED
        BY <1>2, <2>1, <2>2 DEF CountOf
<1>3. CASE x \notin A
    <2>1. K = H
        BY <1>3
    <2>2. QED
        BY <1>3, <2>1 DEF CountOf
<1>4. QED
    BY <1>2, <1>3

LEMMA CountTail ==
    ASSUME NEW S, NEW s \in Seq(S), s # <<>>, NEW A
    PROVE  CountOf(Tail(s), A) = IF Head(s) \in A THEN CountOf(s, A) - 1 ELSE CountOf(s, A)
<1> DEFINE H == {i \in DOMAIN s : s[i] \in A}
           T == {i \in DOMAIN Tail(s) : Tail(s)[i] \in A}
           f == [i \in T |-> i + 1]
<1>1. /\ Len(s) \in Nat \ {0} /\ DOMAIN s = 1..Len(s) /\ DOMAIN Tail(s) = 1..(Len(s) - 1)
      /\ \A i \in 1..(Len(s) - 1) : Tail(s)[i] = s[i + 1]
      /\ Head(s) = s[1]
    OBVIOUS
<1>2. IsFiniteSet(H) /\ IsFiniteSet(T)
    <2>1. Tail(s) \in Seq(S)
        OBVIOUS
    <2>2. QED
        BY <2>1, CountIs
<1>3. f \in Bijection(T, H \ {1})
    <2>1. \A i \in T : i + 1 \in H \ {1}
        BY <1>1
    <2>2. \A i \in H \ {1} : i - 1 \in T /\ (i - 1) + 1 = i
        BY <1>1
    <2>3. \A i, j \in T : i + 1 = j + 1 => i = j
        BY <1>1
    <2> HIDE DEF T, H
    <2>4. f \in [T -> H \ {1}] /\ \A i \in T : f[i] = i + 1
        BY <2>1
    <2> HIDE DEF f
    <2>5. f \in Injection(T, H \ {1})
        BY <2>3, <2>4 DEF Injection, IsInjective
    <2>6. f \in Surjection(T, H \ {1})
        BY <2>2, <2>4 DEF Surjection
    <2>7. QED
        BY <2>5, <2>6 DEF Bijection
<1>4. Cardinality(H \ {1}) = Cardinality(T)
    <2>1. ExistsBijection(T, H \ {1})
        BY <1>3, Zenon DEF ExistsBijection
    <2>2. QED
        BY <1>2, <2>1, FS_Bijection
<1>5. Cardinality(H \ {1}) = IF 1 \in H THEN Cardinality(H) - 1 ELSE Cardinality(H)
    BY <1>2, FS_RemoveElement
<1>6. 1 \in H <=> Head(s) \in A
    BY <1>1
<1>7. CountOf(s, A) = Cardinality(H) /\ CountOf(Tail(s), A) = Cardinality(T)
    BY DEF CountOf
<1> HIDE DEF H, T
<1>8. QED
    BY <1>4, <1>5, <1>6, <1>7

LEMMA CountSame ==
    ASSUME NEW S, NEW s \in Seq(S), NEW v \in Seq(S), NEW A,
           \A i \in DOMAIN v : v[i] \notin A
    PROVE  CountOf(s \o v, A) = CountOf(s, A)
<1>1. DOMAIN (s \o v) = 1..(Len(s) + Len(v)) /\ DOMAIN s = 1..Len(s) /\ DOMAIN v = 1..Len(v)
      /\ Len(s) \in Nat /\ Len(v) \in Nat
    OBVIOUS
<1>2. \A i \in 1..Len(s) : i \in DOMAIN (s \o v) /\ (s \o v)[i] = s[i]
    BY <1>1
<1>3. ASSUME NEW i \in DOMAIN (s \o v), i \notin DOMAIN s
      PROVE  (s \o v)[i] \notin A
    <2>1. i - Len(s) \in DOMAIN v /\ (s \o v)[i] = v[i - Len(s)]
        BY <1>1, <1>3
    <2>2. QED
        BY <2>1
<1>4. {i \in DOMAIN (s \o v) : (s \o v)[i] \in A} = {i \in DOMAIN s : s[i] \in A}
    BY <1>1, <1>2, <1>3
<1>5. QED
    BY <1>4 DEF CountOf

(***************************************************************************)
(* The invariant behind AssertionsHold and AcksMatchWire.  e and r are     *)
(* the sync engine and RemoteStore, w the wire, wd what the backend        *)
(* serves.                                                                 *)
(***************************************************************************)

\* Without a stream nothing is asked, gathered, under way or served.
Quiet(r, w, wd) ==
    r.stream # "open" => r.requests = <<>> /\ r.states = Empty /\ w = <<>> /\ wd = Empty

Out(r, t) == StateOf(r, t).outstanding
Asks(t) == {q \in Requests : q.target = t}
Acks(t) == {m \in Message : m.target = t /\ m.type \in {"added", "removed", "error"}}
Coming(r, w, t) == CountOf(r.requests, Asks(t)) + CountOf(w, Acks(t))

\* What goes with a state.  off is by how much the query's count is short: a
\* refusal of the query that crosses leaves the count wrong, and it stays wrong
\* by the same number.  keys are the documents that the query is known to have.
Ghost == [off : Int, keys : SUBSET Doc]

\* What is waited for is what is still to come.  For a limbo target that
\* nobody listens to any more it may be more: a refusal is not counted then.
CountedAt(r, w, t, g) ==
    IF t = Query THEN Coming(r, w, t) = Out(r, t) + g.off
    ELSE /\ Coming(r, w, t) <= Out(r, t)
         /\ t \in DOMAIN r.listens => Coming(r, w, t) = Out(r, t) /\ Out(r, t) <= 1
Counted(r, w, g) == \A t \in Target : CountedAt(r, w, t, g)

\* A limbo target is asked for once in its life: at the backend it is new
\* when it is asked for, and gone when its end is under way.
Ended(w, t) == \E i \in DOMAIN w : w[i].target = t /\ w[i].type \in {"error", "removed"}
FatedAt(r, w, wd, t) ==
    /\ \A i \in DOMAIN r.requests : r.requests[i].target = t /\ r.requests[i].type = "watch" =>
          /\ t \notin DOMAIN wd /\ ~Ended(w, t)
          /\ \A j \in 1..(i - 1) : r.requests[j].target # t
    /\ Ended(w, t) => t \notin DOMAIN wd
    /\ t \in DOMAIN wd => t \in DOMAIN r.states
Fated(r, w, wd) == \A t \in LimboTarget : FatedAt(r, w, wd, t)

\* What is asked, served and said for a limbo target is about its document.
AimedAt(r, w, wd, t) ==
    /\ \A i \in DOMAIN r.requests : r.requests[i].target = t =>
          r.requests[i].docs = r.listens[t].docs
    /\ t \in DOMAIN wd => wd[t] = r.listens[t].docs
    /\ \A i \in DOMAIN w : w[i].target = t /\ w[i].type = "document" => w[i].doc \in r.listens[t].docs
    /\ DOMAIN StateOf(r, t).changes \subseteq r.listens[t].docs
Aimed(r, w, wd) == \A t \in LimboTarget : t \in DOMAIN r.listens => AimedAt(r, w, wd, t)

\* A change is an addition if the target does not have the document; a target
\* with nothing pending has no changes.  The query's count may be wrong, so that
\* nobody can tell when it becomes active: its changes are right all the time.
Known(e, t, g) == IF t = Query THEN g.keys ELSE RemoteKeys(e, t)
TaggedAt(K, r, t) ==
    /\ \A d \in DOMAIN r.states[t].changes : r.states[t].changes[d] = "added" <=> d \notin K
    /\ ~r.states[t].pending => r.states[t].changes = Empty
Tagged(e, r, g) ==
    /\ \A t \in DOMAIN r.states : t = Query \/ IsActive(r, t) => TaggedAt(Known(e, t, g), r, t)
    /\ e.listening => e.synced = g.keys

\* The timers run when they may.
Clocks(r) ==
    /\ r.online.timer => r.online.state = "Unknown" /\ r.stream # "off"
    /\ r.idle => r.listens = Empty /\ r.stream = "open"

Whole(e, r, w, wd, g) ==
    /\ Quiet(r, w, wd) /\ Counted(r, w, g) /\ Fated(r, w, wd) /\ Aimed(r, w, wd)
    /\ Tagged(e, r, g) /\ Clocks(r)

LEMMA OutIs ==
    ASSUME NEW r \in Remote, NEW w \in Seq(Message), NEW t
    PROVE  /\ Out(r, t) \in Int /\ Coming(r, w, t) \in Nat
           /\ CountOf(r.requests, Asks(t)) \in Nat /\ CountOf(w, Acks(t)) \in Nat
           /\ t \notin DOMAIN r.states => Out(r, t) = 0
<1>1. r.requests \in Seq(Requests)
    BY DEF Remote
<1>2. CountOf(r.requests, Asks(t)) \in Nat /\ CountOf(w, Acks(t)) \in Nat
    BY <1>1, CountIs
<1>3. Out(r, t) \in Int
    BY StateOfIs DEF Out, TargetState
<1>4. t \notin DOMAIN r.states => Out(r, t) = 0
    BY DEF Out, StateOf, NewTargetState
<1>5. QED
    BY <1>2, <1>3, <1>4 DEF Coming

\* What is waited for and what is to come move together.
LEMMA CountedMoved ==
    ASSUME NEW g \in Ghost, NEW r \in Remote, NEW w \in Seq(Message), Counted(r, w, g),
           NEW p \in Remote, NEW v \in Seq(Message),
           \A t \in DOMAIN p.listens : t # Query => t \in DOMAIN r.listens,
           NEW t \in Target, NEW k \in Int,
           Coming(p, v, t) = Coming(r, w, t) + k, Out(p, t) = Out(r, t) + k,
           k <= 0 \/ t = Query \/ t \notin DOMAIN p.listens
    PROVE  CountedAt(p, v, t, g)
<1>1. CountedAt(r, w, t, g)
    BY DEF Counted
<1>2. Out(r, t) \in Int /\ Coming(r, w, t) \in Int
    BY OutIs
<1>3. g.off \in Int
    BY DEF Ghost
<1>4. QED
    BY <1>1, <1>2, <1>3 DEF CountedAt

\* p is r with one more request, which is waited for.
Asked(p, r, q) ==
    /\ p.requests = Append(r.requests, q)
    /\ p.states = With(r.states, q.target, [StateOf(r, q.target) EXCEPT !.outstanding = @ + 1])

LEMMA SendAsks ==
    ASSUME NEW r \in Remote, NEW q \in Requests
    PROVE  Asked(Send(r, q), r, q)
BY DEF Asked, Send, Remote

LEMMA AskedIs ==
    ASSUME NEW r \in Remote, NEW p \in Remote, NEW q \in Requests, Asked(p, r, q)
    PROVE  /\ DOMAIN p.states = DOMAIN r.states \cup {q.target}
           /\ \A t \in Target : t # q.target =>
                 StateOf(p, t) = StateOf(r, t) /\ (t \in DOMAIN r.states => p.states[t] = r.states[t])
           /\ p.states[q.target] = StateOf(p, q.target)
           /\ Out(p, q.target) = Out(r, q.target) + 1
           /\ StateOf(p, q.target).changes = StateOf(r, q.target).changes
           /\ StateOf(p, q.target).pending = StateOf(r, q.target).pending
           /\ DOMAIN p.requests = 1..(Len(r.requests) + 1)
           /\ p.requests[Len(r.requests) + 1] = q
           /\ \A i \in DOMAIN r.requests : i \in DOMAIN p.requests /\ p.requests[i] = r.requests[i]
<1>1. StateOf(r, q.target) \in TargetState
    BY StateOfIs
<1>2. /\ DOMAIN p.states = DOMAIN r.states \cup {q.target}
      /\ \A t \in DOMAIN r.states : t # q.target => p.states[t] = r.states[t]
      /\ p.states[q.target] = [StateOf(r, q.target) EXCEPT !.outstanding = @ + 1]
    BY DEF Asked, With
<1>3. p.requests = Append(r.requests, q) /\ r.requests \in Seq(Requests)
    BY DEF Asked, Remote
<1>4. \A t \in Target : t # q.target => StateOf(p, t) = StateOf(r, t)
    BY <1>2 DEF StateOf
<1>5. StateOf(p, q.target) = [StateOf(r, q.target) EXCEPT !.outstanding = @ + 1]
    BY <1>2 DEF StateOf
<1>6. Out(p, q.target) = Out(r, q.target) + 1
      /\ StateOf(p, q.target).changes = StateOf(r, q.target).changes
      /\ StateOf(p, q.target).pending = StateOf(r, q.target).pending
    BY <1>1, <1>5 DEF Out, TargetState
<1>7. /\ DOMAIN p.requests = 1..(Len(r.requests) + 1)
      /\ p.requests[Len(r.requests) + 1] = q
      /\ \A i \in DOMAIN r.requests : i \in DOMAIN p.requests /\ p.requests[i] = r.requests[i]
    BY <1>3
<1>8. QED
    BY <1>2, <1>4, <1>5, <1>6, <1>7

LEMMA AskedMoves ==
    ASSUME NEW r \in Remote, NEW p \in Remote, NEW q \in Requests, Asked(p, r, q),
           NEW w \in Seq(Message), NEW t \in Target
    PROVE  /\ t = q.target => /\ Coming(p, w, t) = Coming(r, w, t) + 1
                              /\ Out(p, t) = Out(r, t) + 1
           /\ t # q.target => Coming(p, w, t) = Coming(r, w, t) /\ Out(p, t) = Out(r, t)
<1>1. r.requests \in Seq(Requests) /\ p.requests = Append(r.requests, q)
    BY DEF Asked, Remote
<1>2. CountOf(p.requests, Asks(t)) = IF q \in Asks(t) THEN CountOf(r.requests, Asks(t)) + 1
                                                     ELSE CountOf(r.requests, Asks(t))
    BY <1>1, CountAppend
<1>3. q \in Asks(t) <=> t = q.target
    BY DEF Asks
<1>4. CountOf(r.requests, Asks(t)) \in Nat /\ CountOf(w, Acks(t)) \in Nat
    BY OutIs
<1>5. /\ t = q.target => Coming(p, w, t) = Coming(r, w, t) + 1
      /\ t # q.target => Coming(p, w, t) = Coming(r, w, t)
    BY <1>2, <1>3, <1>4 DEF Coming
<1>6. /\ t = q.target => Out(p, t) = Out(r, t) + 1
      /\ t # q.target => Out(p, t) = Out(r, t)
    BY AskedIs DEF Out
<1>7. QED
    BY <1>5, <1>6

\* The same for what does not ask.
LEMMA SameStates ==
    ASSUME NEW r, NEW p, p.states = r.states, p.requests = r.requests
    PROVE  \A t : /\ StateOf(p, t) = StateOf(r, t) /\ Out(p, t) = Out(r, t)
                  /\ \A w : Coming(p, w, t) = Coming(r, w, t)
BY DEF StateOf, Out, Coming

-----------------------------------------------------------------------------
(* Listens that begin and end.                                             *)

LEMMA ListenToDoes ==
    ASSUME NEW r \in Remote, NEW t \in Target, NEW data \in TargetData
    PROVE  LET p == ListenTo(r, t, data)
           IN  /\ r.stream = "open" => /\ Asked(p, r, Request("watch", t, data))
                                       /\ p.online = r.online /\ ~p.idle
               /\ r.stream # "open" => /\ p.requests = r.requests /\ p.states = r.states
                                       /\ p.idle = r.idle
               /\ r.stream = "starting" => p.online = r.online
               /\ r.stream = "off" => p.online = HandleWatchStreamStart(r.online)
<1> DEFINE l == [r EXCEPT !.listens = With(@, t, data)]
           q == Request("watch", t, data)
           p == ListenTo(r, t, data)
<1>1. r.listens \in PFun(Target, TargetData)
    BY DEF Remote
<1>2. With(r.listens, t, data) \in PFun(Target, TargetData)
    BY <1>1, WithIs
<1>3. /\ l \in Remote /\ l.requests = r.requests /\ l.states = r.states /\ l.idle = r.idle
      /\ l.online = r.online /\ l.stream = r.stream
    BY <1>2 DEF Remote
<1>4. q \in Requests
    BY RequestIs
<1>5. /\ r.stream = "open" => p = Send(l, q)
      /\ r.stream = "off" => p = StartWatchStream(l)
      /\ r.stream = "starting" => p = l
    BY DEF ListenTo
<1>6. r.stream \in {"off", "starting", "open"}
    BY DEF Remote
<1> HIDE DEF l, q, p
<1>7. CASE r.stream = "open"
    <2>1. Asked(Send(l, q), l, q) /\ Send(l, q).online = l.online /\ ~Send(l, q).idle
        BY <1>3, <1>4, SendAsks, SendIs
    <2>2. Asked(Send(l, q), r, q)
        BY <1>3, <2>1 DEF Asked, StateOf
    <2>3. QED
        BY <1>3, <1>5, <1>7, <2>1, <2>2 DEF p, q
<1>8. CASE r.stream = "off"
    <2>1. /\ StartWatchStream(l).requests = l.requests /\ StartWatchStream(l).states = l.states
          /\ StartWatchStream(l).idle = l.idle
          /\ StartWatchStream(l).online = HandleWatchStreamStart(l.online)
        BY <1>3 DEF StartWatchStream, Remote
    <2>2. QED
        BY <1>3, <1>5, <1>8, <2>1 DEF p
<1>9. CASE r.stream = "starting"
    BY <1>3, <1>5, <1>9 DEF p
<1>10. QED
    BY <1>6, <1>7, <1>8, <1>9

LEMMA StopListeningToDoes ==
    ASSUME NEW r \in Remote, NEW t \in DOMAIN r.listens
    PROVE  LET p == StopListeningTo(r, t)
           IN  /\ r.stream = "open" => /\ Asked(p, r, Request("unwatch", t, r.listens[t]))
                                       /\ p.online = r.online
                                       /\ p.idle => p.listens = Empty
               /\ r.stream # "open" => /\ p.requests = r.requests /\ p.states = r.states
                                       /\ p.idle = r.idle
                                       /\ p.online \in {r.online, Online("Unknown")}
<1> DEFINE l == [r EXCEPT !.listens = Drop(@, t)]
           q == Request("unwatch", t, r.listens[t])
           s == Send(l, q)
           p == StopListeningTo(r, t)
<1>1. r.listens \in PFun(Target, TargetData) /\ t \in Target /\ r.listens[t] \in TargetData
    BY PFunIs DEF Remote
<1>2. Drop(r.listens, t) \in PFun(Target, TargetData)
    BY <1>1, DropIs
<1>3. /\ l \in Remote /\ l.requests = r.requests /\ l.states = r.states /\ l.idle = r.idle
      /\ l.online = r.online /\ l.stream = r.stream /\ l.listens = Drop(r.listens, t)
    BY <1>2 DEF Remote
<1>4. q \in Requests
    BY <1>1, RequestIs
<1>5. /\ r.stream = "open" /\ s.listens # Empty => p = s
      /\ r.stream = "open" /\ s.listens = Empty => p = [s EXCEPT !.idle = TRUE]
      /\ r.stream # "open" => p = l \/ p = [l EXCEPT !.online = Online("Unknown")]
    BY DEF StopListeningTo
<1>6. s \in Remote /\ Asked(s, l, q) /\ s.online = l.online /\ ~s.idle /\ s.listens = l.listens
    BY <1>3, <1>4, SendAsks, SendIs
<1> HIDE DEF s, q, p, l
<1>7. Asked(s, r, q)
    BY <1>3, <1>6 DEF Asked, StateOf
<1>8. CASE r.stream = "open"
    <2>1. CASE s.listens # Empty
        BY <1>3, <1>5, <1>6, <1>7, <1>8, <2>1 DEF p, q
    <2>2. CASE s.listens = Empty
        <3>1. p = [s EXCEPT !.idle = TRUE]
            BY <1>5, <1>8, <2>2
        <3>2. p.requests = s.requests /\ p.states = s.states /\ p.online = s.online
              /\ p.listens = s.listens
            BY <1>6, <3>1 DEF Remote
        <3>3. Asked(p, r, q)
            BY <1>7, <3>2 DEF Asked
        <3>4. QED
            BY <1>3, <1>6, <1>8, <2>2, <3>2, <3>3 DEF p, q
    <2>3. QED
        BY <2>1, <2>2
<1>9. CASE r.stream # "open"
    <2>1. CASE p = l
        BY <1>3, <1>9, <2>1 DEF p
    <2>2. CASE p = [l EXCEPT !.online = Online("Unknown")]
        <3>1. /\ p.requests = l.requests /\ p.states = l.states /\ p.idle = l.idle
              /\ p.online = Online("Unknown")
            BY <1>3, <2>2 DEF Remote
        <3>2. QED
            BY <1>3, <1>9, <3>1 DEF p
    <2>3. QED
        BY <1>5, <1>9, <2>1, <2>2
<1>10. QED
    BY <1>8, <1>9

LEMMA ListenToClocks ==
    ASSUME NEW r \in Remote, NEW t \in Target, NEW data \in TargetData, Clocks(r)
    PROVE  Clocks(ListenTo(r, t, data))
<1> DEFINE p == ListenTo(r, t, data)
<1>1. r.stream \in {"off", "starting", "open"} /\ r.online \in OnlineState
    BY DEF Remote
<1>2. p.stream = IF r.stream = "off" THEN "starting" ELSE r.stream
    BY ListenToIs
<1>3. /\ r.stream = "open" => p.online = r.online /\ ~p.idle
      /\ r.stream # "open" => p.idle = r.idle
      /\ r.stream = "starting" => p.online = r.online
      /\ r.stream = "off" => p.online = HandleWatchStreamStart(r.online)
    BY ListenToDoes
<1> HIDE DEF p
<1>4. r.stream = "off" => (p.online.timer => p.online.state = "Unknown")
    BY <1>1, <1>3 DEF Clocks, HandleWatchStreamStart, OnlineState
<1>5. Clocks(p)
    BY <1>1, <1>2, <1>3, <1>4 DEF Clocks
<1>6. QED
    BY <1>5 DEF p

LEMMA StopListeningToClocks ==
    ASSUME NEW r \in Remote, NEW t \in DOMAIN r.listens, Clocks(r)
    PROVE  Clocks(StopListeningTo(r, t))
<1> DEFINE p == StopListeningTo(r, t)
<1>1. p.stream = r.stream
    BY StopListeningToIs
<1>2. /\ r.stream = "open" => p.online = r.online /\ (p.idle => p.listens = Empty)
      /\ r.stream # "open" => p.idle = r.idle /\ p.online \in {r.online, Online("Unknown")}
    BY StopListeningToDoes
<1> HIDE DEF p
<1>3. ~Online("Unknown").timer
    BY OnlineIs
<1>4. Clocks(p)
    BY <1>1, <1>2, <1>3 DEF Clocks
<1>5. QED
    BY <1>4 DEF p

\* A limbo target that is asked for is new at the backend and to the stream.
Fresh(r, w, wd, id) ==
    /\ id \in LimboTarget
    /\ id \notin DOMAIN r.listens /\ id \notin DOMAIN r.states
    /\ \A i \in DOMAIN w : w[i].target # id

LEMMA FreshIs ==
    ASSUME NEW g \in Ghost,
           NEW r \in Remote, NEW w \in Seq(Message), NEW wd, Counted(r, w, g), Fated(r, w, wd),
           NEW id, Fresh(r, w, wd, id)
    PROVE  /\ Out(r, id) = 0 /\ Coming(r, w, id) = 0
           /\ \A i \in DOMAIN r.requests : r.requests[i].target # id
           /\ id \notin DOMAIN wd /\ ~Ended(w, id)
           /\ StateOf(r, id).changes = Empty
<1>1. id \in Target /\ id # Query /\ Out(r, id) = 0
    BY OutIs, Targets DEF Fresh
<1>2. Coming(r, w, id) = 0 /\ CountOf(r.requests, Asks(id)) = 0
    BY <1>1, OutIs DEF Counted, CountedAt, Coming
<1>3. r.requests \in Seq(Requests)
    BY DEF Remote
<1>4. \A i \in DOMAIN r.requests : r.requests[i] \notin Asks(id)
    BY <1>2, <1>3, CountIs
<1>5. \A i \in DOMAIN r.requests : r.requests[i].target # id
    BY <1>3, <1>4 DEF Asks
<1>6. id \notin DOMAIN wd /\ ~Ended(w, id)
    BY DEF Fated, FatedAt, Fresh, Ended
<1>7. StateOf(r, id).changes = Empty
    BY DEF StateOf, NewTargetState, Fresh
<1>8. QED
    BY <1>1, <1>2, <1>5, <1>6, <1>7

-----------------------------------------------------------------------------
(* One request more.                                                       *)

\* A client without a stream has nothing to account for.
LEMMA QuietIsWhole ==
    ASSUME NEW g \in Ghost, g.off = 0, NEW e, e.listening => e.synced = g.keys,
           NEW r \in Remote, NEW w, NEW wd, r.requests = <<>>, r.states = Empty,
           w = <<>>, wd = Empty, Clocks(r)
    PROVE  Whole(e, r, w, wd, g)
<1>1. DOMAIN r.states = {} /\ DOMAIN wd = {} /\ DOMAIN w = {} /\ DOMAIN r.requests = {}
    BY EmptyIs
<1>2. Quiet(r, w, wd)
    BY DEF Quiet
<1>3. Counted(r, w, g)
    <2>1. \A t : Out(r, t) = 0
        BY <1>1 DEF Out, StateOf, NewTargetState
    <2>2. \A t : Coming(r, w, t) = 0
        BY CountNothing DEF Coming
    <2>3. QED
        BY <2>1, <2>2 DEF Counted, CountedAt
<1>4. Fated(r, w, wd)
    BY <1>1 DEF Fated, FatedAt, Ended
<1>5. Aimed(r, w, wd)
    <2>1. \A t : StateOf(r, t).changes = Empty
        BY <1>1 DEF StateOf, NewTargetState
    <2>2. QED
        BY <1>1, <2>1, EmptyIs DEF Aimed, AimedAt
<1>6. Tagged(e, r, g)
    BY <1>1 DEF Tagged
<1>7. QED
    BY <1>2, <1>3, <1>4, <1>5, <1>6 DEF Whole

\* A client that still has no stream.
LEMMA QuietStays ==
    ASSUME NEW g \in Ghost, NEW e, NEW r \in Remote, NEW w, NEW wd, Whole(e, r, w, wd, g),
           r.stream # "open", NEW f, f.listening => f.synced = g.keys,
           NEW p \in Remote, p.requests = r.requests, p.states = r.states, Clocks(p)
    PROVE  Whole(f, p, w, wd, g)
<1>1. r.requests = <<>> /\ r.states = Empty /\ w = <<>> /\ wd = Empty
    BY DEF Whole, Quiet
<1>2. g.off = 0
    <2>1. Query \in Target /\ DOMAIN r.states = {}
        BY <1>1, Targets, EmptyIs
    <2>2. Out(r, Query) = 0 /\ Coming(r, w, Query) = 0
        BY <1>1, <2>1, CountNothing DEF Out, StateOf, NewTargetState, Coming
    <2>3. CountedAt(r, w, Query, g)
        BY <2>1 DEF Whole, Counted
    <2>4. QED
        BY <2>2, <2>3 DEF CountedAt, Ghost
<1>3. QED
    BY <1>1, <1>2, QuietIsWhole

LEMMA AskedWhole ==
    ASSUME NEW g \in Ghost,
           NEW e, NEW r \in Remote, NEW w \in Seq(Message), NEW wd, Whole(e, r, w, wd, g),
           NEW f, NEW p \in Remote, NEW q \in Requests, Asked(p, r, q), p.stream = "open", Clocks(p),
           \A t \in Target : t # q.target =>
              /\ t \in DOMAIN p.listens <=> t \in DOMAIN r.listens
              /\ t \in DOMAIN r.listens => p.listens[t].docs = r.listens[t].docs
              /\ Known(f, t, g) = Known(e, t, g),
           f.listening => f.synced = g.keys,
           CountedAt(p, w, q.target, g),
           q.target # Query => FatedAt(p, w, wd, q.target),
           q.target # Query /\ q.target \in DOMAIN p.listens => AimedAt(p, w, wd, q.target)
    PROVE  Whole(f, p, w, wd, g)
<1> DEFINE x == q.target
           n == Len(r.requests)
<1>1. /\ Counted(r, w, g) /\ Fated(r, w, wd) /\ Aimed(r, w, wd) /\ Tagged(e, r, g)
    BY DEF Whole
<1>2. x \in Target /\ n \in Nat /\ DOMAIN r.requests = 1..n /\ DOMAIN p.states \in SUBSET Target
    <2>1. x \in Target
        BY DEF Requests
    <2>2. r.requests \in Seq(Requests)
        BY DEF Remote
    <2>3. DOMAIN p.states \in SUBSET Target
        BY StatesIs
    <2>4. QED
        BY <2>1, <2>2, <2>3
<1>3. /\ DOMAIN p.states = DOMAIN r.states \cup {x}
      /\ \A t \in Target : t # x =>
            StateOf(p, t) = StateOf(r, t) /\ (t \in DOMAIN r.states => p.states[t] = r.states[t])
      /\ DOMAIN p.requests = 1..(n + 1) /\ p.requests[n + 1] = q
      /\ \A i \in 1..n : p.requests[i] = r.requests[i]
    BY <1>2, AskedIs
<1>4. Quiet(p, w, wd)
    BY DEF Quiet
<1>5. Counted(p, w, g)
    <2>1. ASSUME NEW t \in Target, t # x PROVE CountedAt(p, w, t, g)
        <3>1. CountedAt(r, w, t, g)
            BY <1>1 DEF Counted
        <3>2. Coming(p, w, t) = Coming(r, w, t) /\ Out(p, t) = Out(r, t)
            BY <2>1, AskedMoves
        <3>3. t \in DOMAIN p.listens <=> t \in DOMAIN r.listens
            BY <2>1
        <3>4. QED
            BY <3>1, <3>2, <3>3 DEF CountedAt
    <2>2. QED
        BY <2>1 DEF Counted
<1>6. Fated(p, w, wd)
    <2>1. ASSUME NEW t \in LimboTarget, t # x PROVE FatedAt(p, w, wd, t)
        <3>1. FatedAt(r, w, wd, t)
            BY <1>1 DEF Fated
        <3>2. \A i \in DOMAIN p.requests : p.requests[i].target = t =>
                 i \in 1..n /\ p.requests[i] = r.requests[i]
            BY <1>2, <1>3, <2>1
        <3>3. \A i \in 1..n : \A j \in 1..(i - 1) : p.requests[j] = r.requests[j]
            BY <1>2, <1>3
        <3>4. t \in DOMAIN r.states => t \in DOMAIN p.states
            BY <1>3
        <3>5. QED
            BY <1>2, <3>1, <3>2, <3>3, <3>4 DEF FatedAt
    <2>2. \A t \in LimboTarget : t # Query
        BY Targets
    <2>3. QED
        BY <2>1, <2>2 DEF Fated
<1>7. Aimed(p, w, wd)
    <2>1. ASSUME NEW t \in LimboTarget, t \in DOMAIN p.listens, t # x PROVE AimedAt(p, w, wd, t)
        <3>1. t \in Target
            BY Targets
        <3>2. t \in DOMAIN r.listens /\ p.listens[t].docs = r.listens[t].docs
            BY <2>1, <3>1
        <3>3. AimedAt(r, w, wd, t)
            BY <1>1, <3>2 DEF Aimed
        <3>4. StateOf(p, t) = StateOf(r, t)
            BY <1>3, <2>1, <3>1
        <3>5. \A i \in DOMAIN p.requests : p.requests[i].target = t =>
                 i \in DOMAIN r.requests /\ p.requests[i] = r.requests[i]
            BY <1>2, <1>3, <2>1
        <3>6. QED
            BY <3>2, <3>3, <3>4, <3>5 DEF AimedAt
    <2>2. \A t \in LimboTarget : t # Query
        BY Targets
    <2>3. QED
        BY <2>1, <2>2 DEF Aimed
<1>8. x # Query => ~IsActive(p, x)
    <2> HAVE x # Query
    <2>1. CountedAt(r, w, x, g) /\ Out(r, x) \in Int /\ Coming(r, w, x) \in Nat
        BY <1>1, <1>2, OutIs DEF Counted
    <2>2. Out(p, x) = Out(r, x) + 1
        BY <1>2, AskedMoves
    <2>3. QED
        BY <2>1, <2>2 DEF CountedAt, IsActive, Out
<1>9. Tagged(f, p, g)
    <2>1. ASSUME NEW t \in DOMAIN p.states, t = Query \/ IsActive(p, t)
          PROVE  TaggedAt(Known(f, t, g), p, t)
        <3>1. t \in Target
            BY <1>2
        <3>2. CASE t # x
            <4>1. t \in DOMAIN r.states /\ p.states[t] = r.states[t] /\ StateOf(p, t) = StateOf(r, t)
                BY <1>2, <1>3, <3>1, <3>2
            <4>2. (t = Query \/ IsActive(r, t)) /\ Known(f, t, g) = Known(e, t, g)
                BY <2>1, <3>1, <3>2, <4>1 DEF IsActive
            <4>3. TaggedAt(Known(e, t, g), r, t)
                BY <1>1, <4>1, <4>2 DEF Tagged
            <4>4. QED
                BY <4>1, <4>2, <4>3 DEF TaggedAt
        <3>3. CASE t = x
            <4>1. t = Query
                BY <1>8, <2>1, <3>3
            <4>2. /\ p.states[t].changes = StateOf(r, t).changes
                  /\ p.states[t].pending = StateOf(r, t).pending
                BY <1>2, <3>3, AskedIs
            <4>3. CASE t \in DOMAIN r.states
                <5>1. TaggedAt(g.keys, r, t)
                    BY <1>1, <4>1, <4>3 DEF Tagged, Known
                <5>2. QED
                    BY <4>1, <4>2, <4>3, <5>1 DEF TaggedAt, StateOf, Known
            <4>4. CASE t \notin DOMAIN r.states
                <5>1. p.states[t].changes = Empty
                    BY <4>2, <4>4 DEF StateOf, NewTargetState
                <5>2. QED
                    BY <5>1, EmptyIs DEF TaggedAt
            <4>5. QED
                BY <4>3, <4>4
        <3>4. QED
            BY <3>2, <3>3
    <2>2. QED
        BY <2>1 DEF Tagged
<1>10. QED
    BY <1>4, <1>5, <1>6, <1>7, <1>9 DEF Whole

\* The keys that a target is known to have, when a resolution comes or goes.
\* The engines f and e differ in what they resolve under x at most.
SameBut(f, e, x) ==
    /\ f.synced = e.synced /\ f.listening = e.listening
    /\ DOMAIN f.resolutions \cup {x} = DOMAIN e.resolutions \cup {x}
    /\ \A t \in DOMAIN e.resolutions : t # x => f.resolutions[t] = e.resolutions[t]

LEMMA OtherKeys ==
    ASSUME NEW g, NEW e, NEW f, NEW x, SameBut(f, e, x)
    PROVE  \A t : t # x => Known(f, t, g) = Known(e, t, g)
<1> USE DEF SameBut
<1> TAKE t
<1> HAVE t # x
<1>1. t \in DOMAIN e.resolutions <=> t \in DOMAIN f.resolutions
    OBVIOUS
<1>2. CASE t \in DOMAIN e.resolutions
    <2>1. f.resolutions[t] = e.resolutions[t]
        BY <1>2
    <2>2. QED
        BY <1>1, <2>1 DEF RemoteKeys, Known
<1>3. CASE t \notin DOMAIN e.resolutions
    BY <1>1, <1>3 DEF RemoteKeys, Known
<1>4. QED
    BY <1>2, <1>3

LEMMA NewListenWhole ==
    ASSUME NEW g \in Ghost,
           NEW e \in Engine, NEW r \in Remote, NEW w \in Seq(Message), NEW wd, Whole(e, r, w, wd, g),
           NEW id, Fresh(r, w, wd, id), NEW d \in Doc, NEW f, f.synced = e.synced, f.listening = e.listening,
           f.resolutions = With(e.resolutions, id, [key |-> d, received |-> FALSE])
    PROVE  Whole(f, ListenTo(r, id, [token |-> 0, docs |-> {d}]), w, wd, g)
<1> DEFINE data == [token |-> 0, docs |-> {d}]
           p == ListenTo(r, id, data)
           q == Request("watch", id, data)
<1>1. data \in TargetData /\ id \in Target /\ id # Query /\ data.docs = {d}
    <2>1. data \in TargetData /\ data.docs = {d}
        BY DEF TargetData
    <2>2. id \in LimboTarget
        BY DEF Fresh
    <2>3. QED
        BY <2>1, <2>2, Targets
<1>2. q \in Requests /\ q.target = id /\ q.docs = {d}
    <2> HIDE DEF data
    <2>1. q \in Requests /\ q.target = id /\ q.docs = data.docs
        BY <1>1, RequestIs
    <2>2. QED
        BY <1>1, <2>1
<1>3. /\ p \in Remote /\ p.listens = With(r.listens, id, data)
      /\ p.stream = IF r.stream = "off" THEN "starting" ELSE r.stream
    BY <1>1, ListenToIs
<1>4. Clocks(p)
    BY <1>1, ListenToClocks DEF Whole
<1>5. /\ r.stream = "open" => Asked(p, r, q)
      /\ r.stream # "open" => p.requests = r.requests /\ p.states = r.states
    BY <1>1, ListenToDoes
<1> HIDE DEF p, q, data
<1>6. f.listening => f.synced = g.keys
    BY DEF Whole, Tagged
<1>7. CASE r.stream # "open"
    <2>1. Whole(f, p, w, wd, g)
        BY <1>3, <1>4, <1>5, <1>7, <1>6, QuietStays
    <2>2. QED
        BY <2>1 DEF p, data
<1>8. CASE r.stream = "open"
    <2>1. /\ Out(r, id) = 0 /\ Coming(r, w, id) = 0
          /\ \A i \in DOMAIN r.requests : r.requests[i].target # id
          /\ id \notin DOMAIN wd /\ ~Ended(w, id)
          /\ StateOf(r, id).changes = Empty
        BY FreshIs DEF Whole
    <2>2. Asked(p, r, q)
        BY <1>5, <1>8
    <2>3. /\ DOMAIN p.listens = DOMAIN r.listens \cup {id} /\ p.listens[id] = data
          /\ \A t \in DOMAIN r.listens : t # id => p.listens[t] = r.listens[t]
        BY <1>3 DEF With
    <2>4. CountedAt(p, w, id, g)
        <3>1. Coming(p, w, id) = 1 /\ Out(p, id) = 1
            BY <1>1, <1>2, <1>3, <2>1, <2>2, AskedMoves
        <3>2. QED
            BY <1>1, <3>1 DEF CountedAt
    <2>5. /\ DOMAIN p.states = DOMAIN r.states \cup {id}
          /\ StateOf(p, id).changes = Empty
          /\ DOMAIN p.requests = 1..(Len(r.requests) + 1)
          /\ p.requests[Len(r.requests) + 1] = q
          /\ \A i \in DOMAIN r.requests : p.requests[i] = r.requests[i]
        BY <1>2, <1>3, <2>1, <2>2, AskedIs
    <2>6. Len(r.requests) \in Nat /\ DOMAIN r.requests = 1..Len(r.requests)
        BY DEF Remote
    <2>7. FatedAt(p, w, wd, id)
        <3>1. \A i \in DOMAIN p.requests : p.requests[i].target = id => i = Len(r.requests) + 1
            BY <2>1, <2>5, <2>6
        <3>2. \A j \in 1..Len(r.requests) : p.requests[j].target # id
            BY <2>1, <2>5, <2>6
        <3>3. \A i \in DOMAIN p.requests : p.requests[i].target = id =>
                 \A j \in 1..(i - 1) : p.requests[j].target # id
            BY <2>6, <3>1, <3>2
        <3>4. QED
            BY <2>1, <3>3 DEF FatedAt
    <2>8. AimedAt(p, w, wd, id)
        <3>1. \A i \in DOMAIN p.requests : p.requests[i].target = id => p.requests[i] = q
            BY <2>1, <2>5, <2>6
        <3>2. \A i \in DOMAIN w : w[i].target # id
            BY DEF Fresh
        <3>3. QED
            BY <1>1, <1>2, <2>1, <2>3, <2>5, <3>1, <3>2, EmptyIs DEF AimedAt
    <2>9. \A t : t # id => Known(f, t, g) = Known(e, t, g)
        <3> DEFINE y == [key |-> d, received |-> FALSE]
                   s == With(e.resolutions, id, y)
        <3> HIDE DEF y
        <3>1. DOMAIN s = DOMAIN e.resolutions \cup {id}
            BY DEF With
        <3>2. ASSUME NEW t \in DOMAIN e.resolutions, t # id PROVE s[t] = e.resolutions[t]
            BY <3>2 DEF With
        <3>3. f.resolutions = s
            BY DEF y
        <3> HIDE DEF s
        <3>4. SameBut(f, e, id)
            BY <3>1, <3>2, <3>3 DEF SameBut
        <3>5. QED
            BY <3>4, OtherKeys
    <2>10. p.stream = "open"
        BY <1>3, <1>8
    <2>11. Whole(f, p, w, wd, g)
        BY <1>2, <1>3, <1>4, <1>6, <2>2, <2>3, <2>4, <2>7, <2>8, <2>9, <2>10, AskedWhole
    <2>12. QED
        BY <2>11 DEF p, data
<1>9. QED
    BY <1>7, <1>8

LEMMA EndListenWhole ==
    ASSUME NEW g \in Ghost,
           NEW e, NEW r \in Remote, NEW w \in Seq(Message), NEW wd, Whole(e, r, w, wd, g),
           NEW id \in DOMAIN r.listens, NEW f,
           f.listening => f.synced = g.keys,
           \A t \in Target : t # id => Known(f, t, g) = Known(e, t, g)
    PROVE  Whole(f, StopListeningTo(r, id), w, wd, g)
<1> DEFINE p == StopListeningTo(r, id)
           q == Request("unwatch", id, r.listens[id])
<1>1. id \in Target /\ r.listens[id] \in TargetData
    BY PFunIs DEF Remote
<1>2. q \in Requests /\ q.target = id /\ q.type = "unwatch"
    BY <1>1, RequestIs
<1>3. /\ p \in Remote /\ p.listens = Drop(r.listens, id) /\ p.stream = r.stream
    BY StopListeningToIs
<1>4. Clocks(p)
    BY StopListeningToClocks DEF Whole
<1>5. /\ r.stream = "open" => Asked(p, r, q)
      /\ r.stream # "open" => p.requests = r.requests /\ p.states = r.states
    BY StopListeningToDoes
<1> HIDE DEF p, q
<1>6. CASE r.stream # "open"
    <2>1. Whole(f, p, w, wd, g)
        BY <1>3, <1>4, <1>5, <1>6, QuietStays
    <2>2. QED
        BY <2>1 DEF p
<1>7. CASE r.stream = "open"
    <2>2. Asked(p, r, q)
        BY <1>5, <1>7
    <2>3. /\ DOMAIN p.listens = DOMAIN r.listens \ {id}
          /\ \A t \in DOMAIN r.listens : t # id => p.listens[t] = r.listens[t]
        BY <1>3 DEF Drop
    <2>4. CountedAt(p, w, id, g)
        <3>1. Coming(p, w, id) = Coming(r, w, id) + 1 /\ Out(p, id) = Out(r, id) + 1
            BY <1>1, <1>2, <1>3, <2>2, AskedMoves
        <3>2. CountedAt(r, w, id, g) /\ Out(r, id) \in Int /\ Coming(r, w, id) \in Nat
            BY <1>1, OutIs DEF Whole, Counted
        <3>3. QED
            BY <2>3, <3>1, <3>2 DEF CountedAt, Ghost
    <2>5. id # Query => FatedAt(p, w, wd, id)
        <3> HAVE id # Query
        <3>1. FatedAt(r, w, wd, id)
            BY <1>1, Targets DEF Whole, Fated
        <3>2. Len(r.requests) \in Nat /\ DOMAIN r.requests = 1..Len(r.requests)
            BY DEF Remote
        <3>3. /\ DOMAIN p.states = DOMAIN r.states \cup {id}
              /\ DOMAIN p.requests = 1..(Len(r.requests) + 1)
              /\ p.requests[Len(r.requests) + 1] = q
              /\ \A i \in DOMAIN r.requests : p.requests[i] = r.requests[i]
            BY <1>2, <1>3, <2>2, AskedIs
        <3>4. \A i \in DOMAIN p.requests : p.requests[i].type = "watch" =>
                 i \in DOMAIN r.requests /\ p.requests[i] = r.requests[i]
            BY <1>2, <3>2, <3>3
        <3>5. \A i \in DOMAIN r.requests : \A j \in 1..(i - 1) : p.requests[j] = r.requests[j]
            BY <3>2, <3>3
        <3>6. QED
            BY <3>1, <3>3, <3>4, <3>5 DEF FatedAt
    <2>6. p.stream = "open"
        BY <1>3, <1>7
    <2>7. Whole(f, p, w, wd, g)
        BY <1>2, <1>3, <1>4, <2>2, <2>3, <2>4, <2>5, <2>6, AskedWhole
    <2>8. QED
        BY <2>7 DEF p
<1>8. QED
    BY <1>6, <1>7

\* The view's documents, its queue and its target data do not matter to it.
LEMMA WholeSame ==
    ASSUME NEW g \in Ghost, NEW e, NEW r, NEW w, NEW wd, Whole(e, r, w, wd, g),
           NEW f, f.synced = e.synced, f.listening = e.listening, f.resolutions = e.resolutions
    PROVE  Whole(f, r, w, wd, g)
<1>1. \A t : Known(f, t, g) = Known(e, t, g)
    BY DEF RemoteKeys, Known
<1>2. Tagged(f, r, g)
    BY <1>1 DEF Whole, Tagged
<1>3. QED
    BY <1>2 DEF Whole

\* The clients for which all of it holds.
Sound(w, wd, g) == {c \in Fit : Whole(c.engine, c.remote, w, wd, g)}

LEMMA SoundIsClosed ==
    ASSUME NEW g \in Ghost, ~IsFiniteSet(LimboTarget), wire \in Seq(Message),
           NEW w \in Seq(Message), NEW wd,
           \A i \in DOMAIN w : \E j \in DOMAIN wire : w[i].target = wire[j].target
    PROVE  Closed(Sound(w, wd, g)) /\ Sound(w, wd, g) \in SUBSET Fit
<1> DEFINE R == Sound(w, wd, g)
<1>1. \A c : c \in R <=> c \in Fit /\ Whole(c.engine, c.remote, w, wd, g)
    BY DEF Sound
<1> HIDE DEF R
<1>2. ASSUME NEW c \in R PROVE PumpOne(c) \in R
    <2>1. /\ c \in Fit /\ Whole(c.engine, c.remote, w, wd, g) /\ PumpOne(c) \in Fit
          /\ c.engine \in Engine /\ c.remote \in Remote /\ c \in Client
          /\ Linked([engine |-> c.engine, remote |-> c.remote])
        BY <1>1, FitIs, PumpOneFits
    <2>2. CASE PumpOne(c) = c
        BY <2>2
    <2>3. CASE \E d \in Doc :
                 /\ PumpOne(c).remote = ListenTo(c.remote, NextId(c), [token |-> 0, docs |-> {d}])
                 /\ PumpOne(c).engine.synced = c.engine.synced
                 /\ PumpOne(c).engine.listening = c.engine.listening
                 /\ PumpOne(c).engine.resolutions =
                       With(c.engine.resolutions, NextId(c), [key |-> d, received |-> FALSE])
        <3>1. PICK d \in Doc :
                 /\ PumpOne(c).remote = ListenTo(c.remote, NextId(c), [token |-> 0, docs |-> {d}])
                 /\ PumpOne(c).engine.synced = c.engine.synced
                 /\ PumpOne(c).engine.listening = c.engine.listening
                 /\ PumpOne(c).engine.resolutions =
                       With(c.engine.resolutions, NextId(c), [key |-> d, received |-> FALSE])
            BY <2>3
        <3>2. /\ NextId(c) \in LimboTarget /\ NextId(c) \notin DOMAIN c.engine.resolutions
              /\ NextId(c) \notin DOMAIN c.remote.states
              /\ \A j \in DOMAIN wire : wire[j].target # NextId(c)
            BY <2>1, NextIdIs
        <3>3. NextId(c) \notin DOMAIN c.remote.listens
            BY <2>1, <3>2, Targets DEF Linked
        <3>4. Fresh(c.remote, w, wd, NextId(c))
            BY <3>2, <3>3 DEF Fresh
        <3>5. Whole(PumpOne(c).engine, PumpOne(c).remote, w, wd, g)
            BY <2>1, <3>1, <3>4, NewListenWhole
        <3>6. QED
            BY <1>1, <2>1, <3>5
    <2>4. QED
        BY <2>1, <2>2, <2>3, PumpOneIs
<1>3. ASSUME NEW c \in R, NEW d \in DOMAIN c.engine.byKey PROVE Freed(c, d) \in R
    <2> DEFINE id == c.engine.byKey[d]
               f == [c.engine EXCEPT !.byKey = Drop(@, d), !.resolutions = Drop(@, id)]
    <2>1. /\ c \in Fit /\ Whole(c.engine, c.remote, w, wd, g) /\ Freed(c, d) \in Fit
          /\ c.engine \in Engine /\ c.remote \in Remote
          /\ Linked([engine |-> c.engine, remote |-> c.remote])
        BY <1>1, FitIs, FreedFits
    <2>2. id \in DOMAIN c.engine.resolutions /\ id \in DOMAIN c.remote.listens
        BY <2>1 DEF Linked
    <2>3. /\ f.synced = c.engine.synced /\ f.listening = c.engine.listening
          /\ f.resolutions = Drop(c.engine.resolutions, id)
        BY <2>1 DEF Engine
    <2>4. Freed(c, d).engine = f /\ Freed(c, d).remote = StopListeningTo(c.remote, id)
        BY DEF Freed
    <2> HIDE DEF f, id
    <2>5. \A t : t # id => Known(f, t, g) = Known(c.engine, t, g)
        <3> DEFINE s == Drop(c.engine.resolutions, id)
        <3>1. DOMAIN s = DOMAIN c.engine.resolutions \ {id}
            BY DEF Drop
        <3>2. ASSUME NEW t \in DOMAIN c.engine.resolutions, t # id
              PROVE  s[t] = c.engine.resolutions[t]
            BY <3>2 DEF Drop
        <3>3. f.resolutions = s
            BY <2>3
        <3> HIDE DEF s
        <3>4. SameBut(f, c.engine, id)
            BY <2>3, <3>1, <3>2, <3>3 DEF SameBut
        <3>5. QED
            BY <3>4, OtherKeys
    <2>6. f.listening => f.synced = g.keys
        BY <2>1, <2>3 DEF Whole, Tagged
    <2>7. Whole(f, StopListeningTo(c.remote, id), w, wd, g)
        BY <2>1, <2>2, <2>5, <2>6, EndListenWhole
    <2>8. QED
        BY <1>1, <2>1, <2>4, <2>7
<1>4. ASSUME NEW c \in R, NEW s \in Seq(Doc) PROVE Queued(c, s) \in R
    <2>1. c \in Fit /\ Whole(c.engine, c.remote, w, wd, g) /\ c.engine \in Engine
        BY <1>1, FitIs
    <2>2. /\ Queued(c, s).engine = [c.engine EXCEPT !.enqueued = s]
          /\ Queued(c, s).remote = c.remote
        BY DEF Queued
    <2>3. Whole(Queued(c, s).engine, c.remote, w, wd, g)
        BY <2>1, <2>2, WholeSame DEF Engine
    <2>4. QED
        BY <1>1, <2>1, <2>2, <2>3, QueuedFits
<1>5. ASSUME NEW c \in R, NEW l \in SUBSET Doc PROVE InLimbo(c, l) \in R
    <2>1. c \in Fit /\ Whole(c.engine, c.remote, w, wd, g) /\ c.engine \in Engine
        BY <1>1, FitIs
    <2>2. /\ InLimbo(c, l).engine = [c.engine EXCEPT !.limbo = l]
          /\ InLimbo(c, l).remote = c.remote
        BY DEF InLimbo
    <2>3. Whole(InLimbo(c, l).engine, c.remote, w, wd, g)
        BY <2>1, <2>2, WholeSame DEF Engine
    <2>4. QED
        BY <1>1, <2>1, <2>2, <2>3, InLimboFits
<1>6. QED
    BY <1>1, <1>2, <1>3, <1>4, <1>5 DEF Closed, R

-----------------------------------------------------------------------------
(* The actions of the app, the clock and the stream's life.                *)

WholeFor(g) == g.keys = disk.keys /\ Whole(engine, remote, wire, watched, g)

\* The query's count is right unless a refusal of the query has crossed.
WholeInv == \E g \in Ghost : WholeFor(g) /\ (crossed = 0 => g.off = 0)

LEMMA GhostExists ==
    \A n \in Int, K \in SUBSET Doc : \E h \in Ghost : h.off = n /\ h.keys = K
<1> SUFFICES ASSUME NEW n \in Int, NEW K \in SUBSET Doc
             PROVE  \E h \in Ghost : h.off = n /\ h.keys = K
    OBVIOUS
<1>1. [off |-> n, keys |-> K] \in Ghost
    BY DEF Ghost
<1>2. QED
    BY <1>1

LEMMA SyncedIs ==
    ASSUME NEW g \in Ghost, WholeFor(g)
    PROVE  engine.listening => engine.synced = disk.keys
BY DEF WholeFor, Whole, Tagged

LEMMA InitWhole ==
    Init => WholeInv
<1> SUFFICES ASSUME Init PROVE WholeInv
    OBVIOUS
<1>1. /\ disk.keys = {} /\ engine = FirstEngine /\ ~FirstEngine.listening
    BY DEF Init, FirstEngine
<1>2. PICK g \in Ghost : g.off = 0 /\ g.keys = {}
    <2>1. 0 \in Int /\ {} \in SUBSET Doc
        OBVIOUS
    <2>2. QED
        BY <2>1, GhostExists
<1>3. /\ remote = FirstRemote /\ wire = <<>> /\ watched = Empty
      /\ FirstRemote.requests = <<>> /\ FirstRemote.states = Empty
    BY DEF Init, FirstRemote
<1>4. Clocks(FirstRemote)
    BY DEF Clocks, FirstRemote, Online
<1>5. WholeFor(g)
    BY <1>1, <1>2, <1>3, <1>4, FirstRemoteIs, QuietIsWhole DEF WholeFor
<1>6. QED
    BY <1>2, <1>5 DEF WholeInv

\* What the loss of the stream leaves.
LEMMA DisconnectedWhole ==
    ASSUME Disconnected, disk \in Disk, NEW r \in Remote, remote' = r,
           r.requests = <<>>, r.states = Empty, Clocks(r),
           engine'.listening => engine'.synced = disk.keys
    PROVE  WholeInv'
<1>1. wire' = <<>> /\ watched' = Empty /\ disk' = disk
    BY DEF Disconnected
<1>2. disk.keys \in SUBSET Doc
    BY DEF Disk
<1>3. PICK h \in Ghost : h.off = 0 /\ h.keys = disk.keys
    <2>1. 0 \in Int
        OBVIOUS
    <2>2. QED
        BY <1>2, <2>1, GhostExists
<1>4. Whole(engine', r, <<>>, Empty, h)
    BY <1>3, QuietIsWhole
<1>5. QED
    BY <1>1, <1>3, <1>4 DEF WholeFor, WholeInv

LEMMA CloseWhole ==
    ASSUME NEW g \in Ghost, TypeInv, WholeFor(g), Close
    PROVE  WholeInv'
<1> DEFINE closed == CleanUp(remote)
           quiet == [closed EXCEPT !.online = Online("Unknown")]
           o == HandleWatchStreamFailure(closed.online)
           failed == [closed EXCEPT !.online = o]
<1>1. /\ remote \in Remote /\ remote.online \in OnlineState /\ Clocks(remote)
      /\ engine \in Engine /\ disk \in Disk
    BY DEF TypeInv, WholeFor, Whole, Remote
<1>2. /\ closed \in Remote /\ closed.online = remote.online
      /\ closed.stream = "off" /\ ~closed.idle
      /\ closed.requests = <<>> /\ closed.states = Empty
    BY <1>1, CleanUpIs
<1>3. remote' = quiet \/ remote' = StartWatchStream(failed)
    BY DEF Close
<1> HIDE DEF closed
<1>4. /\ quiet \in Remote /\ ~quiet.idle /\ ~quiet.online.timer
      /\ quiet.requests = <<>> /\ quiet.states = Empty
    BY <1>2, OnlineIs, OnlineSet
<1>5. Clocks(quiet)
    BY <1>4 DEF Clocks
<1>6. o \in OnlineState /\ (o.timer => o.state = "Unknown")
    BY <1>1, <1>2, OnlineIs DEF HandleWatchStreamFailure, OnlineState, Clocks
<1>7. /\ failed \in Remote /\ ~failed.idle /\ failed.online = o
      /\ failed.requests = <<>> /\ failed.states = Empty
    BY <1>2, <1>6, OnlineSet
<1> HIDE DEF failed, o, quiet
<1> DEFINE again == StartWatchStream(failed)
<1>8. /\ again \in Remote /\ ~again.idle /\ again.stream = "starting"
      /\ again.requests = <<>> /\ again.states = Empty
      /\ again.online = HandleWatchStreamStart(o)
    BY <1>7, StartWatchStreamIs DEF StartWatchStream, Remote
<1> HIDE DEF again
<1>9. Clocks(again)
    BY <1>6, <1>8 DEF Clocks, HandleWatchStreamStart, OnlineState
<1>10. remote' \in Remote /\ remote'.requests = <<>> /\ remote'.states = Empty /\ Clocks(remote')
    BY <1>3, <1>4, <1>5, <1>8, <1>9 DEF again
<1>11. Disconnected
    BY DEF Close
<1>12. engine'.listening = engine.listening /\ engine'.synced = engine.synced
    BY <1>1, BroadcastIs DEF Close
<1>13. engine'.listening => engine'.synced = disk.keys
    BY <1>12, SyncedIs
<1>14. QED
    BY <1>1, <1>10, <1>11, <1>13, DisconnectedWhole

\* The two ways to stop the stream without an error.
LEMMA StoppedClocks ==
    ASSUME NEW r \in Remote
    PROVE  LET stopped == [CleanUp(r) EXCEPT !.online = Online("Unknown")]
               again == StartWatchStream(stopped)
           IN  /\ stopped \in Remote /\ stopped.requests = <<>> /\ stopped.states = Empty
               /\ Clocks(stopped)
               /\ again \in Remote /\ again.requests = <<>> /\ again.states = Empty
               /\ Clocks(again)
<1> DEFINE stopped == [CleanUp(r) EXCEPT !.online = Online("Unknown")]
           again == StartWatchStream(stopped)
<1>1. /\ stopped \in Remote /\ ~stopped.idle /\ stopped.online = Online("Unknown")
      /\ stopped.requests = <<>> /\ stopped.states = Empty
    BY CleanUpIs, OnlineIs, OnlineSet
<1> HIDE DEF stopped
<1>2. Clocks(stopped)
    BY <1>1, OnlineIs DEF Clocks
<1>3. /\ again \in Remote /\ ~again.idle /\ again.stream = "starting"
      /\ again.requests = <<>> /\ again.states = Empty
      /\ again.online = HandleWatchStreamStart(Online("Unknown"))
    BY <1>1, StartWatchStreamIs DEF StartWatchStream, Remote
<1> HIDE DEF again
<1>4. Clocks(again)
    BY <1>3 DEF Clocks, HandleWatchStreamStart, Online
<1>5. QED
    BY <1>1, <1>2, <1>3, <1>4 DEF again, stopped

LEMMA IdleTimeoutWhole ==
    ASSUME NEW g \in Ghost, TypeInv, WholeFor(g), IdleTimeout
    PROVE  WholeInv'
<1>1. remote \in Remote /\ disk \in Disk
    BY DEF TypeInv
<1>2. remote' \in Remote /\ remote'.requests = <<>> /\ remote'.states = Empty /\ Clocks(remote')
    BY <1>1, StoppedClocks DEF IdleTimeout
<1>3. engine'.listening => engine'.synced = disk.keys
    BY SyncedIs DEF IdleTimeout
<1>4. QED
    BY <1>1, <1>2, <1>3, DisconnectedWhole DEF IdleTimeout

LEMMA RestartNetworkWhole ==
    ASSUME NEW g \in Ghost, TypeInv, WholeFor(g), RestartNetwork
    PROVE  WholeInv'
<1> DEFINE stopped == [CleanUp(remote) EXCEPT !.online = Online("Unknown")]
<1>1. remote \in Remote /\ disk \in Disk
    BY DEF TypeInv
<1>2. remote' = stopped \/ remote' = StartWatchStream(stopped)
    BY DEF RestartNetwork
<1>3. /\ stopped \in Remote /\ stopped.requests = <<>> /\ stopped.states = Empty
      /\ Clocks(stopped)
      /\ StartWatchStream(stopped) \in Remote /\ StartWatchStream(stopped).requests = <<>>
      /\ StartWatchStream(stopped).states = Empty /\ Clocks(StartWatchStream(stopped))
    BY <1>1, StoppedClocks
<1> HIDE DEF stopped
<1>4. remote' \in Remote /\ remote'.requests = <<>> /\ remote'.states = Empty /\ Clocks(remote')
    BY <1>2, <1>3
<1>5. engine'.listening => engine'.synced = disk.keys
    BY SyncedIs DEF RestartNetwork
<1>6. QED
    BY <1>1, <1>4, <1>5, DisconnectedWhole DEF RestartNetwork

LEMMA KillWhole ==
    ASSUME TypeInv, Kill
    PROVE  WholeInv'
<1>1. /\ remote' = FirstRemote /\ wire' = <<>> /\ watched' = Empty
      /\ FirstRemote.requests = <<>> /\ FirstRemote.states = Empty
    BY DEF Kill, FirstRemote
<1>2. Clocks(FirstRemote)
    BY DEF Clocks, FirstRemote, Online
<1>3. disk' = disk /\ disk.keys \in SUBSET Doc /\ ~engine'.listening
    BY DEF Kill, FirstEngine, TypeInv, Disk
<1>4. PICK h \in Ghost : h.off = 0 /\ h.keys = disk.keys
    <2>1. 0 \in Int
        OBVIOUS
    <2>2. QED
        BY <1>3, <2>1, GhostExists
<1>5. Whole(engine', FirstRemote, <<>>, Empty, h)
    BY <1>1, <1>2, <1>3, <1>4, FirstRemoteIs, QuietIsWhole
<1>6. QED
    BY <1>1, <1>3, <1>4, <1>5 DEF WholeFor, WholeInv

\* RemoteStore with another online state.
LEMMA WholeOnline ==
    ASSUME NEW g \in Ghost, NEW e, NEW r, NEW w, NEW wd, Whole(e, r, w, wd, g),
           NEW f, f.synced = e.synced, f.listening = e.listening, f.resolutions = e.resolutions,
           NEW p, p.listens = r.listens, p.requests = r.requests, p.states = r.states,
           p.stream = r.stream, Clocks(p)
    PROVE  Whole(f, p, w, wd, g)
<1>1. \A t : StateOf(p, t) = StateOf(r, t) /\ Out(p, t) = Out(r, t) /\ Coming(p, w, t) = Coming(r, w, t)
    BY SameStates
<1>2. Whole(f, r, w, wd, g)
    BY WholeSame
<1>3. Quiet(p, w, wd)
    BY DEF Whole, Quiet
<1>4. Counted(p, w, g)
    BY <1>1 DEF Whole, Counted, CountedAt
<1>5. Fated(p, w, wd) /\ Aimed(p, w, wd)
    BY <1>1 DEF Whole, Fated, FatedAt, Aimed, AimedAt
<1>6. Tagged(f, p, g)
    BY <1>1, <1>2 DEF Whole, Tagged, TaggedAt, IsActive
<1>7. QED
    BY <1>3, <1>4, <1>5, <1>6 DEF Whole

LEMMA OnlineStateTimeoutWhole ==
    ASSUME NEW g \in Ghost, TypeInv, WholeFor(g), OnlineStateTimeout
    PROVE  WholeFor(g)'
<1> DEFINE o == [remote.online EXCEPT !.timer = FALSE, !.state = "Offline"]
<1>1. remote \in Remote /\ engine \in Engine /\ Clocks(remote)
    BY DEF TypeInv, WholeFor, Whole
<1>2. o \in OnlineState /\ ~o.timer
    BY <1>1 DEF Remote, OnlineState
<1>3. remote' = [remote EXCEPT !.online = o]
    BY DEF OnlineStateTimeout
<1> HIDE DEF o
<1>4. /\ remote'.listens = remote.listens /\ remote'.stream = remote.stream
      /\ remote'.idle = remote.idle /\ remote'.requests = remote.requests
      /\ remote'.states = remote.states /\ remote'.online = o
    BY <1>1, <1>2, <1>3, OnlineSet
<1>5. Clocks(remote')
    BY <1>1, <1>2, <1>4 DEF Clocks
<1>6. /\ engine'.synced = engine.synced /\ engine'.resolutions = engine.resolutions
      /\ engine'.listening = engine.listening
    BY <1>1, BroadcastIs DEF OnlineStateTimeout
<1>7. wire' = wire /\ watched' = watched /\ disk' = disk
    BY DEF OnlineStateTimeout, backend
<1>8. QED
    BY <1>4, <1>5, <1>6, <1>7, WholeOnline DEF WholeFor

LEMMA ListenWhole ==
    ASSUME NEW g \in Ghost, TypeInv, WholeFor(g), Listen
    PROVE  WholeFor(g)'
<1> DEFINE data == [token |-> disk.saved.token, docs |-> Doc]
           p == ListenTo(remote, Query, data)
           q == Request("watch", Query, data)
<1>1. /\ engine \in Engine /\ remote \in Remote /\ disk \in Disk /\ wire \in Seq(Message)
      /\ Whole(engine, remote, wire, watched, g)
    BY DEF TypeInv, WholeFor
<1>2. data \in TargetData /\ Query \in Target
    BY <1>1, Targets DEF Disk, Data, TargetData
<1>3. /\ remote' = p /\ wire' = wire /\ watched' = watched /\ disk' = disk
      /\ engine'.resolutions = engine.resolutions /\ engine'.synced = disk.keys
    BY <1>1 DEF Listen, backend, Engine
<1>4. q \in Requests /\ q.target = Query
    BY <1>2, RequestIs
<1>5. /\ p \in Remote /\ p.listens = With(remote.listens, Query, data)
      /\ p.stream = IF remote.stream = "off" THEN "starting" ELSE remote.stream
    BY <1>1, <1>2, ListenToIs
<1>6. Clocks(p)
    BY <1>1, <1>2, ListenToClocks DEF Whole
<1>7. /\ remote.stream = "open" => Asked(p, remote, q)
      /\ remote.stream # "open" => p.requests = remote.requests /\ p.states = remote.states
    BY <1>1, <1>2, ListenToDoes
<1> HIDE DEF p, q, data
<1>8. CASE remote.stream # "open"
    <2>1. engine'.listening => engine'.synced = g.keys
        BY <1>3 DEF WholeFor
    <2>2. Whole(engine', p, wire, watched, g)
        BY <1>1, <1>5, <1>6, <1>7, <1>8, <2>1, QuietStays
    <2>3. QED
        BY <1>3, <2>2 DEF WholeFor
<1>9. CASE remote.stream = "open"
    <2>1. Asked(p, remote, q) /\ p.stream = "open"
        BY <1>5, <1>7, <1>9
    <2>2. \A t \in Target : t # Query =>
             /\ t \in DOMAIN p.listens <=> t \in DOMAIN remote.listens
             /\ t \in DOMAIN remote.listens => p.listens[t].docs = remote.listens[t].docs
        BY <1>5 DEF With
    <2>3. /\ \A t \in Target : t # Query => Known(engine', t, g) = Known(engine, t, g)
          /\ engine'.listening => engine'.synced = g.keys
        BY <1>3 DEF Known, RemoteKeys, WholeFor
    <2>4. CountedAt(p, wire, Query, g)
        <3>1. Coming(p, wire, Query) = Coming(remote, wire, Query) + 1
              /\ Out(p, Query) = Out(remote, Query) + 1
            BY <1>1, <1>2, <1>4, <1>5, <2>1, AskedMoves
        <3>2. CountedAt(remote, wire, Query, g) /\ Out(remote, Query) \in Int
              /\ Coming(remote, wire, Query) \in Nat
            BY <1>1, <1>2, OutIs DEF Whole, Counted
        <3>3. QED
            BY <3>1, <3>2 DEF CountedAt, Ghost
    <2>5. Whole(engine', p, wire, watched, g)
        BY <1>1, <1>4, <1>5, <1>6, <2>1, <2>2, <2>3, <2>4, AskedWhole
    <2>6. QED
        BY <1>3, <2>5 DEF WholeFor
<1>10. QED
    BY <1>8, <1>9

LEMMA StopListeningWhole ==
    ASSUME NEW g \in Ghost, ~IsFiniteSet(LimboTarget), TypeInv, WholeFor(g), StopListening
    PROVE  WholeFor(g)'
<1> DEFINE r == StopListeningTo(remote, Query)
           left == CleanupTarget([engine |-> engine, remote |-> r])
           R == Sound(wire, watched, g)
<1>1. /\ engine \in Engine /\ remote \in Remote /\ wire \in Seq(Message)
      /\ Linked([engine |-> engine, remote |-> remote])
      /\ Whole(engine, remote, wire, watched, g)
    BY DEF TypeInv, WholeFor
<1>2. Query \in DOMAIN remote.listens
    BY <1>1 DEF Linked, StopListening
<1>3. r \in Remote /\ r.listens = Drop(remote.listens, Query)
    BY <1>1, <1>2, StopListeningToIs
<1>4. /\ WithoutView(engine) \in Engine
      /\ WithoutView(engine).resolutions = engine.resolutions
      /\ ~WithoutView(engine).listening
    BY <1>1, WithoutViewIs
<1>5. \A t \in Target : t # Query => Known(WithoutView(engine), t, g) = Known(engine, t, g)
    BY <1>4 DEF Known, RemoteKeys
<1>6. Whole(WithoutView(engine), r, wire, watched, g)
    BY <1>1, <1>2, <1>4, <1>5, EndListenWhole
<1>7. /\ engine' = left.engine /\ remote' = left.remote /\ wire' = wire /\ watched' = watched
      /\ disk'.keys = disk.keys
    BY DEF StopListening, backend, ReleaseTarget, TypeInv, Disk
<1> HIDE DEF r
<1>8. [engine |-> WithoutView(engine), remote |-> r] \in R
    <2>1. Linked([engine |-> WithoutView(engine), remote |-> r])
        BY <1>1, <1>3, LinkWithoutQuery
    <2>2. [engine |-> WithoutView(engine), remote |-> r] \in Fit
        BY <1>3, <1>4, <2>1, MakeFit
    <2>3. QED
        BY <1>6, <2>2 DEF Sound
<1>9. Closed(R) /\ R \in SUBSET Fit
    BY <1>1, SoundIsClosed
<1>10. [engine |-> engine, remote |-> r] \in Client
    BY <1>1, <1>3 DEF Client
<1> HIDE DEF R
<1>11. left \in R
    BY <1>8, <1>9, <1>10, CleanupStays
<1>12. QED
    BY <1>7, <1>11 DEF R, Sound, WholeFor

-----------------------------------------------------------------------------
(* OnWatchStreamOpen                                                       *)

\* The k-th turn: the first k targets are asked for.
Opening(r, order, x, k) ==
    /\ x.stream = "open" /\ x.online = r.online /\ ~x.idle
    /\ DOMAIN x.requests = 1..k
    /\ \A i \in 1..k : x.requests[i] = Request("watch", order[i], r.listens[order[i]])
    /\ DOMAIN x.states = {order[i] : i \in 1..k}
    /\ \A t \in Target : StateOf(x, t).changes = Empty
    /\ \A t \in Target : Out(x, t) = CountOf(x.requests, Asks(t))
    /\ \A t \in Target : t \in DOMAIN x.states => Out(x, t) = 1
    /\ \A t \in Target : t \notin DOMAIN x.states => Out(x, t) = 0

LEMMA OpeningTurn ==
    ASSUME NEW r \in Remote, NEW order \in SetToSeqs(DOMAIN r.listens), NEW x \in Remote,
           x.listens = r.listens, NEW k \in 1..Len(order), Opening(r, order, x, k - 1)
    PROVE  Opening(r, order, Asking(x, order[k]), k)
<1> DEFINE t0 == order[k]
           q == Request("watch", t0, r.listens[t0])
           p == Asking(x, t0)
<1>1. /\ order \in Seq(DOMAIN r.listens) /\ DOMAIN order = 1..Len(order)
      /\ \A i, j \in DOMAIN order : i # j => order[i] # order[j]
    BY OrderIs
<1>2. Len(order) \in Nat /\ k \in Nat /\ k - 1 \in Nat /\ t0 \in DOMAIN r.listens
    BY <1>1
<1>3. t0 \in Target /\ r.listens[t0] \in TargetData
    BY <1>2, PFunIs DEF Remote
<1>4. q \in Requests /\ q.target = t0
    BY <1>3, RequestIs
<1>5. p = Send(x, q)
    BY DEF Asking
<1>6. /\ p \in Remote /\ p.stream = x.stream /\ p.online = x.online /\ ~p.idle
      /\ Asked(p, x, q)
    BY <1>4, <1>5, SendIs, SendAsks
<1> HIDE DEF p, q
<1>7. t0 \notin DOMAIN x.states
    <2>1. \A i \in 1..(k - 1) : order[i] # t0
        BY <1>1, <1>2
    <2>2. QED
        BY <2>1 DEF Opening
<1>8. /\ DOMAIN p.states = DOMAIN x.states \cup {t0}
      /\ \A t \in Target : t # t0 => StateOf(p, t) = StateOf(x, t)
      /\ StateOf(p, t0).changes = StateOf(x, t0).changes
      /\ DOMAIN p.requests = 1..(Len(x.requests) + 1)
      /\ p.requests[Len(x.requests) + 1] = q
      /\ \A i \in DOMAIN x.requests : p.requests[i] = x.requests[i]
    BY <1>4, <1>6, AskedIs
<1>9. Len(x.requests) = k - 1
    <2>1. x.requests \in Seq(Requests) /\ DOMAIN x.requests = 1..(k - 1)
        BY DEF Remote, Opening
    <2>2. QED
        BY <1>2, <2>1
<1>10. DOMAIN p.requests = 1..k
    BY <1>2, <1>8, <1>9
<1>11. \A i \in 1..k : p.requests[i] = Request("watch", order[i], r.listens[order[i]])
    <2>1. \A i \in 1..(k - 1) : p.requests[i] = Request("watch", order[i], r.listens[order[i]])
        BY <1>8 DEF Opening
    <2>2. p.requests[k] = Request("watch", order[k], r.listens[order[k]])
        BY <1>2, <1>8, <1>9 DEF q
    <2>3. QED
        BY <1>2, <2>1, <2>2
<1>12. DOMAIN p.states = {order[i] : i \in 1..k}
    <2>1. DOMAIN x.states = {order[i] : i \in 1..(k - 1)}
        BY DEF Opening
    <2>2. 1..k = 1..(k - 1) \cup {k}
        BY <1>2
    <2>3. QED
        BY <1>8, <2>1, <2>2
<1>13. \A t \in Target : /\ t = t0 => Out(p, t) = Out(x, t) + 1 /\ Coming(p, <<>>, t) = Coming(x, <<>>, t) + 1
                         /\ t # t0 => Out(p, t) = Out(x, t) /\ Coming(p, <<>>, t) = Coming(x, <<>>, t)
    <2>1. <<>> \in Seq(Message)
        OBVIOUS
    <2>2. \A w \in Seq(Message), t \in Target :
             /\ t = t0 => Out(p, t) = Out(x, t) + 1 /\ Coming(p, w, t) = Coming(x, w, t) + 1
             /\ t # t0 => Out(p, t) = Out(x, t) /\ Coming(p, w, t) = Coming(x, w, t)
        BY <1>4, <1>6, AskedMoves
    <2>3. QED
        BY <2>1, <2>2
<1>14. \A t : /\ CountOf(p.requests, Asks(t)) = Coming(p, <<>>, t)
              /\ CountOf(x.requests, Asks(t)) = Coming(x, <<>>, t)
    <2>1. \A t : CountOf(p.requests, Asks(t)) \in Nat /\ CountOf(x.requests, Asks(t)) \in Nat
        <3>1. <<>> \in Seq(Message)
            OBVIOUS
        <3>2. QED
            BY <1>6, <3>1, OutIs
    <2>2. QED
        BY <2>1, CountNothing DEF Coming
<1>15. \A t \in Target : Out(p, t) = CountOf(p.requests, Asks(t))
    BY <1>13, <1>14 DEF Opening
<1>16. \A t \in Target : /\ t \in DOMAIN p.states => Out(p, t) = 1
                         /\ t \notin DOMAIN p.states => Out(p, t) = 0
    BY <1>7, <1>8, <1>13 DEF Opening
<1>17. \A t \in Target : StateOf(p, t).changes = Empty
    BY <1>8 DEF Opening
<1>18. p.stream = "open" /\ p.online = r.online /\ ~p.idle
    BY <1>6 DEF Opening
<1>19. Opening(r, order, p, k)
    BY <1>10, <1>11, <1>12, <1>15, <1>16, <1>17, <1>18 DEF Opening
<1>20. QED
    BY <1>19 DEF p

LEMMA OpeningStarts ==
    ASSUME NEW r \in Remote, r.stream = "starting", r.requests = <<>>, r.states = Empty, Clocks(r),
           NEW order, NEW x, x = [r EXCEPT !.stream = "open"]
    PROVE  Opening(r, order, x, 0)
<1>1. /\ x.stream = "open" /\ x.online = r.online /\ x.idle = r.idle /\ x.states = Empty
      /\ x.requests = <<>>
    BY DEF Remote
<1>2. ~x.idle
    BY <1>1 DEF Clocks
<1>3. DOMAIN x.requests = 1..0 /\ 1..0 = {}
    BY <1>1
<1>4. DOMAIN x.states = {} /\ {order[i] : i \in 1..0} = {}
    BY <1>1, <1>3, EmptyIs
<1>5. \A t : StateOf(x, t).changes = Empty /\ Out(x, t) = 0
    BY <1>4 DEF Out, StateOf, NewTargetState
<1>6. \A t : CountOf(x.requests, Asks(t)) = 0
    BY <1>1, CountNothing
<1>7. QED
    BY <1>1, <1>2, <1>3, <1>4, <1>5, <1>6 DEF Opening

LEMMA OpenedIs ==
    ASSUME NEW r \in Remote, r.stream = "starting", r.requests = <<>>, r.states = Empty, Clocks(r),
           NEW order \in SetToSeqs(DOMAIN r.listens)
    PROVE  Opening(r, order, WatchAll(r, order), Len(order))
<1>1. order \in Seq(DOMAIN r.listens)
    BY OrderIs
<1>2. PICK st : /\ st \in [0..Len(order) -> {x \in Remote : x.listens = r.listens}]
                /\ st[0] = [r EXCEPT !.stream = "open"]
                /\ \A k \in 1..Len(order) : st[k] = Asking(st[k - 1], order[k])
                /\ st[Len(order)] = WatchAll(r, order)
    BY <1>1, WatchTurns, Zenon
<1> DEFINE P == {k \in 0..Len(order) : Opening(r, order, st[k], k)}
<1>3. Len(order) \in Nat
    BY <1>1
<1>4. 0 \in P
    <2>1. Opening(r, order, st[0], 0)
        BY <1>2, OpeningStarts
    <2>2. QED
        BY <1>3, <2>1
<1>5. ASSUME NEW k \in 1..Len(order), k - 1 \in P PROVE k \in P
    <2>1. st[k - 1] \in Remote /\ st[k - 1].listens = r.listens
        BY <1>2
    <2>2. Opening(r, order, st[k - 1], k - 1)
        BY <1>5
    <2>3. Opening(r, order, Asking(st[k - 1], order[k]), k)
        BY <2>1, <2>2, OpeningTurn
    <2>4. QED
        BY <1>2, <1>3, <2>3
<1> HIDE DEF P
<1>6. Len(order) \in P
    BY <1>3, <1>4, <1>5, Upwards
<1>7. QED
    BY <1>2, <1>6 DEF P

LEMMA OpenWhole ==
    ASSUME NEW g \in Ghost, TypeInv, WholeFor(g), Open
    PROVE  WholeFor(g)'
<1>1. /\ remote \in Remote /\ Whole(engine, remote, wire, watched, g) /\ remote.stream = "starting"
    BY DEF TypeInv, WholeFor, Open
<1>2. /\ remote.requests = <<>> /\ remote.states = Empty /\ wire = <<>> /\ watched = Empty
      /\ Clocks(remote)
    BY <1>1 DEF Whole, Quiet
<1>3. PICK order \in SetToSeqs(DOMAIN remote.listens) : remote' = WatchAll(remote, order)
    BY DEF Open
<1> DEFINE r == remote
           x == WatchAll(remote, order)
           n == Len(order)
<1>4. Opening(r, order, x, n)
    BY <1>1, <1>2, OpenedIs
<1>5. /\ order \in Seq(DOMAIN r.listens) /\ DOMAIN order = 1..n
      /\ \A i, j \in DOMAIN order : i # j => order[i] # order[j]
    BY <1>1, OrderIs
<1>6. x \in Remote /\ x.listens = r.listens
    BY <1>1, <1>5, WatchAllIs
<1>7. n \in Nat /\ \A i \in 1..n : /\ x.requests[i].target = order[i]
                                   /\ x.requests[i].docs = r.listens[order[i]].docs
    <2>1. \A i \in 1..n : order[i] \in DOMAIN r.listens
        BY <1>5
    <2>2. \A t \in DOMAIN r.listens : t \in Target /\ r.listens[t] \in TargetData
        BY <1>1, PFunIs DEF Remote
    <2>3. \A i \in 1..n : x.requests[i] = Request("watch", order[i], r.listens[order[i]])
        BY <1>4 DEF Opening
    <2> HIDE DEF x, r, n
    <2>4. \A i \in 1..n : x.requests[i].target = order[i] /\ x.requests[i].docs = r.listens[order[i]].docs
        BY <2>1, <2>2, <2>3, RequestIs
    <2>5. QED
        BY <1>5, <2>4 DEF n
<1> HIDE DEF x, n
<1>8. Quiet(x, <<>>, Empty)
    BY <1>4 DEF Quiet, Opening
<1>9. g.off = 0
    <2>1. Out(remote, Query) = 0 /\ Coming(remote, wire, Query) = 0
        BY <1>2, EmptyIs, CountNothing DEF Out, StateOf, NewTargetState, Coming
    <2>2. CountedAt(remote, wire, Query, g)
        BY <1>1, Targets DEF Whole, Counted
    <2>3. QED
        BY <2>1, <2>2 DEF CountedAt, Ghost
<1>10. Counted(x, <<>>, g)
    <2>1. ASSUME NEW t \in Target PROVE CountedAt(x, <<>>, t, g)
        <3>1. Out(x, t) = CountOf(x.requests, Asks(t)) /\ Out(x, t) <= 1
            BY <1>4 DEF Opening
        <3>2. CountOf(x.requests, Asks(t)) \in Nat
            <4>1. <<>> \in Seq(Message)
                OBVIOUS
            <4>2. QED
                BY <1>6, <4>1, OutIs
        <3>3. Coming(x, <<>>, t) = Out(x, t) /\ Out(x, t) \in Nat
            BY <3>1, <3>2, CountNothing DEF Coming
        <3>4. QED
            BY <1>9, <3>1, <3>3 DEF CountedAt
    <2>2. QED
        BY <2>1 DEF Counted
<1>11. DOMAIN x.requests = 1..n /\ DOMAIN Empty = {} /\ \A t : ~Ended(<<>>, t)
    BY <1>4, EmptyIs DEF Opening, Ended
<1>12. Fated(x, <<>>, Empty)
    <2>1. ASSUME NEW i \in 1..n, NEW j \in 1..(i - 1)
          PROVE  x.requests[j].target # x.requests[i].target
        <3>1. j \in 1..n /\ j # i
            BY <1>7
        <3>2. QED
            BY <1>5, <1>7, <3>1
    <2>2. QED
        BY <1>11, <2>1 DEF Fated, FatedAt
<1>13. Aimed(x, <<>>, Empty)
    <2>1. ASSUME NEW t \in LimboTarget, t \in DOMAIN x.listens PROVE AimedAt(x, <<>>, Empty, t)
        <3>1. StateOf(x, t).changes = Empty
            BY <1>4, Targets DEF Opening
        <3>2. \A i \in DOMAIN x.requests : x.requests[i].target = t =>
                 x.requests[i].docs = x.listens[t].docs
            BY <1>6, <1>7, <1>11
        <3>3. QED
            BY <1>11, <3>1, <3>2, EmptyIs DEF AimedAt
    <2>2. QED
        BY <2>1 DEF Aimed
<1>14. Tagged(engine, x, g)
    <2>1. \A t \in DOMAIN x.states : t \in Target
        BY <1>6, StatesIs
    <2>2. \A t \in DOMAIN x.states : Out(x, t) = 1 /\ StateOf(x, t).changes = Empty
        BY <1>4, <2>1 DEF Opening
    <2>3. \A t \in DOMAIN x.states : ~IsActive(x, t)
        BY <2>2 DEF IsActive, Out
    <2>4. \A t \in DOMAIN x.states : x.states[t].changes = Empty
        BY <2>2 DEF StateOf
    <2>5. \A t \in DOMAIN x.states : \A K : TaggedAt(K, x, t)
        BY <2>4, EmptyIs DEF TaggedAt
    <2>6. engine.listening => engine.synced = g.keys
        BY <1>1 DEF Whole, Tagged
    <2>7. QED
        BY <2>5, <2>6 DEF Tagged
<1>15. Clocks(x)
    BY <1>1, <1>2, <1>4 DEF Clocks, Opening
<1>16. Whole(engine, x, <<>>, Empty, g)
    BY <1>8, <1>10, <1>12, <1>13, <1>14, <1>15 DEF Whole
<1>17. engine' = engine /\ wire' = <<>> /\ watched' = Empty /\ disk' = disk
    BY <1>2 DEF Open
<1>18. QED
    BY <1>3, <1>16, <1>17 DEF x, WholeFor

-----------------------------------------------------------------------------
(* What the backend does.                                                  *)

\* u goes on where w ends, with messages of B.
Continues(u, w, B) ==
    /\ u \in Seq(Message)
    /\ \A t \in Target : CountOf(u, Acks(t)) = CountOf(w, Acks(t))
    /\ \A i \in DOMAIN u : u[i] \in B \/ \E j \in DOMAIN w : u[i] = w[j]

\* Messages that answer no request.
Mute(B) == \A m \in B : m.type \notin {"added", "removed", "error"}

LEMMA ContinuesSame ==
    ASSUME NEW w \in Seq(Message), NEW B
    PROVE  Continues(w, w, B)
BY DEF Continues

LEMMA ContinuesMore ==
    ASSUME NEW w \in Seq(Message), NEW B, Mute(B), NEW u, Continues(u, w, B),
           NEW v \in Seq(Message), \A i \in DOMAIN v : v[i] \in B
    PROVE  Continues(u \o v, w, B)
<1>1. u \in Seq(Message) /\ u \o v \in Seq(Message)
    BY DEF Continues
<1>2. \A t : \A i \in DOMAIN v : v[i] \notin Acks(t)
    BY DEF Mute, Acks
<1>3. \A t \in Target : CountOf(u \o v, Acks(t)) = CountOf(w, Acks(t))
    <2>1. \A t \in Target : CountOf(u \o v, Acks(t)) = CountOf(u, Acks(t))
        BY <1>1, <1>2, CountSame
    <2>2. QED
        BY <2>1 DEF Continues
<1>4. ASSUME NEW i \in DOMAIN (u \o v)
      PROVE  (u \o v)[i] \in B \/ \E j \in DOMAIN w : (u \o v)[i] = w[j]
    <2>1. CASE i \in DOMAIN u
        <3>1. (u \o v)[i] = u[i]
            BY <1>1, <2>1
        <3>2. QED
            BY <2>1, <3>1 DEF Continues
    <2>2. CASE i \notin DOMAIN u
        <3>1. i - Len(u) \in DOMAIN v /\ (u \o v)[i] = v[i - Len(u)]
            BY <1>1, <2>2
        <3>2. QED
            BY <3>1
    <2>3. QED
        BY <2>1, <2>2
<1>5. QED
    BY <1>1, <1>3, <1>4 DEF Continues

\* A wire that goes on with what is true of the targets.
LEMMA WireGrows ==
    ASSUME NEW g \in Ghost,
           NEW e, NEW r, NEW w \in Seq(Message), NEW wd, Whole(e, r, w, wd, g), r.stream = "open",
           NEW B, Mute(B), NEW u, Continues(u, w, B),
           \A m \in B : m.type = "document" /\ m.target \in LimboTarget /\ m.target \in DOMAIN r.listens =>
              m.doc \in r.listens[m.target].docs
    PROVE  Whole(e, r, u, wd, g)
<1>1. Quiet(r, u, wd)
    BY DEF Quiet
<1>2. Counted(r, u, g)
    <2>1. \A t \in Target : Coming(r, u, t) = Coming(r, w, t)
        BY DEF Coming, Continues
    <2>2. QED
        BY <2>1 DEF Whole, Counted, CountedAt
<1>3. \A t : Ended(u, t) => Ended(w, t)
    BY DEF Ended, Continues, Mute
<1>4. Fated(r, u, wd)
    BY <1>3 DEF Whole, Fated, FatedAt
<1>5. Aimed(r, u, wd)
    <2>1. ASSUME NEW t \in LimboTarget, t \in DOMAIN r.listens PROVE AimedAt(r, u, wd, t)
        <3>1. AimedAt(r, w, wd, t)
            BY <2>1 DEF Whole, Aimed
        <3>2. ASSUME NEW i \in DOMAIN u, u[i].target = t, u[i].type = "document"
              PROVE  u[i].doc \in r.listens[t].docs
            <4>1. CASE u[i] \in B
                BY <2>1, <3>2, <4>1
            <4>2. CASE \E j \in DOMAIN w : u[i] = w[j]
                BY <3>1, <3>2, <4>2 DEF AimedAt
            <4>3. QED
                BY <4>1, <4>2 DEF Continues
        <3>3. QED
            BY <3>1, <3>2 DEF AimedAt
    <2>2. QED
        BY <2>1 DEF Aimed
<1>6. QED
    BY <1>1, <1>2, <1>4, <1>5 DEF Whole

\* A request that is read, and the answer to it.
LEMMA AnsweredWhole ==
    ASSUME NEW g \in Ghost,
           NEW e, NEW r \in Remote, NEW w \in Seq(Message), NEW wd, Whole(e, r, w, wd, g),
           r.stream = "open", r.requests # <<>>, NEW p, p = [r EXCEPT !.requests = Tail(@)],
           NEW type \in {"added", "removed", "error"}, NEW xd, NEW t0, t0 = Head(r.requests).target,
           \A t \in DOMAIN xd : t # t0 => t \in DOMAIN wd /\ xd[t] = wd[t],
           t0 \in LimboTarget /\ t0 \in DOMAIN xd =>
              /\ type = "added" /\ ~Ended(w, t0)
              /\ t0 \in DOMAIN r.listens => xd[t0] = r.listens[t0].docs
    PROVE  Whole(e, p, Append(w, TargetMessage(type, t0)), xd, g)
<1> DEFINE q == Head(r.requests)
           m == TargetMessage(type, t0)
           v == Append(w, m)
<1>1. /\ Quiet(r, w, wd) /\ Counted(r, w, g) /\ Fated(r, w, wd) /\ Aimed(r, w, wd)
      /\ Tagged(e, r, g) /\ Clocks(r)
    BY DEF Whole
<1>2. r.requests \in Seq(Requests) /\ Tail(r.requests) \in Seq(Requests)
    BY DEF Remote
<1>3. /\ p \in Remote /\ p.listens = r.listens /\ p.stream = r.stream /\ p.online = r.online
      /\ p.states = r.states /\ p.idle = r.idle /\ p.requests = Tail(r.requests)
    BY <1>2 DEF Remote
<1>4. q \in Requests /\ q = r.requests[1] /\ 1 \in DOMAIN r.requests /\ q.target = t0 /\ t0 \in Target
    <2>1. q \in Requests /\ q = r.requests[1] /\ 1 \in DOMAIN r.requests
        BY <1>2
    <2>2. q.target \in Target
        BY <2>1 DEF Requests
    <2>3. QED
        BY <2>1, <2>2
<1>5. \A i \in DOMAIN p.requests : i + 1 \in DOMAIN r.requests /\ p.requests[i] = r.requests[i + 1]
                                   /\ i \in Nat \ {0}
    BY <1>2, <1>3
<1>6. m \in Message /\ m.type = type /\ m.target = t0
    BY <1>4, TargetMessageIs
<1> HIDE DEF m, q
<1>7. /\ v \in Seq(Message) /\ DOMAIN v = 1..(Len(w) + 1) /\ Len(w) \in Nat /\ DOMAIN w = 1..Len(w)
      /\ v[Len(w) + 1] = m /\ \A i \in DOMAIN w : v[i] = w[i]
    BY <1>6
<1>8. \A t : StateOf(p, t) = StateOf(r, t) /\ Out(p, t) = Out(r, t)
    BY <1>3 DEF StateOf, Out
<1>9. Quiet(p, v, xd)
    BY <1>3 DEF Quiet
<1>10. Counted(p, v, g)
    <2>1. ASSUME NEW t \in Target PROVE CountedAt(p, v, t, g)
        <3>1. CountOf(v, Acks(t)) = IF m \in Acks(t) THEN CountOf(w, Acks(t)) + 1 ELSE CountOf(w, Acks(t))
            BY <1>6, CountAppend
        <3>2. CountOf(p.requests, Asks(t)) =
                 IF q \in Asks(t) THEN CountOf(r.requests, Asks(t)) - 1 ELSE CountOf(r.requests, Asks(t))
            BY <1>2, <1>3, CountTail DEF q
        <3>3. (m \in Acks(t) <=> t = t0) /\ (q \in Asks(t) <=> t = t0)
            BY <1>4, <1>6 DEF Acks, Asks
        <3>4. CountOf(r.requests, Asks(t)) \in Nat /\ CountOf(w, Acks(t)) \in Nat
            BY OutIs
        <3>5. Coming(p, v, t) = Coming(r, w, t)
            BY <3>1, <3>2, <3>3, <3>4 DEF Coming
        <3>6. CountedAt(r, w, t, g) /\ Out(p, t) = Out(r, t)
            BY <1>1, <1>8 DEF Counted
        <3>7. QED
            BY <1>3, <3>5, <3>6 DEF CountedAt
    <2>2. QED
        BY <2>1 DEF Counted
<1>11. \A t : Ended(v, t) => Ended(w, t) \/ (t = t0 /\ type # "added")
    <2>1. \A i \in DOMAIN v : i \in DOMAIN w \/ v[i] = m
        BY <1>7
    <2>2. QED
        BY <1>6, <1>7, <2>1 DEF Ended
<1>12. Fated(p, v, xd)
    <2>1. ASSUME NEW t \in LimboTarget PROVE FatedAt(p, v, xd, t)
        <3>1. FatedAt(r, w, wd, t)
            BY <1>1 DEF Fated
        <3>2. CASE t # t0
            <4>1. (t \in DOMAIN xd => t \in DOMAIN wd) /\ (Ended(v, t) => Ended(w, t))
                BY <1>11, <3>2
            <4>2. ASSUME NEW i \in DOMAIN p.requests, p.requests[i].target = t,
                         p.requests[i].type = "watch"
                  PROVE  /\ t \notin DOMAIN wd /\ ~Ended(w, t)
                         /\ \A j \in 1..(i - 1) : p.requests[j].target # t
                <5>1. i + 1 \in DOMAIN r.requests /\ r.requests[i + 1] = p.requests[i]
                    BY <1>5
                <5>2. /\ t \notin DOMAIN wd /\ ~Ended(w, t)
                      /\ \A j \in 1..((i + 1) - 1) : r.requests[j].target # t
                    BY <3>1, <4>2, <5>1 DEF FatedAt
                <5>3. \A j \in 1..(i - 1) : j \in DOMAIN p.requests /\ j + 1 \in 1..((i + 1) - 1)
                    <6>1. DOMAIN p.requests = 1..Len(p.requests) /\ Len(p.requests) \in Nat
                        BY <1>2, <1>3
                    <6>2. QED
                        BY <6>1
                <5>4. QED
                    BY <1>5, <5>2, <5>3
            <4>3. QED
                BY <1>3, <3>1, <4>1, <4>2 DEF FatedAt
        <3>3. CASE t = t0
            <4>1. ASSUME NEW i \in DOMAIN p.requests, p.requests[i].target = t,
                         p.requests[i].type = "watch"
                  PROVE  FALSE
                <5>1. i + 1 \in DOMAIN r.requests /\ r.requests[i + 1] = p.requests[i]
                      /\ i \in Nat \ {0}
                    BY <1>5
                <5>2. 1 \in 1..((i + 1) - 1) /\ r.requests[1].target = t
                    BY <1>4, <3>3, <5>1
                <5>3. QED
                    BY <3>1, <4>1, <5>1, <5>2 DEF FatedAt
            <4>2. Ended(v, t) => t \notin DOMAIN xd
                BY <1>11, <2>1, <3>3
            <4>3. t \in DOMAIN xd => t \in DOMAIN p.states
                <5>1. CountOf(r.requests, Asks(t)) # 0
                    <6>1. r.requests[1] \in Asks(t)
                        BY <1>4, <3>3 DEF Asks
                    <6>2. QED
                        BY <1>2, <1>4, <6>1, CountIs
                <5>2. /\ CountOf(r.requests, Asks(t)) \in Nat /\ CountOf(w, Acks(t)) \in Nat
                      /\ t \notin DOMAIN r.states => Out(r, t) = 0
                    BY OutIs
                <5>3. Coming(r, w, t) <= Out(r, t)
                    BY <1>1, <1>4, <2>1, <3>3, Targets DEF Counted, CountedAt
                <5>4. t \in DOMAIN r.states
                    BY <5>1, <5>2, <5>3 DEF Coming
                <5>5. QED
                    BY <1>3, <5>4
            <4>4. QED
                BY <4>1, <4>2, <4>3 DEF FatedAt
        <3>4. QED
            BY <3>2, <3>3
    <2>2. QED
        BY <2>1 DEF Fated
<1>13. Aimed(p, v, xd)
    <2>1. ASSUME NEW t \in LimboTarget, t \in DOMAIN p.listens PROVE AimedAt(p, v, xd, t)
        <3>1. AimedAt(r, w, wd, t)
            BY <1>1, <1>3, <2>1 DEF Aimed
        <3>2. t \in DOMAIN xd => xd[t] = r.listens[t].docs
            <4>1. CASE t = t0
                BY <1>3, <2>1, <4>1
            <4>2. CASE t # t0
                BY <3>1, <4>2 DEF AimedAt
            <4>3. QED
                BY <4>1, <4>2
        <3>3. \A i \in DOMAIN v : v[i].type = "document" => i \in DOMAIN w /\ v[i] = w[i]
            <4>1. m.type # "document"
                BY <1>6
            <4>2. QED
                BY <1>7, <4>1
        <3>4. \A i \in DOMAIN p.requests : p.requests[i].target = t => p.requests[i].docs = r.listens[t].docs
            BY <1>5, <3>1 DEF AimedAt
        <3>5. \A i \in DOMAIN v : v[i].target = t /\ v[i].type = "document" =>
                 v[i].doc \in r.listens[t].docs
            BY <3>1, <3>3 DEF AimedAt
        <3>6. DOMAIN StateOf(p, t).changes \subseteq r.listens[t].docs
            BY <1>8, <3>1 DEF AimedAt
        <3>7. p.listens[t] = r.listens[t]
            BY <1>3
        <3>8. QED
            BY <3>2, <3>4, <3>5, <3>6, <3>7 DEF AimedAt
    <2>2. QED
        BY <2>1 DEF Aimed
<1>14. Tagged(e, p, g)
    <2>1. \A t : IsActive(p, t) <=> IsActive(r, t)
        BY <1>3, <1>8 DEF IsActive
    <2>2. p.states = r.states
        BY <1>3
    <2>3. \A t : TaggedAt(Known(e, t, g), p, t) <=> TaggedAt(Known(e, t, g), r, t)
        BY <2>2 DEF TaggedAt
    <2>4. QED
        BY <1>1, <2>1, <2>2, <2>3 DEF Tagged
<1>15. Clocks(p)
    BY <1>1, <1>3 DEF Clocks
<1>16. QED
    BY <1>9, <1>10, <1>12, <1>13, <1>14, <1>15 DEF Whole, m

\* What the first request says of its limbo target.
LEMMA FirstRequest ==
    ASSUME NEW g \in Ghost,
           NEW e, NEW r \in Remote, NEW w, NEW wd, Whole(e, r, w, wd, g), r.requests # <<>>,
           NEW q, q = Head(r.requests), q.target \in LimboTarget
    PROVE  /\ q.type = "watch" => q.target \notin DOMAIN wd /\ ~Ended(w, q.target)
           /\ q.target \in DOMAIN r.listens => q.docs = r.listens[q.target].docs
<1>1. r.requests \in Seq(Requests)
    BY DEF Remote
<1>2. 1 \in DOMAIN r.requests /\ r.requests[1] = q
    BY <1>1
<1>3. FatedAt(r, w, wd, q.target)
    BY DEF Whole, Fated
<1>4. q.target \in DOMAIN r.listens => AimedAt(r, w, wd, q.target)
    BY DEF Whole, Aimed
<1>5. QED
    BY <1>2, <1>3, <1>4 DEF FatedAt, AimedAt

LEMMA ServeWatchWhole ==
    ASSUME NEW g \in Ghost, TypeInv, WholeFor(g), ServeWatch
    PROVE  WholeFor(g)'
<1> DEFINE request == Head(remote.requests)
           t0 == request.target
           p == [remote EXCEPT !.requests = Tail(@)]
           B == Telling(t0, request.docs)
           w == Append(wire, TargetMessage("added", t0))
           xd == With(watched, t0, request.docs)
<1>1. /\ remote \in Remote /\ wire \in Seq(Message) /\ Whole(engine, remote, wire, watched, g)
      /\ history \in Seq([Doc -> Level]) /\ served \in 1..Len(history)
    BY DEF TypeInv, WholeFor, ServeWatch
<1>2. remote.requests # <<>> /\ remote' = p /\ remote.stream = "open" /\ request.type = "watch"
    BY DEF ServeWatch
<1>3. request \in Requests /\ p.listens = remote.listens /\ p.stream = "open"
    BY <1>1, <1>2, RequestRead
<1>4. /\ t0 \in Target /\ request.token \in 0..served /\ request.docs \in SUBSET Doc
    BY <1>1, <1>3 DEF Requests, ServeWatch
<1>5. PICK answer \in Answers(t0, request.token, request.docs) : wire' = wire \o answer
    BY DEF ServeWatch
<1>6. watched' = xd /\ engine' = engine /\ disk' = disk
    BY DEF ServeWatch
<1> HIDE DEF request, p, B, w, xd
<1>7. PICK rest \in Seq(B) : answer = <<TargetMessage("added", t0)>> \o rest
    BY <1>1, <1>4, AnswersIs DEF B
<1>8. \A t \in DOMAIN xd : t # t0 => t \in DOMAIN watched /\ xd[t] = watched[t]
    BY DEF xd, With
<1>9. xd[t0] = request.docs
    BY DEF xd, With
<1>10. t0 \in LimboTarget => /\ ~Ended(wire, t0)
                             /\ t0 \in DOMAIN remote.listens => xd[t0] = remote.listens[t0].docs
    BY <1>1, <1>2, <1>9, FirstRequest DEF request
<1>11. Whole(engine, p, w, xd, g)
    BY <1>1, <1>2, <1>8, <1>10, AnsweredWhole DEF request, p, w
<1>12. TargetMessage("added", t0) \in Message
    BY <1>4, TargetMessageIs
<1>13. w \in Seq(Message) /\ wire' = w \o rest
    <2>1. rest \in Seq(Message)
        BY <1>7 DEF B, Telling
    <2>2. QED
        BY <1>1, <1>5, <1>7, <1>12, <2>1 DEF w
<1>14. Mute(B) /\ rest \in Seq(Message) /\ \A i \in DOMAIN rest : rest[i] \in B
    BY <1>7 DEF B, Telling, Mute
<1>15. Continues(wire', w, B)
    BY <1>13, <1>14, ContinuesSame, ContinuesMore
<1>16. \A m \in B : m.type = "document" /\ m.target \in LimboTarget /\ m.target \in DOMAIN p.listens =>
          m.doc \in p.listens[m.target].docs
    <2>1. \A m \in B : m.type = "document" => m.target = t0 /\ m.doc \in request.docs
        BY DEF B, Telling
    <2>2. QED
        BY <1>3, <1>9, <1>10, <2>1
<1>17. Whole(engine, p, wire', xd, g)
    BY <1>3, <1>11, <1>13, <1>14, <1>15, <1>16, WireGrows
<1>18. QED
    BY <1>2, <1>6, <1>17 DEF WholeFor

LEMMA RefuseWhole ==
    ASSUME NEW g \in Ghost, TypeInv, WholeFor(g), Refuse
    PROVE  WholeFor(g)'
<1> DEFINE request == Head(remote.requests)
           t0 == request.target
           p == [remote EXCEPT !.requests = Tail(@)]
<1>1. /\ remote \in Remote /\ wire \in Seq(Message) /\ Whole(engine, remote, wire, watched, g)
    BY DEF TypeInv, WholeFor
<1>2. /\ remote.requests # <<>> /\ remote' = p /\ remote.stream = "open" /\ request.type = "watch"
      /\ wire' = Append(wire, TargetMessage("error", t0)) /\ watched' = watched /\ engine' = engine
      /\ disk' = disk
    BY DEF Refuse
<1>3. t0 \in LimboTarget => t0 \notin DOMAIN watched
    BY <1>1, <1>2, FirstRequest
<1> HIDE DEF request, p
<1>4. Whole(engine, p, Append(wire, TargetMessage("error", t0)), watched, g)
    BY <1>1, <1>2, <1>3, AnsweredWhole DEF request, p
<1>5. QED
    BY <1>2, <1>4 DEF WholeFor

LEMMA ServeUnwatchWhole ==
    ASSUME NEW g \in Ghost, TypeInv, WholeFor(g), ServeUnwatch
    PROVE  WholeFor(g)'
<1> DEFINE request == Head(remote.requests)
           t0 == request.target
           p == [remote EXCEPT !.requests = Tail(@)]
           xd == Drop(watched, t0)
<1>1. /\ remote \in Remote /\ wire \in Seq(Message) /\ Whole(engine, remote, wire, watched, g)
    BY DEF TypeInv, WholeFor
<1>2. /\ remote.requests # <<>> /\ remote' = p /\ remote.stream = "open"
      /\ wire' = Append(wire, TargetMessage("removed", t0)) /\ watched' = xd /\ engine' = engine
      /\ disk' = disk
    BY DEF ServeUnwatch
<1> HIDE DEF request, p, xd
<1>3. /\ t0 \notin DOMAIN xd
      /\ \A t \in DOMAIN xd : t # t0 => t \in DOMAIN watched /\ xd[t] = watched[t]
    BY DEF xd, Drop
<1>4. Whole(engine, p, Append(wire, TargetMessage("removed", t0)), xd, g)
    BY <1>1, <1>2, <1>3, AnsweredWhole DEF request, p
<1>5. QED
    BY <1>2, <1>4 DEF WholeFor

LEMMA AdvanceWhole ==
    ASSUME NEW g \in Ghost, TypeInv, WholeFor(g), Advance
    PROVE  WholeFor(g)'
<1> DEFINE N == {m \in Message : /\ m.type = "document" /\ m.target \in DOMAIN watched
                                 /\ m.doc \in watched[m.target]}
           B == N \cup {SnapshotMessage(served + 1)}
           R == {u \in Seq(Message) : Continues(u, wire, B)}
<1>1. /\ remote \in Remote /\ wire \in Seq(Message) /\ Whole(engine, remote, wire, watched, g)
      /\ history \in Seq([Doc -> Level]) /\ served \in 1..Len(history)
      /\ served + 1 \in 1..Len(history) /\ Len(history) \in Nat
      /\ watched \in PFun(Target, SUBSET Doc) /\ remote.stream = "open"
    BY DEF TypeInv, WholeFor, Advance
<1>2. PICK v \in BOOLEAN : wire' = NextNews(v) \o <<SnapshotMessage(served + 1)>>
    BY DEF Advance
<1>3. /\ Ascending(DOMAIN watched) \in Seq(DOMAIN watched)
      /\ \A t \in DOMAIN watched : t \in Target /\ watched[t] \in SUBSET Doc
    <2>1. /\ DOMAIN watched \in SUBSET Target /\ IsFiniteSet(DOMAIN watched)
          /\ \A t \in DOMAIN watched : watched[t] \in SUBSET Doc
        BY <1>1, PFunIs
    <2>2. DOMAIN watched \in SUBSET Nat
        BY <2>1, Targets
    <2>3. QED
        BY <2>1, <2>2, AscendingSorts
<1>4. /\ SnapshotMessage(served + 1) \in Message
      /\ SnapshotMessage(served + 1).type = "snapshot"
    BY <1>1 DEF SnapshotMessage, Message
<1>5. Mute(B)
    BY <1>4 DEF Mute
<1>6. ASSUME NEW w \in R, NEW t \in DOMAIN watched
      PROVE  w \o News(t, watched[t], history[served], history[served + 1], v) \in R
    <2> DEFINE news == News(t, watched[t], history[served], history[served + 1], v)
    <2>1. history[served] \in [Doc -> Level] /\ history[served + 1] \in [Doc -> Level]
        BY <1>1
    <2>2. news \in Seq(DocumentsOf(t, watched[t]))
        BY <1>3, <2>1, NewsIs
    <2> HIDE DEF news
    <2>3. \A i \in DOMAIN news : news[i] \in DocumentsOf(t, watched[t])
        BY <2>2
    <2>4. news \in Seq(Message) /\ \A i \in DOMAIN news : news[i] \in B
        BY <2>2, <2>3 DEF DocumentsOf
    <2> HIDE DEF B, N
    <2>5. Continues(w \o news, wire, B)
        BY <1>1, <1>5, <2>4, ContinuesMore
    <2>6. w \o news \in Seq(Message)
        BY <2>5 DEF Continues
    <2>7. QED
        BY <2>5, <2>6 DEF news
<1>7. wire \in R
    BY <1>1, ContinuesSame
<1>8. NextNews(v) \in R
    <2> HIDE DEF R
    <2>1. QED
        BY <1>3, <1>6, <1>7, AdvanceLoop
<1> HIDE DEF N
<1>9. Continues(wire', wire, B)
    <2>1. /\ <<SnapshotMessage(served + 1)>> \in Seq(Message)
          /\ \A i \in DOMAIN <<SnapshotMessage(served + 1)>> : <<SnapshotMessage(served + 1)>>[i] \in B
        BY <1>4
    <2>2. Continues(NextNews(v), wire, B)
        BY <1>8
    <2> HIDE DEF B
    <2>3. QED
        BY <1>1, <1>2, <1>5, <2>1, <2>2, ContinuesMore
<1>10. \A m \in B : m.type = "document" /\ m.target \in LimboTarget /\ m.target \in DOMAIN remote.listens =>
          m.doc \in remote.listens[m.target].docs
    <2>1. \A m \in B : m.type = "document" => m.target \in DOMAIN watched /\ m.doc \in watched[m.target]
        BY <1>4 DEF N
    <2>2. \A t \in LimboTarget : t \in DOMAIN remote.listens /\ t \in DOMAIN watched =>
             watched[t] = remote.listens[t].docs
        BY <1>1 DEF Whole, Aimed, AimedAt
    <2>3. QED
        BY <2>1, <2>2
<1> HIDE DEF B
<1>11. Whole(engine, remote, wire', watched, g)
    BY <1>1, <1>5, <1>9, <1>10, WireGrows
<1>12. UNCHANGED <<disk, engine, remote, watched>>
    BY DEF Advance
<1>13. QED
    BY <1>11, <1>12 DEF WholeFor

-----------------------------------------------------------------------------
(* What the aggregator gathers.                                            *)

\* What gathering leaves alone of what is counted, served and asked for.
Steady(p, r) ==
    /\ \A t : Out(p, t) = Out(r, t)
    /\ DOMAIN r.states \subseteq DOMAIN p.states
    /\ \A t \in LimboTarget : t \in DOMAIN r.listens =>
          DOMAIN StateOf(p, t).changes \subseteq r.listens[t].docs

\* The keys of a query that is listened to are those it is known to have.
Sees(r, g) == Query \in DOMAIN r.listens => RemoteKeys(engine, Query) = g.keys

Gain(r, g) ==
    {p \in Remote : Sees(r, g) /\ Kept(p, r) /\ Steady(p, r) /\ Tagged(engine, p, g)}

LEMMA GainIs ==
    ASSUME NEW g \in Ghost, NEW r, NEW p
    PROVE  p \in Gain(r, g) <=>
              p \in Remote /\ Sees(r, g) /\ Kept(p, r) /\ Steady(p, r) /\ Tagged(engine, p, g)
BY DEF Gain

LEMMA KnownIs ==
    ASSUME NEW g \in Ghost, NEW r, NEW p \in Gain(r, g), NEW t, IsActive(p, t)
    PROVE  Known(engine, t, g) = RemoteKeys(engine, t)
<1>1. Sees(r, g) /\ p.listens = r.listens
    BY GainIs DEF Kept
<1>2. QED
    BY <1>1 DEF Known, Sees, IsActive

LEMMA GainStarts ==
    ASSUME NEW g \in Ghost, NEW r \in Remote, NEW w, NEW wd, Whole(engine, r, w, wd, g),
           Sees(r, g)
    PROVE  r \in Gain(r, g)
<1>1. Kept(r, r) /\ Tagged(engine, r, g)
    BY DEF Kept, Whole
<1>2. Steady(r, r)
    BY DEF Steady, Whole, Aimed, AimedAt
<1>3. QED
    BY <1>1, <1>2, GainIs

LEMMA GainWhole ==
    ASSUME NEW g \in Ghost,
           NEW r \in Remote, NEW w, NEW wd, Whole(engine, r, w, wd, g), r.stream = "open",
           NEW p \in Gain(r, g)
    PROVE  Whole(engine, p, w, wd, g)
<1>1. p \in Remote /\ Kept(p, r) /\ Steady(p, r) /\ Tagged(engine, p, g)
    BY GainIs
<1>2. /\ p.listens = r.listens /\ p.online = r.online /\ p.stream = r.stream
      /\ p.idle = r.idle /\ p.requests = r.requests
    BY <1>1 DEF Kept
<1>3. Quiet(p, w, wd)
    BY <1>2 DEF Quiet
<1>4. Counted(p, w, g)
    <2>1. \A t : Out(p, t) = Out(r, t)
        BY <1>1 DEF Steady
    <2>2. \A t : Coming(p, w, t) = Coming(r, w, t)
        BY <1>2 DEF Coming
    <2>3. \A t \in Target : CountedAt(r, w, t, g)
        BY DEF Whole, Counted
    <2>4. QED
        BY <1>2, <2>1, <2>2, <2>3 DEF Counted, CountedAt
<1>5. Fated(p, w, wd)
    <2>1. DOMAIN r.states \subseteq DOMAIN p.states
        BY <1>1 DEF Steady
    <2>2. \A t \in LimboTarget : FatedAt(r, w, wd, t)
        BY DEF Whole, Fated
    <2>3. QED
        BY <1>2, <2>1, <2>2 DEF Fated, FatedAt
<1>6. Aimed(p, w, wd)
    <2>1. ASSUME NEW t \in LimboTarget, t \in DOMAIN r.listens PROVE AimedAt(p, w, wd, t)
        <3>1. AimedAt(r, w, wd, t)
            BY <2>1 DEF Whole, Aimed
        <3>2. DOMAIN StateOf(p, t).changes \subseteq r.listens[t].docs
            BY <1>1, <2>1 DEF Steady
        <3>3. QED
            BY <1>2, <3>1, <3>2 DEF AimedAt
    <2>2. QED
        BY <1>2, <2>1 DEF Aimed
<1>7. Clocks(p)
    BY <1>2 DEF Whole, Clocks
<1>8. QED
    BY <1>1, <1>3, <1>4, <1>5, <1>6, <1>7 DEF Whole

LEMMA GainSame ==
    ASSUME NEW g \in Ghost,
           NEW r \in Remote, NEW p \in Gain(r, g), NEW q \in Remote, Kept(q, p), q.states = p.states
    PROVE  q \in Gain(r, g)
<1>1. p \in Remote /\ Sees(r, g) /\ Kept(p, r) /\ Steady(p, r) /\ Tagged(engine, p, g)
    BY GainIs
<1>2. Kept(q, r) /\ q.listens = p.listens
    BY <1>1 DEF Kept
<1>3. \A t : StateOf(q, t) = StateOf(p, t) /\ Out(q, t) = Out(p, t)
    BY DEF StateOf, Out
<1>4. Steady(q, r)
    BY <1>1, <1>3 DEF Steady
<1>5. Tagged(engine, q, g)
    BY <1>1, <1>2, <1>3 DEF Tagged, TaggedAt, IsActive
<1>6. QED
    BY <1>1, <1>2, <1>4, <1>5, GainIs

\* The changes of an active target are tagged, whether it has a state or not.
LEMMA ChangesTagged ==
    ASSUME NEW g \in Ghost, NEW r, NEW p \in Gain(r, g), NEW t, IsActive(p, t)
    PROVE  \A d \in DOMAIN StateOf(p, t).changes :
              StateOf(p, t).changes[d] = "added" <=> d \notin RemoteKeys(engine, t)
<1>1. Tagged(engine, p, g)
    BY GainIs
<1>2. CASE t \in DOMAIN p.states
    BY <1>1, <1>2, KnownIs DEF Tagged, TaggedAt, StateOf
<1>3. CASE t \notin DOMAIN p.states
    <2>1. DOMAIN StateOf(p, t).changes = {}
        BY <1>3, EmptyIs DEF StateOf, NewTargetState
    <2>2. QED
        BY <2>1
<1>4. QED
    BY <1>2, <1>3

\* An active target gets another state.
LEMMA GainTurn ==
    ASSUME NEW g \in Ghost,
           NEW r \in Remote, NEW p \in Gain(r, g), NEW t \in Target, IsActive(p, t),
           NEW x \in TargetState, x.outstanding = 0, x.pending \/ x.changes = Empty,
           \A d \in DOMAIN x.changes : x.changes[d] = "added" <=> d \notin RemoteKeys(engine, t),
           t \in LimboTarget => DOMAIN x.changes \subseteq r.listens[t].docs,
           NEW q \in Remote, Kept(q, p), q.states = With(p.states, t, x)
    PROVE  q \in Gain(r, g)
<1>1. p \in Remote /\ Sees(r, g) /\ Kept(p, r) /\ Steady(p, r) /\ Tagged(engine, p, g)
    BY GainIs
<1>2. Kept(q, r) /\ q.listens = p.listens
    BY <1>1 DEF Kept
<1>3. /\ DOMAIN q.states = DOMAIN p.states \cup {t} /\ q.states[t] = x
      /\ \A s \in DOMAIN p.states : s # t => q.states[s] = p.states[s]
    BY DEF With
<1>4. StateOf(q, t) = x /\ \A s : s # t => StateOf(q, s) = StateOf(p, s)
    BY <1>3 DEF StateOf
<1>5. \A s : Out(q, s) = Out(p, s)
    BY <1>4 DEF Out, IsActive
<1>6. Steady(q, r)
    <2>1. \A s : Out(q, s) = Out(r, s)
        BY <1>1, <1>5 DEF Steady
    <2>2. DOMAIN r.states \subseteq DOMAIN q.states
        BY <1>1, <1>3 DEF Steady
    <2>3. ASSUME NEW s \in LimboTarget, s \in DOMAIN r.listens
          PROVE  DOMAIN StateOf(q, s).changes \subseteq r.listens[s].docs
        <3>1. CASE s = t
            BY <1>4, <3>1
        <3>2. CASE s # t
            BY <1>1, <1>4, <2>3, <3>2 DEF Steady
        <3>3. QED
            BY <3>1, <3>2
    <2>4. QED
        BY <2>1, <2>2, <2>3 DEF Steady
<1>7. Tagged(engine, q, g)
    <2>1. ASSUME NEW s \in DOMAIN q.states, s = Query \/ IsActive(q, s)
          PROVE  TaggedAt(Known(engine, s, g), q, s)
        <3>1. CASE s = t
            BY <1>3, <3>1, KnownIs DEF TaggedAt
        <3>2. CASE s # t
            <4>1. s \in DOMAIN p.states /\ q.states[s] = p.states[s] /\ (s = Query \/ IsActive(p, s))
                BY <1>2, <1>3, <1>4, <2>1, <3>2 DEF IsActive
            <4>2. TaggedAt(Known(engine, s, g), p, s)
                BY <1>1, <4>1 DEF Tagged
            <4>3. QED
                BY <4>1, <4>2 DEF TaggedAt
        <3>3. QED
            BY <3>1, <3>2
    <2>2. QED
        BY <1>1, <2>1 DEF Tagged
<1>8. QED
    BY <1>1, <1>2, <1>6, <1>7, GainIs


\* What is known of an active target's state.
LEMMA ActiveState ==
    ASSUME NEW g \in Ghost, NEW r \in Remote, NEW p \in Gain(r, g), NEW t \in Target, IsActive(p, t)
    PROVE  /\ p \in Remote /\ t \in DOMAIN r.listens /\ StateOf(p, t) \in TargetState
           /\ StateOf(p, t).outstanding = 0
           /\ t \in LimboTarget => DOMAIN StateOf(p, t).changes \subseteq r.listens[t].docs
<1>1. p \in Remote /\ Kept(p, r) /\ Steady(p, r)
    BY GainIs
<1>2. t \in DOMAIN r.listens /\ StateOf(p, t).outstanding = 0
    BY <1>1 DEF Kept, IsActive
<1>3. QED
    BY <1>1, <1>2, StateOfIs DEF Steady

LEMMA AddDocumentGains ==
    ASSUME NEW g \in Ghost, NEW r \in Remote, NEW p \in Gain(r, g), NEW t \in Target, NEW d \in Doc,
           NEW level \in Level,
           t \in LimboTarget /\ t \in DOMAIN r.listens => d \in r.listens[t].docs
    PROVE  AddDocument(p, t, d, level) \in Gain(r, g)
<1> DEFINE type == IF d \in RemoteKeys(engine, t) THEN "modified" ELSE "added"
           s == StateOf(p, t)
           changes == With(s.changes, d, type)
           x == [s EXCEPT !.pending = TRUE, !.changes = changes]
           q == AddDocument(p, t, d, level)
<1>1. CASE ~IsActive(p, t)
    BY <1>1 DEF AddDocument
<1>2. CASE IsActive(p, t)
    <2>1. /\ p \in Remote /\ t \in DOMAIN r.listens /\ s \in TargetState /\ s.outstanding = 0
          /\ t \in LimboTarget => DOMAIN s.changes \subseteq r.listens[t].docs
        BY <1>2, ActiveState
    <2>2. \A y \in DOMAIN s.changes : s.changes[y] = "added" <=> y \notin RemoteKeys(engine, t)
        BY <1>2, ChangesTagged
    <2>3. q.states = With(p.states, t, x)
        BY <1>2, <2>1 DEF AddDocument, Remote
    <2>4. q \in Remote /\ Kept(q, p)
        BY <2>1, AddDocumentIs
    <2> HIDE DEF q
    <2>5. type \in ChangeType /\ (type = "added" <=> d \notin RemoteKeys(engine, t))
        BY DEF ChangeType
    <2> HIDE DEF type
    <2>6. changes \in PFun(Doc, ChangeType)
        BY <2>1, <2>5, ChangesIs, WithIs
    <2>7. /\ DOMAIN changes = DOMAIN s.changes \cup {d} /\ changes[d] = type
          /\ \A y \in DOMAIN s.changes : y # d => changes[y] = s.changes[y]
        BY DEF With
    <2> HIDE DEF changes, s
    <2>8. x \in TargetState /\ x.outstanding = 0 /\ x.pending /\ x.changes = changes
        BY <2>1, <2>6 DEF TargetState
    <2> HIDE DEF x
    <2>9. \A y \in DOMAIN x.changes : x.changes[y] = "added" <=> y \notin RemoteKeys(engine, t)
        BY <2>2, <2>5, <2>7, <2>8
    <2>10. t \in LimboTarget => DOMAIN x.changes \subseteq r.listens[t].docs
        BY <2>1, <2>7, <2>8
    <2>11. q \in Gain(r, g)
        BY <1>2, <2>3, <2>4, <2>8, <2>9, <2>10, GainTurn
    <2>12. QED
        BY <2>11 DEF q
<1>3. QED
    BY <1>1, <1>2

LEMMA RemoveDocumentGains ==
    ASSUME NEW g \in Ghost, NEW r \in Remote, NEW p \in Gain(r, g), NEW t \in Target, NEW d \in Doc,
           NEW values \in SUBSET Level,
           t \in LimboTarget /\ t \in DOMAIN r.listens => d \in r.listens[t].docs
    PROVE  RemoveDocument(p, t, d, values) \in Gain(r, g)
<1> DEFINE s == StateOf(p, t)
           changes == IF d \in RemoteKeys(engine, t) THEN With(s.changes, d, "removed")
                                                     ELSE Drop(s.changes, d)
           x == [s EXCEPT !.pending = TRUE, !.changes = changes]
           q == RemoveDocument(p, t, d, values)
<1>1. CASE ~IsActive(p, t)
    BY <1>1 DEF RemoveDocument
<1>2. CASE IsActive(p, t)
    <2>1. /\ p \in Remote /\ t \in DOMAIN r.listens /\ s \in TargetState /\ s.outstanding = 0
          /\ t \in LimboTarget => DOMAIN s.changes \subseteq r.listens[t].docs
        BY <1>2, ActiveState
    <2>2. \A y \in DOMAIN s.changes : s.changes[y] = "added" <=> y \notin RemoteKeys(engine, t)
        BY <1>2, ChangesTagged
    <2>3. q.states = With(p.states, t, x)
        BY <1>2, <2>1 DEF RemoveDocument, Remote
    <2>4. q \in Remote /\ Kept(q, p)
        BY <2>1, RemoveDocumentIs
    <2> HIDE DEF q
    <2>5. /\ changes \in PFun(Doc, ChangeType)
          /\ DOMAIN changes \subseteq DOMAIN s.changes \cup {d}
          /\ \A y \in DOMAIN changes : changes[y] = "added" <=> y \notin RemoteKeys(engine, t)
        <3>1. s.changes \in PFun(Doc, ChangeType) /\ "removed" \in ChangeType
            BY <2>1, ChangesIs DEF ChangeType
        <3>2. CASE d \in RemoteKeys(engine, t)
            <4>1. changes = With(s.changes, d, "removed")
                BY <3>2
            <4>2. changes \in PFun(Doc, ChangeType)
                BY <3>1, <4>1, WithIs
            <4> HIDE DEF changes
            <4>3. /\ DOMAIN changes = DOMAIN s.changes \cup {d} /\ changes[d] = "removed"
                  /\ \A y \in DOMAIN s.changes : y # d => changes[y] = s.changes[y]
                BY <4>1 DEF With
            <4>4. QED
                BY <2>2, <3>2, <4>2, <4>3
        <3>3. CASE d \notin RemoteKeys(engine, t)
            <4>1. changes = Drop(s.changes, d)
                BY <3>3
            <4>2. changes \in PFun(Doc, ChangeType)
                BY <3>1, <4>1, DropIs
            <4> HIDE DEF changes
            <4>3. /\ DOMAIN changes = DOMAIN s.changes \ {d}
                  /\ \A y \in DOMAIN s.changes : y # d => changes[y] = s.changes[y]
                BY <4>1 DEF Drop
            <4>4. QED
                BY <2>2, <3>3, <4>2, <4>3
        <3>4. QED
            BY <3>2, <3>3
    <2> HIDE DEF changes, s
    <2>6. x \in TargetState /\ x.outstanding = 0 /\ x.pending /\ x.changes = changes
        BY <2>1, <2>5 DEF TargetState
    <2> HIDE DEF x
    <2>7. t \in LimboTarget => DOMAIN x.changes \subseteq r.listens[t].docs
        BY <2>1, <2>5, <2>6
    <2>8. q \in Gain(r, g)
        BY <1>2, <2>3, <2>4, <2>5, <2>6, <2>7, GainTurn
    <2>9. QED
        BY <2>8 DEF q
<1>3. QED
    BY <1>1, <1>2

\* A limbo target is about one document, and has no other.
Aims(r) ==
    \A t \in DOMAIN r.listens : t # Query =>
        /\ KeyOf(r, t) \in Doc /\ r.listens[t].docs = {KeyOf(r, t)}
        /\ RemoteKeys(engine, t) \subseteq r.listens[t].docs

LEMMA LinkedAims ==
    ASSUME engine \in Engine, NEW r \in Remote, Linked([engine |-> engine, remote |-> r])
    PROVE  Aims(r) /\ Keyed(r)
<1> DEFINE c == [engine |-> engine, remote |-> r]
<1>1. c \in Client /\ c.engine = engine /\ c.remote = r
    BY DEF Client
<1>2. Linked(c)
    OBVIOUS
<1> HIDE DEF c
<1>3. /\ Keyed(r)
      /\ \A t \in DOMAIN r.listens : t # Query =>
            /\ t \in DOMAIN engine.resolutions
            /\ KeyOf(r, t) = engine.resolutions[t].key
            /\ r.listens[t].docs = {KeyOf(r, t)}
    BY <1>1, <1>2, LinkedIsKeyed
<1>4. \A t \in DOMAIN r.listens : t # Query => RemoteKeys(engine, t) \subseteq r.listens[t].docs
    BY <1>3 DEF RemoteKeys
<1>5. QED
    BY <1>3, <1>4 DEF Aims, Keyed

LEMMA ResetTargetGains ==
    ASSUME NEW g \in Ghost,
           engine \in Engine, NEW r \in Remote, Aims(r), NEW p \in Gain(r, g), NEW t \in Target,
           IsActive(p, t)
    PROVE  ResetTarget(p, t) \in Gain(r, g)
<1> DEFINE b == [p EXCEPT !.states = With(@, t, NewTargetState)]
           K == RemoteKeys(engine, t)
<1>1. p \in Remote /\ t \in DOMAIN r.listens
    BY ActiveState
<1>2. /\ NewTargetState \in TargetState /\ NewTargetState.outstanding = 0
      /\ NewTargetState.changes = Empty /\ DOMAIN NewTargetState.changes = {}
    <2>1. Empty \in PFun(Doc, ChangeType) /\ DOMAIN Empty = {}
        BY EmptyPFun
    <2>2. QED
        BY <2>1 DEF NewTargetState, TargetState
<1>3. b \in Remote /\ Kept(b, p) /\ b.states = With(p.states, t, NewTargetState)
    BY <1>1, <1>2, StateChanged, StatesKept
<1>4. b \in Gain(r, g)
    <2> HIDE DEF b
    <2>1. QED
        BY <1>2, <1>3, GainTurn
<1>5. K \in SUBSET Doc /\ (t \in LimboTarget => K \subseteq r.listens[t].docs)
    BY <1>1, RemoteKeysIs, Targets DEF Aims
<1>6. Ascending(K) \in Seq(K)
    <2>1. K \in SUBSET Nat /\ IsFiniteSet(K)
        BY <1>5, FirestoreWatchAssumption, FS_Subset
    <2>2. QED
        BY <2>1, AscendingSorts
<1>7. \A c \in Gain(r, g), d \in K : RemoveDocument(c, t, d, {}) \in Gain(r, g)
    BY <1>5, RemoveDocumentGains
<1> HIDE DEF b, K
<1>8. QED
    BY <1>4, <1>6, <1>7, ResetLoop DEF b, K

\* The states stay alike: no change is new, and what is not pending has none.
LEMMA GainLike ==
    ASSUME NEW g \in Ghost, NEW r \in Remote, NEW p \in Gain(r, g), NEW q \in Remote, Kept(q, p),
           DOMAIN q.states = DOMAIN p.states,
           \A t \in DOMAIN p.states :
              /\ q.states[t].outstanding = p.states[t].outstanding
              /\ \/ q.states[t].changes = Empty
                 \/ /\ q.states[t].changes = p.states[t].changes
                    /\ q.states[t].pending \/ q.states[t].pending = p.states[t].pending
    PROVE  q \in Gain(r, g)
<1>1. p \in Remote /\ Sees(r, g) /\ Kept(p, r) /\ Steady(p, r) /\ Tagged(engine, p, g)
    BY GainIs
<1>2. Kept(q, r) /\ q.listens = p.listens
    BY <1>1 DEF Kept
<1>3. \A t : Out(q, t) = Out(p, t)
    BY DEF Out, StateOf
<1>4. DOMAIN Empty = {}
    BY EmptyIs
<1>5. Steady(q, r)
    <2>1. \A t : DOMAIN StateOf(q, t).changes \subseteq DOMAIN StateOf(p, t).changes
        BY <1>4 DEF StateOf
    <2>2. QED
        BY <1>1, <1>3, <2>1 DEF Steady
<1>6. Tagged(engine, q, g)
    <2>1. ASSUME NEW t \in DOMAIN q.states, t = Query \/ IsActive(q, t)
          PROVE  TaggedAt(Known(engine, t, g), q, t)
        <3>1. t = Query \/ IsActive(p, t)
            BY <1>2, <1>3, <2>1 DEF IsActive, Out
        <3>2. TaggedAt(Known(engine, t, g), p, t)
            BY <1>1, <2>1, <3>1 DEF Tagged
        <3>3. CASE q.states[t].changes = Empty
            BY <1>4, <3>3 DEF TaggedAt
        <3>4. CASE q.states[t].changes = p.states[t].changes
                   /\ (q.states[t].pending \/ q.states[t].pending = p.states[t].pending)
            BY <3>2, <3>4 DEF TaggedAt
        <3>5. QED
            BY <2>1, <3>3, <3>4
    <2>2. QED
        BY <1>1, <2>1 DEF Tagged
<1>7. QED
    BY <1>1, <1>2, <1>5, <1>6, GainIs

LEMMA UpdateKeeps ==
    ASSUME NEW x \in TargetState, NEW token \in Nat
    PROVE  LET y == UpdateResumeToken(x, token)
           IN  /\ y \in TargetState /\ y.outstanding = x.outstanding /\ y.changes = x.changes
               /\ y.pending \/ y.pending = x.pending
BY DEF UpdateResumeToken, TargetState

LEMMA HandleTargetCurrentGains ==
    ASSUME NEW g \in Ghost,
           NEW r \in Remote, NEW p \in Gain(r, g), NEW t \in Target, NEW token \in Nat
    PROVE  HandleTargetCurrent(p, t, token) \in Gain(r, g)
<1> DEFINE s == StateOf(p, t)
           x == [s EXCEPT !.current = TRUE, !.pending = TRUE]
           y == UpdateResumeToken(x, token)
           q == HandleTargetCurrent(p, t, token)
<1>1. CASE ~IsActive(p, t)
    BY <1>1 DEF HandleTargetCurrent
<1>2. CASE IsActive(p, t)
    <2>1. /\ p \in Remote /\ t \in DOMAIN r.listens /\ s \in TargetState /\ s.outstanding = 0
          /\ t \in LimboTarget => DOMAIN s.changes \subseteq r.listens[t].docs
        BY <1>2, ActiveState
    <2>2. \A d \in DOMAIN s.changes : s.changes[d] = "added" <=> d \notin RemoteKeys(engine, t)
        BY <1>2, ChangesTagged
    <2>3. q.states = With(p.states, t, y)
        BY <1>2, <2>1 DEF HandleTargetCurrent, Remote
    <2>4. q \in Remote /\ Kept(q, p)
        BY <2>1, HandleTargetCurrentIs
    <2> HIDE DEF q, s
    <2>5. x \in TargetState /\ x.outstanding = 0 /\ x.pending /\ x.changes = s.changes
        BY <2>1 DEF TargetState
    <2> HIDE DEF x
    <2>6. y \in TargetState /\ y.outstanding = 0 /\ y.pending /\ y.changes = s.changes
        BY <2>5, UpdateKeeps
    <2> HIDE DEF y
    <2>7. q \in Gain(r, g)
        BY <1>2, <2>1, <2>2, <2>3, <2>4, <2>6, GainTurn
    <2>8. QED
        BY <2>7 DEF q
<1>3. QED
    BY <1>1, <1>2

LEMMA HandleSnapshotGains ==
    ASSUME NEW g \in Ghost, NEW r \in Remote, NEW p \in Gain(r, g), NEW token \in Nat
    PROVE  HandleSnapshot(p, token) \in Gain(r, g)
<1> DEFINE q == HandleSnapshot(p, token)
           U(t) == UpdateResumeToken(p.states[t], token)
<1>1. p \in Remote
    BY GainIs
<1>2. q \in Remote /\ Kept(q, p)
    BY <1>1, HandleSnapshotIs
<1>3. /\ DOMAIN q.states = DOMAIN p.states
      /\ \A t \in DOMAIN p.states : q.states[t] = IF IsActive(p, t) THEN U(t) ELSE p.states[t]
    BY <1>1 DEF HandleSnapshot, Remote
<1>4. \A t \in DOMAIN p.states : p.states[t] \in TargetState
    BY <1>1, StatesIs
<1>5. \A t \in DOMAIN p.states : /\ U(t).outstanding = p.states[t].outstanding
                                 /\ U(t).changes = p.states[t].changes
                                 /\ U(t).pending \/ U(t).pending = p.states[t].pending
    BY <1>4, UpdateKeeps
<1> HIDE DEF q, U
<1>6. q \in Gain(r, g)
    BY <1>2, <1>3, <1>5, GainLike
<1>7. QED
    BY <1>6 DEF q

LEMMA HandleDocumentChangeGains ==
    ASSUME NEW g \in Ghost,
           NEW r \in Remote, NEW p \in Gain(r, g), NEW m, m.target \in Target, m.doc \in Doc,
           m.level \in Level, m.values \in SUBSET Level,
           m.target \in LimboTarget /\ m.target \in DOMAIN r.listens
              => m.doc \in r.listens[m.target].docs
    PROVE  HandleDocumentChange(p, m) \in Gain(r, g)
<1>1. /\ AddDocument(p, m.target, m.doc, m.level) \in Gain(r, g)
      /\ RemoveDocument(p, m.target, m.doc, m.values) \in Gain(r, g)
    BY AddDocumentGains, RemoveDocumentGains
<1>2. QED
    BY <1>1 DEF HandleDocumentChange

\* The key of a limbo target that is listened to.
LEMMA AimIs ==
    ASSUME NEW g \in Ghost,
           NEW r \in Remote, Aims(r), NEW p \in Gain(r, g), NEW t, IsActive(p, t), t # Query
    PROVE  KeyOf(p, t) \in Doc /\ KeyOf(p, t) \in r.listens[t].docs
<1>1. p.listens = r.listens
    BY GainIs DEF Kept
<1>2. QED
    BY <1>1 DEF Aims, IsActive, KeyOf

LEMMA HandleExistenceFilterGains ==
    ASSUME NEW g \in Ghost,
           engine \in Engine, NEW r \in Remote, Aims(r), NEW p \in Gain(r, g), NEW t \in Target,
           NEW count
    PROVE  HandleExistenceFilter(p, t, count) \in Gain(r, g)
<1> DEFINE q == HandleExistenceFilter(p, t, count)
<1>1. CASE q = p
    BY <1>1
<1>2. CASE IsActive(p, t) /\ t # Query /\ q = RemoveDocument(p, t, KeyOf(p, t), {Absent})
    <2>1. KeyOf(p, t) \in Doc /\ KeyOf(p, t) \in r.listens[t].docs /\ {Absent} \in SUBSET Level
        BY <1>2, AimIs, Levels
    <2>2. RemoveDocument(p, t, KeyOf(p, t), {Absent}) \in Gain(r, g)
        BY <2>1, RemoveDocumentGains
    <2>3. QED
        BY <1>2, <2>2
<1>3. CASE IsActive(p, t) /\ q = [ResetTarget(p, t) EXCEPT !.resets = TRUE]
    <2>1. ResetTarget(p, t) \in Gain(r, g)
        BY <1>3, ResetTargetGains
    <2>2. ResetTarget(p, t) \in Remote
        BY <2>1, GainIs
    <2>3. /\ [ResetTarget(p, t) EXCEPT !.resets = TRUE] \in Remote
          /\ Kept([ResetTarget(p, t) EXCEPT !.resets = TRUE], ResetTarget(p, t))
          /\ [ResetTarget(p, t) EXCEPT !.resets = TRUE].states = ResetTarget(p, t).states
        BY <2>2 DEF Remote, Kept
    <2>4. [ResetTarget(p, t) EXCEPT !.resets = TRUE] \in Gain(r, g)
        BY <2>1, <2>3, GainSame
    <2>5. QED
        BY <1>3, <2>4
<1>4. \/ q = p
      \/ IsActive(p, t) /\ t # Query /\ q = RemoveDocument(p, t, KeyOf(p, t), {Absent})
      \/ IsActive(p, t) /\ q = [ResetTarget(p, t) EXCEPT !.resets = TRUE]
    BY DEF HandleExistenceFilter
<1>5. QED
    BY <1>1, <1>2, <1>3, <1>4

LEMMA SynthesizeDeleteGains ==
    ASSUME NEW g \in Ghost, NEW r \in Remote, Aims(r), NEW p \in Gain(r, g), NEW t \in Target
    PROVE  SynthesizeDelete(p, t) \in Gain(r, g)
<1> DEFINE q == SynthesizeDelete(p, t)
<1>1. CASE q = p
    BY <1>1
<1>2. CASE IsActive(p, t) /\ t # Query /\ q = RemoveDocument(p, t, KeyOf(p, t), {Deleted})
    <2>1. KeyOf(p, t) \in Doc /\ KeyOf(p, t) \in r.listens[t].docs /\ {Deleted} \in SUBSET Level
        BY <1>2, AimIs, Levels
    <2>2. RemoveDocument(p, t, KeyOf(p, t), {Deleted}) \in Gain(r, g)
        BY <2>1, RemoveDocumentGains
    <2>3. QED
        BY <1>2, <2>2
<1>3. QED
    BY <1>1, <1>2 DEF SynthesizeDelete

LEMMA SynthesizedGains ==
    ASSUME NEW g \in Ghost, NEW r \in Remote, Aims(r), NEW p \in Gain(r, g)
    PROVE  FoldLeft(SynthesizeDelete, p, Ascending(DOMAIN p.states)) \in Gain(r, g)
<1>1. Ascending(DOMAIN p.states) \in Seq(Target)
    BY GainIs, StatesIs
<1>2. \A c \in Gain(r, g), t \in Target : SynthesizeDelete(c, t) \in Gain(r, g)
    BY SynthesizeDeleteGains
<1>3. QED
    BY <1>1, <1>2, SynthesizeLoop

-----------------------------------------------------------------------------
(* What the stream brings.                                                 *)

\* The head of the wire is read.
LEMMA TailWhole ==
    ASSUME NEW g \in Ghost,
           NEW e, NEW r, NEW w \in Seq(Message), w # <<>>, NEW wd, Whole(e, r, w, wd, g)
    PROVE  /\ r.stream = "open" /\ Tail(w) \in Seq(Message)
           /\ \A t : Ended(Tail(w), t) => Ended(w, t)
           /\ Fated(r, Tail(w), wd) /\ Aimed(r, Tail(w), wd)
<1>1. /\ Tail(w) \in Seq(Message)
      /\ \A i \in DOMAIN Tail(w) : i + 1 \in DOMAIN w /\ Tail(w)[i] = w[i + 1]
    OBVIOUS
<1>2. \A i \in DOMAIN Tail(w) : \E j \in DOMAIN w : Tail(w)[i] = w[j]
    BY <1>1
<1>3. \A t : Ended(Tail(w), t) => Ended(w, t)
    BY <1>2 DEF Ended
<1>4. Fated(r, Tail(w), wd)
    BY <1>3 DEF Whole, Fated, FatedAt
<1>5. Aimed(r, Tail(w), wd)
    BY <1>2 DEF Whole, Aimed, AimedAt
<1>6. r.stream = "open"
    BY DEF Whole, Quiet
<1>7. QED
    BY <1>1, <1>3, <1>4, <1>5, <1>6

\* A message that answers no request.
LEMMA MuteRead ==
    ASSUME NEW g \in Ghost,
           NEW e, NEW r, NEW w \in Seq(Message), w # <<>>, NEW wd, Whole(e, r, w, wd, g),
           Head(w).type \notin {"added", "removed", "error"}
    PROVE  Whole(e, r, Tail(w), wd, g)
<1>1. \A t : Head(w) \notin Acks(t)
    BY DEF Acks
<1>2. \A t : CountOf(Tail(w), Acks(t)) = CountOf(w, Acks(t))
    BY <1>1, CountTail
<1>3. Counted(r, Tail(w), g)
    BY <1>2 DEF Whole, Counted, CountedAt, Coming
<1>4. r.stream = "open" /\ Fated(r, Tail(w), wd) /\ Aimed(r, Tail(w), wd)
    BY TailWhole
<1>5. QED
    BY <1>3, <1>4 DEF Whole, Quiet

\* An answer is read, and a request less is waited for.
LEMMA AckWhole ==
    ASSUME NEW g \in Ghost, NEW e, NEW r \in Remote, NEW w \in Seq(Message), w # <<>>, NEW wd,
           Whole(e, r, w, wd, g),
           NEW t, t = Head(w).target, Head(w).type \in {"added", "removed", "error"},
           NEW p \in Remote, Kept(p, r), Out(p, t) = Out(r, t) - 1,
           \A s : s # t => StateOf(p, s) = StateOf(r, s),
           DOMAIN p.states \ {t} = DOMAIN r.states \ {t},
           t \in DOMAIN p.states =>
              \/ p.states[t].changes = Empty
              \/ /\ p.states[t].changes = StateOf(r, t).changes /\ p.states[t].outstanding # 0
                 /\ p.states[t].pending = StateOf(r, t).pending,
           t \notin DOMAIN p.states => Head(w).type = "removed"
    PROVE  Whole(e, p, Tail(w), wd, g)
<1>1. /\ p.listens = r.listens /\ p.online = r.online /\ p.stream = r.stream
      /\ p.idle = r.idle /\ p.requests = r.requests
    BY DEF Kept
<1>2. /\ r.stream = "open" /\ Tail(w) \in Seq(Message)
      /\ \A s : Ended(Tail(w), s) => Ended(w, s)
      /\ Fated(r, Tail(w), wd) /\ Aimed(r, Tail(w), wd)
    BY TailWhole
<1>3. \A s : s # t => Out(p, s) = Out(r, s)
    BY DEF Out
<1>4. Head(w) \in Message
    OBVIOUS
<1>5. Counted(p, Tail(w), g)
    <2>1. ASSUME NEW s \in Target PROVE CountedAt(p, Tail(w), s, g)
        <3>1. Counted(r, w, g)
            BY DEF Whole
        <3>2. /\ CountOf(r.requests, Asks(s)) \in Nat /\ CountOf(w, Acks(s)) \in Nat
              /\ Out(r, s) \in Int
            BY OutIs
        <3>3. CountOf(Tail(w), Acks(s)) = IF Head(w) \in Acks(s) THEN CountOf(w, Acks(s)) - 1
                                                                 ELSE CountOf(w, Acks(s))
            BY CountTail
        <3>4. Head(w) \in Acks(s) <=> s = t
            BY <1>4 DEF Acks
        <3> DEFINE k == IF s = t THEN -1 ELSE 0
        <3>5. k \in Int /\ k <= 0
            OBVIOUS
        <3>6. Coming(p, Tail(w), s) = Coming(r, w, s) + k
            BY <1>1, <3>2, <3>3, <3>4 DEF Coming
        <3>7. Out(p, s) = Out(r, s) + k
            BY <1>3, <3>2
        <3> HIDE DEF k
        <3>8. QED
            BY <1>1, <1>2, <3>1, <3>5, <3>6, <3>7, CountedMoved
    <2>2. QED
        BY <2>1 DEF Counted
<1>6. Fated(p, Tail(w), wd)
    <2>1. ASSUME NEW s \in LimboTarget PROVE FatedAt(p, Tail(w), wd, s)
        <3>1. FatedAt(r, Tail(w), wd, s)
            BY <1>2 DEF Fated
        <3>2. s \in DOMAIN wd => s \in DOMAIN p.states
            <4>1. CASE s = t /\ t \notin DOMAIN p.states
                <5>1. 1 \in DOMAIN w /\ w[1] = Head(w)
                    OBVIOUS
                <5>2. Ended(w, s)
                    BY <4>1, <5>1 DEF Ended
                <5>3. FatedAt(r, w, wd, s)
                    BY DEF Whole, Fated
                <5>4. QED
                    BY <5>2, <5>3 DEF FatedAt
            <4>2. CASE s # t
                BY <3>1, <4>2 DEF FatedAt
            <4>3. QED
                BY <4>1, <4>2
        <3>3. QED
            BY <1>1, <3>1, <3>2 DEF FatedAt
    <2>2. QED
        BY <2>1 DEF Fated
<1>7. \A s : \/ DOMAIN StateOf(p, s).changes = {}
             \/ StateOf(p, s).changes = StateOf(r, s).changes
    BY EmptyIs DEF StateOf, NewTargetState
<1>8. Aimed(p, Tail(w), wd)
    BY <1>1, <1>2, <1>7 DEF Aimed, AimedAt
<1>9. Tagged(e, p, g)
    <2>1. ASSUME NEW s \in DOMAIN p.states, s = Query \/ IsActive(p, s)
          PROVE  TaggedAt(Known(e, s, g), p, s)
        <3>1. CASE s = t
            <4>1. CASE p.states[s].changes = Empty
                BY <4>1, EmptyIs DEF TaggedAt
            <4>2. CASE /\ p.states[s].changes = StateOf(r, s).changes /\ p.states[s].outstanding # 0
                       /\ p.states[s].pending = StateOf(r, s).pending
                <5>1. s = Query
                    BY <2>1, <4>2 DEF IsActive, StateOf
                <5>2. CASE s \in DOMAIN r.states
                    <6>1. TaggedAt(Known(e, s, g), r, s)
                        BY <5>1, <5>2 DEF Whole, Tagged
                    <6>2. QED
                        BY <4>2, <5>2, <6>1 DEF TaggedAt, StateOf
                <5>3. CASE s \notin DOMAIN r.states
                    <6>1. p.states[s].changes = Empty
                        BY <4>2, <5>3 DEF StateOf, NewTargetState
                    <6>2. QED
                        BY <6>1, EmptyIs DEF TaggedAt
                <5>4. QED
                    BY <5>2, <5>3
            <4>3. QED
                BY <3>1, <4>1, <4>2
        <3>2. CASE s # t
            <4>1. /\ s \in DOMAIN r.states /\ (s = Query \/ IsActive(r, s))
                  /\ p.states[s] = r.states[s]
                BY <1>1, <2>1, <3>2 DEF IsActive, StateOf
            <4>2. TaggedAt(Known(e, s, g), r, s)
                BY <4>1 DEF Whole, Tagged
            <4>3. QED
                BY <4>1, <4>2 DEF TaggedAt
        <3>3. QED
            BY <3>1, <3>2
    <2>2. e.listening => e.synced = g.keys
        BY DEF Whole, Tagged
    <2>3. QED
        BY <2>1, <2>2 DEF Tagged
<1>10. Quiet(p, Tail(w), wd) /\ Clocks(p)
    BY <1>1, <1>2 DEF Quiet, Whole, Clocks
<1>11. QED
    BY <1>5, <1>6, <1>8, <1>9, <1>10 DEF Whole

\* The client has heard of the message, and holds.
LEMMA HeardWhole ==
    ASSUME NEW g \in Ghost, TypeInv, WholeFor(g)
    PROVE  Heard \in Remote /\ Aims(Heard) /\ Whole(engine, Heard, wire, watched, g)
           /\ Sees(Heard, g) /\ Heard \in Gain(Heard, g)
<1>1. remote \in Remote /\ engine \in Engine
    BY DEF TypeInv
<1>2. /\ Heard \in Remote /\ Heard.listens = remote.listens /\ Heard.stream = remote.stream
      /\ Heard.idle = remote.idle /\ Heard.requests = remote.requests
      /\ Heard.states = remote.states /\ Heard.online = Online("Online")
    BY <1>1, HeardIs
<1>3. Clocks(Heard)
    BY <1>2 DEF WholeFor, Whole, Clocks, Online
<1>4. Whole(engine, Heard, wire, watched, g)
    BY <1>2, <1>3, WholeOnline DEF WholeFor
<1>5. Linked([engine |-> engine, remote |-> Heard])
    BY <1>1, <1>2, LinkKept DEF TypeInv
<1>6. Sees(Heard, g)
    <2>1. Query \notin DOMAIN engine.resolutions
        BY <1>1, ResolutionIs, Targets
    <2>2. RemoteKeys(engine, Query) = engine.synced
        BY <2>1 DEF RemoteKeys
    <2>3. Query \in DOMAIN Heard.listens => engine.listening
        BY <2>1, <1>2 DEF TypeInv, Linked
    <2>4. engine.listening => engine.synced = g.keys
        BY <1>4 DEF Whole, Tagged
    <2>5. QED
        BY <2>2, <2>3, <2>4 DEF Sees
<1>7. Heard \in Gain(Heard, g)
    BY <1>2, <1>4, <1>6, GainStarts
<1>8. QED
    BY <1>1, <1>2, <1>4, <1>5, <1>6, <1>7, LinkedAims

LEMMA GatheredWhole ==
    ASSUME NEW g \in Ghost, TypeInv, WholeFor(g), remote.stream = "open", wire # <<>>,
           Head(wire).type \notin {"added", "removed", "error"},
           NEW r \in Gain(Heard, g), Gathered(r)
    PROVE  WholeFor(g)'
<1>1. Heard \in Remote /\ Whole(engine, Heard, wire, watched, g) /\ wire \in Seq(Message)
    BY HeardWhole DEF TypeInv
<1>2. Heard.stream = "open"
    BY <1>1, HeardIs DEF TypeInv
<1>3. Whole(engine, r, wire, watched, g)
    BY <1>1, <1>2, GainWhole
<1>4. Whole(engine, r, Tail(wire), watched, g)
    BY <1>1, <1>3, MuteRead
<1>5. remote' = r /\ wire' = Tail(wire) /\ engine' = engine /\ watched' = watched
      /\ disk' = disk
    BY DEF Gathered
<1>6. QED
    BY <1>4, <1>5 DEF WholeFor

\* What an answer makes of the states.
LEMMA AddedDoes ==
    ASSUME NEW r \in Remote, NEW t \in Target
    PROVE  LET p == HandleTargetAdded(r, t)
           IN  /\ Out(p, t) = Out(r, t) - 1
               /\ \A s : s # t => StateOf(p, s) = StateOf(r, s)
               /\ DOMAIN p.states \ {t} = DOMAIN r.states \ {t} /\ t \in DOMAIN p.states
               /\ \/ p.states[t].changes = Empty
                  \/ /\ p.states[t].changes = StateOf(r, t).changes /\ p.states[t].outstanding # 0
                     /\ p.states[t].pending = StateOf(r, t).pending
<1> DEFINE p == HandleTargetAdded(r, t)
           x == Answered(r, t)
           y == IF x.outstanding # 0 THEN x ELSE [x EXCEPT !.pending = FALSE, !.changes = Empty]
<1>1. StateOf(r, t) \in TargetState
    BY StateOfIs
<1>2. /\ x \in TargetState /\ x.outstanding = Out(r, t) - 1 /\ x.changes = StateOf(r, t).changes
      /\ x.pending = StateOf(r, t).pending
    BY <1>1 DEF Answered, TargetState, Out
<1> HIDE DEF x
<1>3. /\ y.outstanding = x.outstanding
      /\ \/ y.changes = Empty
         \/ y.changes = x.changes /\ y.outstanding # 0 /\ y.pending = x.pending
    BY <1>2 DEF TargetState
<1>4. p.states = With(r.states, t, y)
    BY DEF HandleTargetAdded, Remote, x
<1> HIDE DEF y, p
<1>5. /\ DOMAIN p.states = DOMAIN r.states \cup {t} /\ p.states[t] = y
      /\ \A s \in DOMAIN r.states : s # t => p.states[s] = r.states[s]
    BY <1>4 DEF With
<1>6. StateOf(p, t) = y /\ \A s : s # t => StateOf(p, s) = StateOf(r, s)
    BY <1>5 DEF StateOf
<1>7. Out(p, t) = Out(r, t) - 1
    BY <1>2, <1>3, <1>6 DEF Out
<1>8. QED
    BY <1>2, <1>3, <1>5, <1>6, <1>7 DEF p

LEMMA RemovedDoes ==
    ASSUME NEW r \in Remote, NEW t \in Target
    PROVE  LET p == HandleTargetRemoved(r, t)
           IN  /\ Out(p, t) = Out(r, t) - 1
               /\ \A s : s # t => StateOf(p, s) = StateOf(r, s)
               /\ DOMAIN p.states \ {t} = DOMAIN r.states \ {t}
               /\ t \in DOMAIN p.states =>
                     /\ p.states[t].changes = StateOf(r, t).changes /\ p.states[t].outstanding # 0
                     /\ p.states[t].pending = StateOf(r, t).pending
<1> DEFINE p == HandleTargetRemoved(r, t)
           x == Answered(r, t)
<1>1. StateOf(r, t) \in TargetState
    BY StateOfIs
<1>2. /\ x.outstanding = Out(r, t) - 1 /\ x.changes = StateOf(r, t).changes
      /\ x.pending = StateOf(r, t).pending
    BY <1>1 DEF Answered, TargetState, Out
<1>3. p.states = IF x.outstanding # 0 THEN With(r.states, t, x) ELSE Drop(r.states, t)
    BY DEF HandleTargetRemoved, Remote
<1> HIDE DEF x, p
<1>4. CASE x.outstanding # 0
    <2>1. /\ DOMAIN p.states = DOMAIN r.states \cup {t} /\ p.states[t] = x
          /\ \A s \in DOMAIN r.states : s # t => p.states[s] = r.states[s]
        BY <1>3, <1>4 DEF With
    <2>2. StateOf(p, t) = x /\ \A s : s # t => StateOf(p, s) = StateOf(r, s)
        BY <2>1 DEF StateOf
    <2>3. QED
        BY <1>2, <1>4, <2>1, <2>2 DEF p, Out
<1>5. CASE x.outstanding = 0
    <2>1. /\ DOMAIN p.states = DOMAIN r.states \ {t}
          /\ \A s \in DOMAIN r.states : s # t => p.states[s] = r.states[s]
        BY <1>3, <1>5 DEF Drop
    <2>2. StateOf(p, t) = NewTargetState /\ \A s : s # t => StateOf(p, s) = StateOf(r, s)
        BY <2>1 DEF StateOf
    <2>3. Out(p, t) = 0
        BY <2>2 DEF Out, NewTargetState
    <2>4. QED
        BY <1>2, <1>5, <2>1, <2>2, <2>3 DEF p
<1>6. QED
    BY <1>4, <1>5

LEMMA AnswersWhole ==
    ASSUME NEW g \in Ghost, TypeInv, WholeFor(g), OnTargetAdded \/ OnTargetRemoved
    PROVE  WholeFor(g)'
<1> DEFINE t == Head(wire).target
<1>1. /\ engine \in Engine /\ remote \in Remote /\ wire \in Seq(Message)
    BY DEF TypeInv
<1>2. wire # <<>> /\ Head(wire).type \in {"added", "removed", "error"}
      /\ Head(wire).type \in {"added", "removed"}
    BY DEF Arrives, OnTargetAdded, OnTargetRemoved
<1>3. t \in Target
    BY <1>1, <1>2, HeadIs, MessageIs
<1>4. Heard \in Remote /\ Whole(engine, Heard, wire, watched, g)
    BY HeardWhole
<1>5. ASSUME NEW p, Gathered(p), Whole(engine, p, Tail(wire), watched, g) PROVE WholeFor(g)'
    BY <1>5 DEF Gathered, WholeFor
<1>6. CASE OnTargetAdded
    <2> DEFINE p == HandleTargetAdded(Heard, t)
    <2>1. p \in Remote /\ Kept(p, Heard) /\ Gathered(p)
        BY <1>3, <1>4, <1>6, HandleTargetAddedIs DEF OnTargetAdded
    <2>2. /\ Out(p, t) = Out(Heard, t) - 1
          /\ \A s : s # t => StateOf(p, s) = StateOf(Heard, s)
          /\ DOMAIN p.states \ {t} = DOMAIN Heard.states \ {t} /\ t \in DOMAIN p.states
          /\ \/ p.states[t].changes = Empty
             \/ /\ p.states[t].changes = StateOf(Heard, t).changes /\ p.states[t].outstanding # 0
                /\ p.states[t].pending = StateOf(Heard, t).pending
        BY <1>3, <1>4, AddedDoes
    <2> HIDE DEF p
    <2>3. Whole(engine, p, Tail(wire), watched, g)
        BY <1>1, <1>2, <1>4, <2>1, <2>2, AckWhole
    <2>4. QED
        BY <1>5, <2>1, <2>3
<1>7. CASE OnTargetRemoved
    <2> DEFINE p == HandleTargetRemoved(Heard, t)
    <2>1. p \in Remote /\ Kept(p, Heard) /\ Gathered(p) /\ Head(wire).type = "removed"
        BY <1>3, <1>4, <1>7, HandleTargetRemovedIs DEF OnTargetRemoved, Arrives
    <2>2. /\ Out(p, t) = Out(Heard, t) - 1
          /\ \A s : s # t => StateOf(p, s) = StateOf(Heard, s)
          /\ DOMAIN p.states \ {t} = DOMAIN Heard.states \ {t}
          /\ t \in DOMAIN p.states =>
                /\ p.states[t].changes = StateOf(Heard, t).changes /\ p.states[t].outstanding # 0
                /\ p.states[t].pending = StateOf(Heard, t).pending
        BY <1>3, <1>4, RemovedDoes
    <2> HIDE DEF p
    <2>3. Whole(engine, p, Tail(wire), watched, g)
        BY <1>1, <1>2, <1>4, <2>1, <2>2, AckWhole
    <2>4. QED
        BY <1>5, <2>1, <2>3
<1>8. QED
    BY <1>6, <1>7

LEMMA GatheringWhole ==
    ASSUME NEW g \in Ghost,
           TypeInv, WholeFor(g), OnTargetCurrent \/ OnTargetReset \/ OnDocument \/ OnExistenceFilter
    PROVE  WholeFor(g)'
<1> DEFINE m == Head(wire)
<1>1. /\ engine \in Engine /\ remote \in Remote /\ wire \in Seq(Message)
    BY DEF TypeInv
<1>2. /\ remote.stream = "open" /\ wire # <<>>
      /\ m.type \notin {"added", "removed", "error"} /\ m.type # "snapshot"
    BY DEF Arrives, OnTargetCurrent, OnTargetReset, OnDocument, OnExistenceFilter
<1>3. /\ m \in Message /\ m.target \in Target
      /\ m.type \in {"snapshot", "current"} => m.version \in Nat
      /\ m.type = "document" => m.doc \in Doc /\ m.level \in Level /\ m.values \in SUBSET Level
    BY <1>1, <1>2, HeadIs, MessageIs
<1>4. Heard \in Remote /\ Aims(Heard) /\ Whole(engine, Heard, wire, watched, g)
    BY HeardWhole
<1>5. Heard \in Gain(Heard, g)
    BY HeardWhole
<1>6. \A r \in Gain(Heard, g) : Gathered(r) => WholeFor(g)'
    BY <1>2, GatheredWhole
<1> HIDE DEF m
<1>7. CASE OnTargetCurrent
    <2>1. m.version \in Nat /\ Gathered(HandleTargetCurrent(Heard, m.target, m.version))
        BY <1>3, <1>7 DEF OnTargetCurrent, Arrives, m
    <2>2. QED
        BY <1>3, <1>4, <1>5, <1>6, <2>1, HandleTargetCurrentGains
<1>8. CASE OnTargetReset
    <2>1. Gathered(IF IsActive(remote, m.target) THEN ResetTarget(Heard, m.target) ELSE Heard)
        BY <1>8 DEF OnTargetReset, m
    <2>2. IsActive(remote, m.target) => IsActive(Heard, m.target)
        BY <1>1, HeardIs DEF IsActive, StateOf
    <2>3. IsActive(Heard, m.target) => ResetTarget(Heard, m.target) \in Gain(Heard, g)
        BY <1>1, <1>3, <1>4, <1>5, ResetTargetGains
    <2>4. QED
        BY <1>5, <1>6, <2>1, <2>2, <2>3
<1>9. CASE OnDocument
    <2>1. /\ m.doc \in Doc /\ m.level \in Level /\ m.values \in SUBSET Level
          /\ m.type = "document" /\ Gathered(HandleDocumentChange(Heard, m))
        BY <1>3, <1>9 DEF OnDocument, Arrives, m
    <2>2. ASSUME m.target \in LimboTarget, m.target \in DOMAIN Heard.listens
          PROVE  m.doc \in Heard.listens[m.target].docs
        <3>1. AimedAt(Heard, wire, watched, m.target)
            BY <1>4, <2>2 DEF Whole, Aimed
        <3>2. 1 \in DOMAIN wire /\ wire[1] = m
            BY <1>1, <1>2, HeadIs DEF m
        <3>3. QED
            BY <2>1, <3>1, <3>2 DEF AimedAt
    <2>3. QED
        BY <1>3, <1>4, <1>5, <1>6, <2>1, <2>2, HandleDocumentChangeGains
<1>10. CASE OnExistenceFilter
    <2>1. Gathered(HandleExistenceFilter(Heard, m.target, m.count))
        BY <1>10 DEF OnExistenceFilter, m
    <2>2. QED
        BY <1>1, <1>3, <1>4, <1>5, <1>6, <2>1, HandleExistenceFilterGains
<1>11. QED
    BY <1>7, <1>8, <1>9, <1>10

-----------------------------------------------------------------------------
(* A refusal.                                                              *)

\* What is to come when the head of the wire, a refusal, is read.
LEMMA RefusalCounts ==
    ASSUME NEW r \in Remote, NEW w \in Seq(Message), w # <<>>, NEW t \in Target,
           t = Head(w).target, Head(w).type = "error", NEW s
    PROVE  /\ Coming(r, w, s) \in Nat /\ Coming(r, Tail(w), s) \in Nat
           /\ Coming(r, Tail(w), s) = IF s = t THEN Coming(r, w, s) - 1 ELSE Coming(r, w, s)
<1>1. /\ CountOf(r.requests, Asks(s)) \in Nat /\ CountOf(w, Acks(s)) \in Nat
      /\ Coming(r, w, s) \in Nat
    BY OutIs
<1>2. Tail(w) \in Seq(Message) /\ Head(w) \in Message
    OBVIOUS
<1>3. CountOf(Tail(w), Acks(s)) \in Nat /\ Coming(r, Tail(w), s) \in Nat
    BY <1>2, OutIs
<1>4. CountOf(Tail(w), Acks(s)) = IF Head(w) \in Acks(s) THEN CountOf(w, Acks(s)) - 1
                                                         ELSE CountOf(w, Acks(s))
    BY CountTail
<1>5. Head(w) \in Acks(s) <=> s = t
    BY <1>2 DEF Acks
<1>6. QED
    BY <1>1, <1>3, <1>4, <1>5 DEF Coming

\* A refusal of a limbo target that nobody listens to any more is ignored.
LEMMA LateRefusalWhole ==
    ASSUME NEW g \in Ghost, NEW e, NEW r \in Remote, NEW w \in Seq(Message), w # <<>>, NEW wd,
           Whole(e, r, w, wd, g), NEW t \in LimboTarget, t = Head(w).target,
           Head(w).type = "error", t \notin DOMAIN r.listens
    PROVE  Whole(e, r, Tail(w), wd, g)
<1>1. /\ r.stream = "open" /\ Fated(r, Tail(w), wd) /\ Aimed(r, Tail(w), wd)
    BY TailWhole
<1>2. t \in Target /\ t # Query
    BY Targets
<1>3. ASSUME NEW s \in Target PROVE CountedAt(r, Tail(w), s, g)
    <2>1. /\ Coming(r, w, s) \in Nat
          /\ Coming(r, Tail(w), s) = IF s = t THEN Coming(r, w, s) - 1 ELSE Coming(r, w, s)
        BY <1>2, RefusalCounts
    <2>2. CountedAt(r, w, s, g) /\ Out(r, s) \in Int
        BY OutIs DEF Whole, Counted
    <2>3. QED
        BY <1>2, <2>1, <2>2 DEF CountedAt
<1>4. Counted(r, Tail(w), g)
    BY <1>3 DEF Counted
<1>5. QED
    BY <1>1, <1>4 DEF Whole, Quiet

\* A limbo target that is listened to is forgotten when it is refused.
LEMMA RefusalWhole ==
    ASSUME NEW g \in Ghost,
           NEW e \in Engine, NEW r \in Remote, Linked([engine |-> e, remote |-> r]),
           NEW w \in Seq(Message), w # <<>>, NEW wd, Whole(e, r, w, wd, g),
           NEW t \in DOMAIN e.resolutions, t = Head(w).target, Head(w).type = "error"
    PROVE  Whole(Forgotten(e, t), Unlistened(r, t), Tail(w), wd, g)
<1> DEFINE f == Forgotten(e, t)
           p == Unlistened(r, t)
<1>1. t \in LimboTarget /\ t \in Target /\ t # Query /\ t \in DOMAIN r.listens
    BY ResolutionIs, Targets DEF Linked
<1>2. /\ f.resolutions = Drop(e.resolutions, t) /\ f.synced = e.synced
      /\ f.listening = e.listening
    BY ForgottenIs
<1>3. /\ p \in Remote /\ p.listens = Drop(r.listens, t) /\ p.states = Drop(r.states, t)
      /\ p.online = r.online /\ p.stream = r.stream
      /\ p.idle = r.idle /\ p.requests = r.requests
    BY UnlistenedIs
<1> HIDE DEF f, p
<1>4. /\ r.stream = "open" /\ Tail(w) \in Seq(Message)
      /\ Fated(r, Tail(w), wd) /\ Aimed(r, Tail(w), wd)
    BY TailWhole
<1>5. /\ DOMAIN p.listens = DOMAIN r.listens \ {t} /\ DOMAIN p.states = DOMAIN r.states \ {t}
      /\ \A s \in DOMAIN r.listens : s # t => p.listens[s] = r.listens[s]
      /\ \A s \in DOMAIN r.states : s # t => p.states[s] = r.states[s]
    BY <1>3 DEF Drop
<1>6. \A s : s # t => StateOf(p, s) = StateOf(r, s) /\ Out(p, s) = Out(r, s)
    BY <1>5 DEF StateOf, Out
<1>7. Counted(p, Tail(w), g)
    <2>1. ASSUME NEW s \in Target PROVE CountedAt(p, Tail(w), s, g)
        <3>1. /\ Coming(r, w, s) \in Nat /\ Coming(r, Tail(w), s) \in Nat
              /\ Coming(r, Tail(w), s) = IF s = t THEN Coming(r, w, s) - 1 ELSE Coming(r, w, s)
            BY <1>1, RefusalCounts
        <3>2. Coming(p, Tail(w), s) = Coming(r, Tail(w), s)
            BY <1>3 DEF Coming
        <3>3. CountedAt(r, w, s, g) /\ Out(r, s) \in Int
            BY OutIs DEF Whole, Counted
        <3>4. CASE s = t
            <4>1. Out(p, s) = 0
                BY <1>3, <1>5, <3>4, OutIs
            <4>2. Coming(p, Tail(w), s) = 0
                BY <1>1, <3>1, <3>2, <3>3, <3>4 DEF CountedAt
            <4>3. QED
                BY <1>1, <1>5, <3>4, <4>1, <4>2 DEF CountedAt
        <3>5. CASE s # t
            <4>1. Coming(p, Tail(w), s) = Coming(r, w, s) /\ Out(p, s) = Out(r, s)
                BY <1>6, <3>1, <3>2, <3>5
            <4>2. s \in DOMAIN p.listens => s \in DOMAIN r.listens
                BY <1>5
            <4>3. QED
                BY <3>3, <4>1, <4>2 DEF CountedAt
        <3>6. QED
            BY <3>4, <3>5
    <2>2. QED
        BY <2>1 DEF Counted
<1>8. Fated(p, Tail(w), wd)
    <2>1. t \notin DOMAIN wd
        <3>1. 1 \in DOMAIN w /\ w[1] = Head(w)
            OBVIOUS
        <3>2. Ended(w, t)
            BY <3>1 DEF Ended
        <3>3. QED
            BY <1>1, <3>2 DEF Whole, Fated, FatedAt
    <2>2. QED
        BY <1>3, <1>4, <1>5, <2>1 DEF Fated, FatedAt
<1>9. Aimed(p, Tail(w), wd)
    <2>1. ASSUME NEW s \in LimboTarget, s \in DOMAIN p.listens PROVE AimedAt(p, Tail(w), wd, s)
        <3>1. s # t /\ s \in DOMAIN r.listens /\ p.listens[s] = r.listens[s]
            BY <1>5, <2>1
        <3>2. AimedAt(r, Tail(w), wd, s)
            BY <1>4, <3>1 DEF Aimed
        <3>3. StateOf(p, s) = StateOf(r, s)
            BY <1>6, <3>1
        <3>4. QED
            BY <1>3, <3>1, <3>2, <3>3 DEF AimedAt
    <2>2. QED
        BY <2>1 DEF Aimed
<1>10. Tagged(f, p, g)
    <2> DEFINE y == Drop(e.resolutions, t)
    <2>1. /\ DOMAIN y = DOMAIN e.resolutions \ {t}
          /\ \A s \in DOMAIN e.resolutions : s # t => y[s] = e.resolutions[s]
        BY DEF Drop
    <2> HIDE DEF y
    <2>2. SameBut(f, e, t)
        BY <1>2, <2>1 DEF SameBut, y
    <2>3. \A s : s # t => Known(f, s, g) = Known(e, s, g)
        BY <2>2, OtherKeys
    <2>4. ASSUME NEW s \in DOMAIN p.states, s = Query \/ IsActive(p, s)
          PROVE  TaggedAt(Known(f, s, g), p, s)
        <3>1. s # t /\ s \in DOMAIN r.states /\ p.states[s] = r.states[s]
            BY <1>5
        <3>2. s = Query \/ IsActive(r, s)
            BY <1>5, <1>6, <2>4, <3>1 DEF IsActive
        <3>3. TaggedAt(Known(e, s, g), r, s)
            BY <3>1, <3>2 DEF Whole, Tagged
        <3>4. QED
            BY <2>3, <3>1, <3>3 DEF TaggedAt
    <2>5. f.listening => f.synced = g.keys
        BY <1>2 DEF Whole, Tagged
    <2>6. QED
        BY <2>4, <2>5 DEF Tagged
<1>11. Clocks(p)
    <2>1. ~r.idle
        BY <1>1, EmptyIs DEF Whole, Clocks
    <2>2. QED
        BY <1>3, <2>1 DEF Whole, Clocks
<1>12. Quiet(p, Tail(w), wd)
    BY <1>3, <1>4 DEF Quiet
<1>13. Whole(f, p, Tail(w), wd, g)
    BY <1>7, <1>8, <1>9, <1>10, <1>11, <1>12 DEF Whole
<1>14. QED
    BY <1>13 DEF f, p

\* The query is refused when nobody listens to it: the refusal is not counted,
\* and the query's count is short by one more, or long by one less.
LEMMA LateQueryRefusalWhole ==
    ASSUME NEW g \in Ghost, NEW e, NEW r \in Remote, NEW w \in Seq(Message), w # <<>>, NEW wd,
           Whole(e, r, w, wd, g), Query = Head(w).target, Head(w).type = "error",
           NEW h \in Ghost, h.off = g.off - 1, h.keys = g.keys
    PROVE  Whole(e, r, Tail(w), wd, h)
<1>1. /\ r.stream = "open" /\ Fated(r, Tail(w), wd) /\ Aimed(r, Tail(w), wd)
    BY TailWhole
<1>2. g.off \in Int
    BY DEF Ghost
<1>3. ASSUME NEW s \in Target PROVE CountedAt(r, Tail(w), s, h)
    <2>1. /\ Coming(r, w, s) \in Nat
          /\ Coming(r, Tail(w), s) = IF s = Query THEN Coming(r, w, s) - 1 ELSE Coming(r, w, s)
        BY Targets, RefusalCounts
    <2>2. CountedAt(r, w, s, g) /\ Out(r, s) \in Int
        BY OutIs DEF Whole, Counted
    <2>3. QED
        BY <1>2, <2>1, <2>2 DEF CountedAt
<1>4. Counted(r, Tail(w), h)
    BY <1>3 DEF Counted
<1>5. Tagged(e, r, h)
    BY DEF Whole, Tagged, Known
<1>6. QED
    BY <1>1, <1>4, <1>5 DEF Whole, Quiet

\* The query is refused and listened to: its state goes, and what is still to
\* come for it is what the count is short of from now on.
LEMMA QueryRefusalWhole ==
    ASSUME NEW g \in Ghost, NEW e, NEW r \in Remote, NEW w \in Seq(Message), w # <<>>, NEW wd,
           Whole(e, r, w, wd, g), Query = Head(w).target, Head(w).type = "error",
           Query \in DOMAIN r.listens,
           NEW f, ~f.listening, f.resolutions = e.resolutions,
           NEW h \in Ghost, h.off = Coming(r, w, Query) - 1, h.keys = g.keys
    PROVE  Whole(f, Unlistened(r, Query), Tail(w), wd, h)
<1> DEFINE p == Unlistened(r, Query)
<1>1. Query \in Target /\ \A s \in LimboTarget : s # Query
    BY Targets
<1>2. /\ p \in Remote /\ p.listens = Drop(r.listens, Query) /\ p.states = Drop(r.states, Query)
      /\ p.online = r.online /\ p.stream = r.stream
      /\ p.idle = r.idle /\ p.requests = r.requests
    BY UnlistenedIs
<1> HIDE DEF p
<1>3. /\ r.stream = "open" /\ Fated(r, Tail(w), wd) /\ Aimed(r, Tail(w), wd)
    BY TailWhole
<1>4. /\ DOMAIN p.listens = DOMAIN r.listens \ {Query}
      /\ DOMAIN p.states = DOMAIN r.states \ {Query}
      /\ \A s \in DOMAIN r.listens : s # Query => p.listens[s] = r.listens[s]
      /\ \A s \in DOMAIN r.states : s # Query => p.states[s] = r.states[s]
    BY <1>2 DEF Drop
<1>5. \A s : s # Query => StateOf(p, s) = StateOf(r, s) /\ Out(p, s) = Out(r, s)
    BY <1>4 DEF StateOf, Out
<1>6. Out(p, Query) = 0
    BY <1>4 DEF Out, StateOf, NewTargetState
<1>7. ASSUME NEW s \in Target PROVE CountedAt(p, Tail(w), s, h)
    <2>1. /\ Coming(r, w, s) \in Nat
          /\ Coming(r, Tail(w), s) = IF s = Query THEN Coming(r, w, s) - 1 ELSE Coming(r, w, s)
        BY <1>1, RefusalCounts
    <2>2. Coming(p, Tail(w), s) = Coming(r, Tail(w), s)
        BY <1>2 DEF Coming
    <2>3. CASE s = Query
        BY <1>6, <2>1, <2>2, <2>3 DEF CountedAt
    <2>4. CASE s # Query
        <3>1. CountedAt(r, w, s, g)
            BY DEF Whole, Counted
        <3>2. QED
            BY <1>4, <1>5, <2>1, <2>2, <2>4, <3>1 DEF CountedAt
    <2>5. QED
        BY <2>3, <2>4
<1>8. Counted(p, Tail(w), h)
    BY <1>7 DEF Counted
<1>9. Fated(p, Tail(w), wd)
    BY <1>1, <1>2, <1>3, <1>4 DEF Fated, FatedAt
<1>10. Aimed(p, Tail(w), wd)
    <2>1. ASSUME NEW s \in LimboTarget, s \in DOMAIN p.listens PROVE AimedAt(p, Tail(w), wd, s)
        <3>1. s # Query /\ s \in DOMAIN r.listens /\ p.listens[s] = r.listens[s]
            BY <1>1, <1>4, <2>1
        <3>2. AimedAt(r, Tail(w), wd, s)
            BY <1>3, <3>1 DEF Aimed
        <3>3. StateOf(p, s) = StateOf(r, s)
            BY <1>5, <3>1
        <3>4. QED
            BY <1>2, <3>1, <3>2, <3>3 DEF AimedAt
    <2>2. QED
        BY <2>1 DEF Aimed
<1>11. Tagged(f, p, h)
    <2>1. ASSUME NEW s \in DOMAIN p.states, s = Query \/ IsActive(p, s)
          PROVE  TaggedAt(Known(f, s, h), p, s)
        <3>1. s # Query /\ s \in DOMAIN r.states /\ p.states[s] = r.states[s]
            BY <1>4
        <3>2. IsActive(r, s)
            BY <1>4, <1>5, <2>1, <3>1 DEF IsActive
        <3>3. TaggedAt(Known(e, s, g), r, s)
            BY <3>1, <3>2 DEF Whole, Tagged
        <3>4. Known(f, s, h) = Known(e, s, g)
            BY <3>1 DEF Known, RemoteKeys
        <3>5. QED
            BY <3>1, <3>3, <3>4 DEF TaggedAt
    <2>2. QED
        BY <2>1 DEF Tagged
<1>12. Clocks(p)
    <2>1. ~r.idle
        BY EmptyIs DEF Whole, Clocks
    <2>2. QED
        BY <1>2, <2>1 DEF Whole, Clocks
<1>13. Quiet(p, Tail(w), wd)
    BY <1>2, <1>3 DEF Quiet
<1>14. Whole(f, p, Tail(w), wd, h)
    BY <1>8, <1>9, <1>10, <1>11, <1>12, <1>13 DEF Whole
<1>15. QED
    BY <1>14 DEF p

\* An event is applied: what holds before limbo documents are looked at holds
\* in the end.
LEMMA ApplyWhole ==
    ASSUME NEW g \in Ghost, ~IsFiniteSet(LimboTarget), wire \in Seq(Message), wire # <<>>,
           NEW c \in Full, Linked(Both(c)), NEW event, Event(event), NEW late,
           NEW a, a = Applying(c, event, late), NEW wd, Whole(a.engine, a.remote, Tail(wire), wd, g),
           NEW x, x = ApplyRemoteEvent(c, event, late)
    PROVE  Whole(x.engine, x.remote, Tail(wire), wd, g)
<1> DEFINE R == Sound(Tail(wire), wd, g)
           u == UpdateLimbo(Both(a))
<1>1. /\ Both(a) \in Fit /\ x.remote = u.remote
      /\ x.engine.synced = u.engine.synced /\ x.engine.resolutions = u.engine.resolutions
      /\ x.engine.listening = u.engine.listening
    BY ApplyRemoteEventIs
<1>2. Tail(wire) \in Seq(Message)
      /\ \A i \in DOMAIN Tail(wire) : \E j \in DOMAIN wire : Tail(wire)[i].target = wire[j].target
    BY HeadIs
<1>3. Closed(R) /\ R \in SUBSET Fit
    BY <1>2, SoundIsClosed
<1>4. \A v : v \in R <=> v \in Fit /\ Whole(v.engine, v.remote, Tail(wire), wd, g)
    BY DEF Sound
<1>5. Both(a) \in R
    BY <1>1, <1>4 DEF Both
<1> HIDE DEF R
<1>6. u \in R
    BY <1>3, <1>5, UpdateLimboStays
<1>7. Whole(u.engine, u.remote, Tail(wire), wd, g) /\ u.engine \in Engine
    BY <1>4, <1>6, FitIs
<1> HIDE DEF u
<1>8. QED
    BY <1>1, <1>7, WholeSame

\* An event without changes of targets leaves their keys alone.
LEMMA PurgeKeeps ==
    ASSUME NEW c \in Full, NEW d \in Doc, NEW late
    PROVE  LET a == Applying(c, Purge(d), late)
           IN  /\ a.remote = c.remote /\ a.engine.synced = c.engine.synced
               /\ a.engine.resolutions = c.engine.resolutions
               /\ a.engine.listening = c.engine.listening /\ a.disk.keys = c.disk.keys
<1> DEFINE a == Applying(c, Purge(d), late)
           s == c.engine.resolutions
<1>1. Purge(d).changes = Empty /\ DOMAIN Empty = {}
    BY EmptyIs DEF Purge
<1>2. /\ a.remote = c.remote
      /\ a.engine.resolutions = Receive(s, Empty)
      /\ a.engine.synced = NowSynced(c.engine, Empty)
      /\ a.engine.listening = c.engine.listening /\ a.disk.keys = NowStored(c, Empty)
    BY <1>1, PurgeIs, ApplyingIs
<1>3. NowSynced(c.engine, Empty) = c.engine.synced /\ NowStored(c, Empty) = c.disk.keys
    BY <1>1 DEF NowSynced, NowStored
<1>4. Receive(s, Empty) = s
    <2>1. s \in PFun(LimboTarget, Resolution)
        BY DEF Full, Engine
    <2>2. s \in [DOMAIN s -> Resolution]
        BY <2>1, PFunIs
    <2>3. \A t \in DOMAIN s : [s[t] EXCEPT !.received = @] = s[t]
        BY <2>2 DEF Resolution
    <2>4. Receive(s, Empty) = [t \in DOMAIN s |-> [s[t] EXCEPT !.received = @]]
        BY <1>1 DEF Receive
    <2> HIDE DEF s
    <2>5. QED
        BY <2>2, <2>3, <2>4
<1>5. QED
    BY <1>2, <1>3, <1>4

\* A limbo target is refused.
LEMMA LimboErrorWhole ==
    ASSUME NEW g \in Ghost, ~IsFiniteSet(LimboTarget), TypeInv, WholeFor(g), OnTargetError,
           Head(wire).target # Query
    PROVE  WholeFor(g)'
<1> DEFINE c == [disk |-> disk, engine |-> engine, remote |-> Heard]
           t == Head(wire).target
           x == ProcessTargetError(c, t)
<1>1. /\ remote \in Remote /\ wire \in Seq(Message) /\ engine \in Engine
    BY DEF TypeInv
<1>2. remote.stream = "open" /\ wire # <<>> /\ Head(wire).type = "error"
    BY DEF OnTargetError, Arrives
<1>3. t \in LimboTarget /\ t # Query
    <2>1. t \in Target
        BY <1>1, <1>2, HeadIs, MessageIs
    <2>2. QED
        BY <2>1, Targets
<1>4. Heard \in Remote /\ Kept(Heard, Heard) /\ Whole(engine, Heard, wire, watched, g)
    BY HeardWhole DEF Kept
<1>5. c \in Full /\ Linked(Both(c)) /\ c.disk = disk /\ c.engine = engine /\ c.remote = Heard
    BY <1>4, ToldIs
<1>6. /\ engine' = x.engine /\ remote' = x.remote /\ wire' = Tail(wire) /\ watched' = watched
      /\ disk' = x.disk
    BY DEF OnTargetError, Applied
<1> HIDE DEF c, t
<1>7. Linked([engine |-> engine, remote |-> Heard])
    BY <1>5 DEF Both
<1>8. CASE t \notin DOMAIN Heard.listens
    <2>1. x.engine = engine /\ x.remote = Heard /\ x.disk = disk
        BY <1>5, <1>8 DEF ProcessTargetError
    <2>2. Whole(engine, Heard, Tail(wire), watched, g)
        BY <1>1, <1>2, <1>3, <1>4, <1>8, LateRefusalWhole DEF t
    <2>3. QED
        BY <1>6, <2>1, <2>2 DEF WholeFor
<1>9. CASE t \in DOMAIN Heard.listens
    <2> DEFINE q == Forgotten(engine, t)
               r == Unlistened(Heard, t)
               R == Sound(Tail(wire), watched, g)
               pumped == PumpEnqueuedLimboResolutions([engine |-> q, remote |-> r])
               d == engine.resolutions[t].key
               b == [disk |-> disk, engine |-> pumped.engine, remote |-> pumped.remote]
               a == Applying(b, Purge(d), FALSE)
    <2>1. t \in DOMAIN engine.resolutions /\ d \in Doc
        BY <1>1, <1>3, <1>7, <1>9, ResolutionIs DEF Linked
    <2>2. x = ApplyRemoteEvent(b, Purge(d), FALSE)
        BY <1>5, <1>9, <2>1
        DEF ProcessTargetError, HandleRejectedListen, Unlistened, Forgotten, Purge
    <2>3. Whole(q, r, Tail(wire), watched, g)
        BY <1>1, <1>2, <1>4, <1>7, <2>1, RefusalWhole DEF t
    <2>4. [engine |-> q, remote |-> r] \in Fit
        BY <1>1, <1>4, <1>7, <2>1, ForgottenIs
    <2> HIDE DEF q, r, d
    <2>5. Tail(wire) \in Seq(Message)
          /\ \A i \in DOMAIN Tail(wire) : \E j \in DOMAIN wire : Tail(wire)[i].target = wire[j].target
        BY <1>1, <1>2, HeadIs
    <2>6. Closed(R) /\ R \in SUBSET Fit
        BY <1>1, <2>5, SoundIsClosed
    <2>7. \A v : v \in R <=> v \in Fit /\ Whole(v.engine, v.remote, Tail(wire), watched, g)
        BY DEF Sound
    <2>8. [engine |-> q, remote |-> r] \in R
        BY <2>3, <2>4, <2>7
    <2> HIDE DEF R
    <2>9. pumped \in R
        BY <2>6, <2>8, PumpStays
    <2> HIDE DEF pumped
    <2>10. /\ pumped.engine \in Engine /\ pumped.remote \in Remote
           /\ Linked([engine |-> pumped.engine, remote |-> pumped.remote])
           /\ Whole(pumped.engine, pumped.remote, Tail(wire), watched, g)
        BY <2>7, <2>9, FitIs
    <2>11. /\ b \in Full /\ Linked(Both(b))
           /\ b.engine = pumped.engine /\ b.remote = pumped.remote /\ b.disk = disk
        BY <2>10 DEF Full, Both, TypeInv
    <2> HIDE DEF b
    <2>12. /\ a.remote = b.remote /\ a.engine.synced = b.engine.synced
           /\ a.engine.resolutions = b.engine.resolutions
           /\ a.engine.listening = b.engine.listening /\ a.disk.keys = b.disk.keys
        BY <2>1, <2>11, PurgeKeeps
    <2>13. Whole(a.engine, a.remote, Tail(wire), watched, g)
        BY <2>10, <2>11, <2>12, WholeSame
    <2>14. Whole(x.engine, x.remote, Tail(wire), watched, g) /\ x.disk = a.disk
        <3>1. Event(Purge(d))
            BY <2>1, PurgeIs
        <3>2. \A v : v = x => Whole(v.engine, v.remote, Tail(wire), watched, g)
            BY <1>1, <1>2, <2>2, <2>11, <2>13, <3>1, ApplyWhole
        <3>3. x.disk = a.disk
            BY <1>1, <2>2, <2>11, <3>1, ApplyRemoteEventIs
        <3>4. QED
            BY <3>2, <3>3
    <2>15. QED
        BY <1>6, <2>11, <2>12, <2>14 DEF WholeFor
<1>10. QED
    BY <1>8, <1>9

LEMMA ToComeIs ==
    ASSUME remote \in Remote, wire \in Seq(Message), NEW t
    PROVE  ToCome(t) = Coming(remote, wire, t)
<1>1. remote.requests \in Seq(Requests)
    BY DEF Remote
<1>2. {i \in DOMAIN remote.requests : remote.requests[i].target = t}
        = {i \in DOMAIN remote.requests : remote.requests[i] \in Asks(t)}
    BY <1>1 DEF Asks
<1>3. {i \in DOMAIN wire : wire[i].target = t /\ wire[i].type \in {"added", "removed", "error"}}
        = {i \in DOMAIN wire : wire[i] \in Acks(t)}
    BY DEF Acks
<1>4. QED
    BY <1>2, <1>3 DEF ToCome, Coming, CountOf

\* The query is refused: unless the refusal crosses, the count is right after it.
LEMMA QueryErrorWhole ==
    ASSUME NEW g \in Ghost, ~IsFiniteSet(LimboTarget), TypeInv, WholeFor(g), OnTargetError,
           Head(wire).target = Query
    PROVE  \E h \in Ghost : WholeFor(h)' /\ (~Crosses => h.off = 0)
<1> DEFINE c == [disk |-> disk, engine |-> engine, remote |-> Heard]
           x == ProcessTargetError(c, Query)
<1>1. /\ remote \in Remote /\ wire \in Seq(Message) /\ engine \in Engine /\ disk \in Disk
    BY DEF TypeInv
<1>2. remote.stream = "open" /\ wire # <<>> /\ Head(wire).type = "error"
    BY DEF OnTargetError, Arrives
<1>3. Heard \in Remote /\ Whole(engine, Heard, wire, watched, g) /\ g.keys = disk.keys
    BY HeardWhole DEF WholeFor
<1>4. c \in Full /\ Linked(Both(c)) /\ c.disk = disk /\ c.engine = engine /\ c.remote = Heard
    BY <1>3, ToldIs DEF Kept
<1>5. /\ engine' = x.engine /\ remote' = x.remote /\ wire' = Tail(wire) /\ watched' = watched
      /\ disk' = x.disk
    BY DEF OnTargetError, Applied
<1> HIDE DEF c
<1>6. Linked([engine |-> engine, remote |-> Heard])
    BY <1>4 DEF Both
<1>7. Heard.listens = remote.listens /\ Heard.requests = remote.requests
    BY <1>1, HeardIs
<1>8. g.keys \in SUBSET Doc /\ g.off \in Int
    BY DEF Ghost
<1>9. CASE Query \notin DOMAIN Heard.listens
    <2>1. x = c
        BY <1>4, <1>9 DEF ProcessTargetError
    <2>2. PICK h \in Ghost : h.off = g.off - 1 /\ h.keys = g.keys
        <3>1. g.off - 1 \in Int
            BY <1>8
        <3>2. QED
            BY <1>8, <3>1, GhostExists
    <2>3. Whole(engine, Heard, Tail(wire), watched, h)
        BY <1>1, <1>2, <1>3, <2>2, LateQueryRefusalWhole
    <2>4. WholeFor(h)'
        BY <1>3, <1>4, <1>5, <2>1, <2>2, <2>3 DEF WholeFor
    <2>5. Crosses
        BY <1>7, <1>9 DEF Crosses, IsListened
    <2>6. QED
        BY <2>4, <2>5
<1>10. CASE Query \in DOMAIN Heard.listens
    <2> DEFINE r == Unlistened(Heard, Query)
               left == CleanupTarget([engine |-> engine, remote |-> r])
               n == Coming(Heard, wire, Query)
    <2>1. n \in Nat /\ n = ToCome(Query)
        BY <1>1, <1>3, <1>7, OutIs, ToComeIs DEF Coming
    <2> HIDE DEF n
    <2>2. PICK h \in Ghost : h.off = n - 1 /\ h.keys = g.keys
        <3>1. n - 1 \in Int
            BY <2>1
        <3>2. QED
            BY <1>8, <3>1, GhostExists
    <2> DEFINE R == Sound(Tail(wire), watched, h)
    <2>3. ~Crosses => h.off = 0
        BY <2>1, <2>2 DEF Crosses
    <2>4. Query \notin DOMAIN engine.resolutions
        BY <1>1, ResolutionIs, Targets
    <2>5. /\ WithoutView(engine) \in Engine
          /\ WithoutView(engine).resolutions = engine.resolutions
          /\ ~WithoutView(engine).listening
        BY <1>1, WithoutViewIs
    <2>6. r \in Remote /\ r.listens = Drop(Heard.listens, Query)
        BY <1>3, UnlistenedIs
    <2>7. Whole(WithoutView(engine), r, Tail(wire), watched, h)
        BY <1>1, <1>2, <1>3, <1>10, <2>2, <2>5, QueryRefusalWhole DEF n
    <2>8. /\ x.engine = left.engine /\ x.remote = left.remote
          /\ x.disk.keys = disk.keys
        <3>1. x = [[c EXCEPT !.remote = r, !.disk.saved = c.engine.data]
                      EXCEPT !.engine = left.engine, !.remote = left.remote]
            BY <1>4, <1>10, <2>4
            DEF ProcessTargetError, HandleRejectedListen, Unlistened, ReleaseTarget, Full
        <3> HIDE DEF left, r, x
        <3>2. /\ x.disk = [c.disk EXCEPT !.saved = c.engine.data]
              /\ x.engine = left.engine /\ x.remote = left.remote
            BY <1>4, <3>1 DEF Full
        <3>3. QED
            BY <1>1, <1>4, <3>2 DEF Disk
    <2> HIDE DEF r
    <2>9. [engine |-> WithoutView(engine), remote |-> r] \in R
        <3>1. Linked([engine |-> WithoutView(engine), remote |-> r])
            BY <1>1, <1>3, <1>6, <2>6, LinkWithoutQuery
        <3>2. [engine |-> WithoutView(engine), remote |-> r] \in Fit
            BY <2>5, <2>6, <3>1, MakeFit
        <3>3. QED
            BY <2>7, <3>2 DEF Sound
    <2>10. Tail(wire) \in Seq(Message)
           /\ \A i \in DOMAIN Tail(wire) : \E j \in DOMAIN wire : Tail(wire)[i].target = wire[j].target
        BY <1>1, <1>2, HeadIs
    <2>11. Closed(R) /\ R \in SUBSET Fit
        BY <1>1, <2>10, SoundIsClosed
    <2>12. [engine |-> engine, remote |-> r] \in Client
        BY <1>1, <2>6 DEF Client
    <2>13. \A v : v \in R <=> v \in Fit /\ Whole(v.engine, v.remote, Tail(wire), watched, h)
        BY DEF Sound
    <2> HIDE DEF R, x
    <2>14. left \in R
        BY <2>9, <2>11, <2>12, CleanupStays
    <2> HIDE DEF left
    <2>15. WholeFor(h)'
        BY <1>3, <1>5, <2>2, <2>8, <2>13, <2>14 DEF WholeFor
    <2>16. QED
        BY <2>3, <2>15
<1>11. QED
    BY <1>9, <1>10

LEMMA OnTargetErrorWhole ==
    ASSUME ~IsFiniteSet(LimboTarget), TypeInv, WholeInv, crossed \in Nat, OnTargetError
    PROVE  WholeInv'
<1>1. crossed' = IF Crosses THEN crossed + 1 ELSE crossed
    BY DEF OnTargetError
<1>2. PICK g \in Ghost : WholeFor(g) /\ (crossed = 0 => g.off = 0)
    BY DEF WholeInv
<1>3. CASE Head(wire).target # Query
    <2>1. WholeFor(g)'
        BY <1>2, <1>3, LimboErrorWhole
    <2>2. crossed' = crossed
        BY <1>1, <1>3 DEF Crosses
    <2>3. QED
        BY <1>2, <2>1, <2>2 DEF WholeInv
<1>4. CASE Head(wire).target = Query
    <2>1. PICK h \in Ghost : WholeFor(h)' /\ (~Crosses => h.off = 0)
        BY <1>2, <1>4, QueryErrorWhole
    <2>2. crossed' = 0 => h.off = 0
        BY <1>1, <2>1
    <2>3. QED
        BY <2>1, <2>2 DEF WholeInv
<1>5. QED
    BY <1>3, <1>4

-----------------------------------------------------------------------------
(* A snapshot.                                                             *)

\* An event takes with it what the active targets have gathered: what is left
\* fits any sync engine, and any keys if the query is among the active ones.
LEMMA RestWhole ==
    ASSUME NEW g \in Ghost,
           engine \in Engine, NEW r \in Remote, NEW w, NEW wd, Whole(engine, r, w, wd, g),
           Sees(r, g), r.stream = "open", Aims(r), NEW version, NEW h \in Ghost, h.off = g.off,
           h.keys = g.keys \/ Query \in DOMAIN CreateRemoteEvent(r, version).event.changes,
           NEW f, f.listening => f.synced = h.keys,
           NEW rest, rest = CreateRemoteEvent(r, version).rest
    PROVE  rest \in Remote /\ Kept(rest, r) /\ Whole(f, rest, w, wd, h)
<1> DEFINE full == FoldLeft(SynthesizeDelete, r, Ascending(DOMAIN r.states))
           changed == {t \in DOMAIN full.states : IsActive(full, t) /\ full.states[t].pending}
           left(t) == IF t \in changed
                      THEN [full.states[t] EXCEPT !.pending = FALSE, !.changes = Empty]
                      ELSE full.states[t]
<1>1. Keyed(r)
    BY DEF Aims, Keyed
<1>2. rest \in Remote /\ Kept(rest, r)
    BY <1>1, CreateRemoteEventIs
<1>3. full \in Gain(r, g)
    BY GainStarts, SynthesizedGains
<1>4. full \in Remote /\ Kept(full, r) /\ Tagged(engine, full, g)
    BY <1>3, GainIs
<1> DEFINE states == [t \in DOMAIN full.states |-> left(t)]
<1>5. rest = [full EXCEPT !.updates = Empty, !.resets = FALSE, !.states = states]
    BY DEF CreateRemoteEvent
<1>0. h.keys = g.keys \/ (IsActive(full, Query) /\ full.states[Query].pending)
    BY DEF CreateRemoteEvent
<1> HIDE DEF full
<1>6. DOMAIN rest.states = DOMAIN full.states
      /\ \A t \in DOMAIN full.states : rest.states[t] = left(t)
    <2> HIDE DEF left
    <2>1. DOMAIN states = DOMAIN full.states /\ \A t \in DOMAIN full.states : states[t] = left(t)
        OBVIOUS
    <2> HIDE DEF states
    <2>2. rest.states = states
        BY <1>4, <1>5 DEF Remote
    <2>3. QED
        BY <2>1, <2>2
<1>7. Kept(rest, full)
    BY <1>2, <1>4 DEF Kept
<1>8. \A t \in DOMAIN full.states : full.states[t] \in TargetState
    BY <1>4, StatesIs
<1>9. \A t \in DOMAIN full.states :
         /\ left(t).outstanding = full.states[t].outstanding
         /\ left(t) = full.states[t] \/ left(t).changes = Empty
    BY <1>8 DEF TargetState
<1>10. \A t \in DOMAIN full.states : IsActive(full, t) => left(t).changes = Empty
    <2>1. ASSUME NEW t \in DOMAIN full.states, IsActive(full, t) PROVE left(t).changes = Empty
        <3>1. CASE t \in changed
            BY <1>8, <3>1 DEF TargetState
        <3>2. CASE t \notin changed
            <4>1. ~full.states[t].pending
                BY <2>1, <3>2
            <4>2. TaggedAt(Known(engine, t, g), full, t)
                BY <1>4, <2>1 DEF Tagged
            <4>3. QED
                BY <3>2, <4>1, <4>2 DEF TaggedAt
        <3>3. QED
            BY <3>1, <3>2
    <2>2. QED
        BY <2>1
<1> HIDE DEF left, changed
<1>11. rest \in Gain(r, g)
    BY <1>2, <1>3, <1>6, <1>7, <1>9, GainLike
<1>12. Whole(engine, rest, w, wd, g)
    BY <1>11, GainWhole
<1>13. Tagged(f, rest, h)
    <2>1. ASSUME NEW t \in DOMAIN rest.states, t = Query \/ IsActive(rest, t)
          PROVE  TaggedAt(Known(f, t, h), rest, t)
        <3>1. t \in DOMAIN full.states /\ (IsActive(full, t) <=> IsActive(rest, t))
            BY <1>6, <1>7, <1>9 DEF IsActive, StateOf, Kept
        <3>2. CASE IsActive(full, t)
            <4>1. rest.states[t].changes = Empty
                BY <1>6, <1>10, <3>1, <3>2
            <4>2. QED
                BY <4>1, EmptyIs DEF TaggedAt
        <3>3. CASE ~IsActive(full, t)
            <4>1. t = Query /\ h.keys = g.keys
                BY <1>0, <2>1, <3>1, <3>3
            <4>2. TaggedAt(Known(engine, t, g), rest, t)
                BY <1>12, <4>1 DEF Whole, Tagged
            <4>3. QED
                BY <4>1, <4>2 DEF Known
        <3>4. QED
            BY <3>2, <3>3
    <2>2. QED
        BY <2>1 DEF Tagged
<1>14. Counted(rest, w, h)
    BY <1>12 DEF Whole, Counted, CountedAt
<1>15. QED
    BY <1>2, <1>12, <1>13, <1>14 DEF Whole

\* The token of what is listened to does not matter to it.
LEMMA TokensWhole ==
    ASSUME NEW g \in Ghost, NEW f, NEW r \in Remote, NEW w, NEW wd, Whole(f, r, w, wd, g),
           NEW p \in Remote, DOMAIN p.listens = DOMAIN r.listens,
           \A t \in DOMAIN p.listens : p.listens[t].docs = r.listens[t].docs,
           p.online = r.online, p.stream = r.stream, p.idle = r.idle,
           p.requests = r.requests, p.states = r.states
    PROVE  Whole(f, p, w, wd, g)
<1>1. \A t : StateOf(p, t) = StateOf(r, t) /\ Out(p, t) = Out(r, t) /\ Coming(p, w, t) = Coming(r, w, t)
    BY SameStates
<1>2. Quiet(p, w, wd)
    BY DEF Whole, Quiet
<1>3. Counted(p, w, g)
    BY <1>1 DEF Whole, Counted, CountedAt
<1>4. Fated(p, w, wd)
    BY DEF Whole, Fated, FatedAt
<1>5. Aimed(p, w, wd)
    BY <1>1 DEF Whole, Aimed, AimedAt
<1>6. Tagged(f, p, g)
    BY <1>1 DEF Whole, Tagged, TaggedAt, IsActive
<1>7. p.idle => p.listens = Empty
    <2> HAVE p.idle
    <2>1. r.listens = Empty
        BY DEF Whole, Clocks
    <2>2. DOMAIN p.listens = {}
        BY <2>1, EmptyIs
    <2>3. p.listens \in PFun(Target, TargetData)
        BY DEF Remote
    <2>4. p.listens \in [{} -> TargetData]
        <3>1. p.listens \in [DOMAIN p.listens -> TargetData]
            BY <2>3, PFunIs
        <3>2. QED
            BY <2>2, <3>1, Zenon
    <2>5. QED
        BY <2>4 DEF Empty
<1>8. Clocks(p)
    BY <1>7 DEF Whole, Clocks
<1>9. QED
    BY <1>2, <1>3, <1>4, <1>5, <1>6, <1>8 DEF Whole

\* A query that is asked for anew.
LEMMA AskQueryWhole ==
    ASSUME NEW g \in Ghost,
           NEW f, NEW r \in Remote, NEW w \in Seq(Message), NEW wd, Whole(f, r, w, wd, g),
           r.stream = "open", Query \in DOMAIN r.listens,
           NEW q \in Requests, q.target = Query, NEW p \in Remote, Asked(p, r, q),
           DOMAIN p.listens = DOMAIN r.listens,
           \A t \in DOMAIN r.listens : t # Query => p.listens[t] = r.listens[t],
           p.online = r.online, p.stream = r.stream, ~p.idle
    PROVE  Whole(f, p, w, wd, g)
<1>1. Query \in Target
    BY Targets
<1>2. CountedAt(p, w, Query, g)
    <2>1. Coming(p, w, Query) = Coming(r, w, Query) + 1 /\ Out(p, Query) = Out(r, Query) + 1
        BY <1>1, AskedMoves
    <2>2. CountedAt(r, w, Query, g) /\ Out(r, Query) \in Int /\ Coming(r, w, Query) \in Nat
        BY <1>1, OutIs DEF Whole, Counted
    <2>3. QED
        BY <2>1, <2>2 DEF CountedAt, Ghost
<1>3. Clocks(p) /\ (f.listening => f.synced = g.keys)
    BY DEF Whole, Clocks, Tagged
<1>4. QED
    BY <1>2, <1>3, AskedWhole

LEMMA RelistedWhole ==
    ASSUME NEW g \in Ghost,
           NEW f, NEW r \in Remote, NEW w \in Seq(Message), NEW wd, Whole(f, r, w, wd, g),
           r.stream = "open", Query \in DOMAIN r.listens
    PROVE  Whole(f, Relisted(r), w, wd, g)
<1> DEFINE l == [r.listens EXCEPT ![Query] = Anew]
           p == [r EXCEPT !.listens = l]
           q1 == Request("unwatch", Query, Anew)
           q2 == Request("watch", Query, Anew)
           s == Send(p, q1)
<1>1. Anew \in TargetData
    BY DEF Anew, TargetData
<1>2. r.listens \in PFun(Target, TargetData)
    BY DEF Remote
<1>3. /\ DOMAIN r.listens \in SUBSET Target /\ IsFiniteSet(DOMAIN r.listens)
      /\ r.listens \in [DOMAIN r.listens -> TargetData]
    BY <1>2, PFunIs
<1>4. l \in [DOMAIN r.listens -> TargetData] /\ DOMAIN l = DOMAIN r.listens
      /\ \A t \in DOMAIN r.listens : t # Query => l[t] = r.listens[t]
    BY <1>1, <1>3
<1>5. l \in PFun(Target, TargetData)
    BY <1>3, <1>4, IsPFun
<1>6. Relisted(r) = Send(s, q2)
    BY DEF Relisted
<1> HIDE DEF l
<1>7. /\ p \in Remote /\ p.listens = l /\ p.online = r.online /\ p.stream = r.stream
      /\ p.requests = r.requests /\ p.states = r.states
    BY <1>5 DEF Remote
<1> HIDE DEF p
<1>8. q1 \in Requests /\ q2 \in Requests /\ q1.target = Query /\ q2.target = Query
    BY <1>1, Targets, RequestIs
<1> HIDE DEF q1, q2
<1>9. /\ s \in Remote /\ s.listens = l /\ s.online = r.online /\ s.stream = r.stream /\ ~s.idle
      /\ Asked(s, p, q1)
    BY <1>7, <1>8, SendIs, SendAsks
<1> HIDE DEF s
<1>10. Asked(s, r, q1)
    <2>1. StateOf(p, Query) = StateOf(r, Query)
        BY <1>7 DEF StateOf
    <2>2. QED
        BY <1>7, <1>8, <1>9, <2>1 DEF Asked
<1>11. Whole(f, s, w, wd, g)
    BY <1>4, <1>8, <1>9, <1>10, AskQueryWhole
<1> DEFINE z == Send(s, q2)
<1>12. /\ z \in Remote /\ z.listens = l /\ z.online = r.online /\ z.stream = r.stream /\ ~z.idle
       /\ Asked(z, s, q2)
    BY <1>8, <1>9, SendIs, SendAsks
<1> HIDE DEF z
<1>13. Whole(f, z, w, wd, g)
    BY <1>4, <1>8, <1>9, <1>11, <1>12, AskQueryWhole
<1>14. QED
    BY <1>6, <1>13 DEF z

LEMMA RaisingWhole ==
    ASSUME NEW g \in Ghost, engine \in Engine, NEW r \in Remote, NEW w \in Seq(Message), NEW wd,
           Whole(engine, r, w, wd, g), Sees(r, g), r.stream = "open", Aims(r), NEW version,
           NEW h \in Ghost, h.off = g.off,
           h.keys = g.keys \/ Query \in DOMAIN CreateRemoteEvent(r, version).event.changes,
           NEW f, f.listening => f.synced = h.keys
    PROVE  Whole(f, Raising(r, version), w, wd, h)
<1> DEFINE created == CreateRemoteEvent(r, version)
           tokens == WithTokens(created)
<1>1. /\ created.event.changes \in PFun(Target, TargetState)
      /\ created.rest \in Remote /\ Kept(created.rest, r)
    BY CreateRemoteEventIs DEF Aims, Keyed
<1>2. Whole(f, created.rest, w, wd, h)
    <2>1. \A rest : rest = created.rest => Whole(f, rest, w, wd, h)
        BY RestWhole
    <2>2. QED
        BY <2>1
<1>3. \/ Raising(r, version) = tokens
      \/ Query \in DOMAIN tokens.listens /\ Raising(r, version) = Relisted(tokens)
    BY DEF Raising
<1> HIDE DEF created
<1>4. /\ tokens \in Remote /\ DOMAIN tokens.listens = DOMAIN created.rest.listens
      /\ \A t \in DOMAIN tokens.listens : tokens.listens[t].docs = created.rest.listens[t].docs
      /\ tokens.online = created.rest.online /\ tokens.stream = created.rest.stream
      /\ tokens.idle = created.rest.idle /\ tokens.requests = created.rest.requests
      /\ tokens.states = created.rest.states
    BY <1>1, WithTokensIs
<1>5. tokens.stream = "open"
    BY <1>1, <1>4 DEF Kept
<1> HIDE DEF tokens
<1>6. Whole(f, tokens, w, wd, h)
    BY <1>1, <1>2, <1>4, TokensWhole
<1>7. QED
    BY <1>3, <1>4, <1>5, <1>6, RelistedWhole

LEMMA OnGlobalSnapshotWhole ==
    ASSUME NEW g \in Ghost, ~IsFiniteSet(LimboTarget), TypeInv, WholeFor(g), OnGlobalSnapshot
    PROVE  \E h \in Ghost : WholeFor(h)' /\ h.off = g.off
<1> DEFINE version == Head(wire).version
           r == HandleSnapshot(Heard, version)
           told == [disk |-> disk, engine |-> engine, remote |-> r]
<1>1. /\ remote \in Remote /\ wire \in Seq(Message) /\ engine \in Engine
      /\ Snapshots(wire, Len(history)) /\ Len(history) \in 1..MaxVersion
      /\ g.keys = disk.keys
    BY DEF TypeInv, WholeFor
<1>2. remote.stream = "open" /\ wire # <<>> /\ Head(wire).type = "snapshot"
    BY DEF OnGlobalSnapshot, Arrives
<1>3. version \in Nat /\ version \in 0..MaxVersion
    <2>1. version \in 0..Len(history)
        BY <1>1, <1>2, HeadIs DEF Snapshots
    <2>2. QED
        BY <1>1, <2>1, FirestoreWatchAssumption
<1>4. Heard \in Remote /\ Aims(Heard) /\ Whole(engine, Heard, wire, watched, g)
      /\ Heard.stream = "open" /\ Heard \in Gain(Heard, g)
    BY <1>1, <1>2, HeardWhole, HeardIs
<1>5. r \in Gain(Heard, g)
    BY <1>3, <1>4, HandleSnapshotGains
<1>6. PICK late \in BOOLEAN :
         Applied(IF version >= disk.lastSnapshot THEN RaiseWatchSnapshot(told, version, late)
                                                 ELSE told)
    BY DEF OnGlobalSnapshot
<1> HIDE DEF r, version
<1>7. r \in Remote /\ Kept(r, Heard) /\ Whole(engine, r, wire, watched, g) /\ Sees(r, g)
    BY <1>4, <1>5, GainIs, GainWhole DEF Sees, Kept
<1>8. Whole(engine, r, Tail(wire), watched, g) /\ r.stream = "open" /\ Aims(r)
    BY <1>1, <1>2, <1>4, <1>7, MuteRead DEF Kept, Aims, KeyOf
<1>9. told \in Full /\ Linked(Both(told)) /\ told.engine = engine /\ told.remote = r
      /\ told.disk = disk
    BY <1>7, ToldIs
<1> HIDE DEF told
<1>10. CASE Applied(told)
    BY <1>1, <1>8, <1>9, <1>10 DEF Applied, WholeFor
<1>11. CASE Applied(RaiseWatchSnapshot(told, version, late))
    <2> DEFINE x == RaiseWatchSnapshot(told, version, late)
               event == CreateRemoteEvent(told.remote, version).event
               b == [told EXCEPT !.remote = Raising(told.remote, version)]
               a == Applying(b, event, late)
    <2>1. /\ Event(event) /\ b \in Full /\ Linked(Both(b))
          /\ b.disk = disk /\ b.engine = engine
          /\ b.remote = Raising(told.remote, version) /\ x = ApplyRemoteEvent(b, event, late)
        BY <1>1, <1>3, <1>9, RaiseWatchSnapshotIs
    <2>2. event = CreateRemoteEvent(r, version).event
        BY <1>9
    <2> HIDE DEF x, event, b
    <2>3. /\ a \in Full /\ a.remote = b.remote /\ a.engine.listening = engine.listening
          /\ a.engine.synced = NowSynced(b.engine, event.changes)
          /\ a.disk.keys = NowStored(b, event.changes)
        BY <2>1, ApplyingIs
    <2>4. a.disk.keys \in SUBSET Doc /\ g.off \in Int
        BY <2>3 DEF Full, Disk, Ghost
    <2>5. PICK h \in Ghost : h.off = g.off /\ h.keys = a.disk.keys
        BY <2>4, GhostExists
    <2>6. h.keys = g.keys \/ Query \in DOMAIN event.changes
        BY <1>1, <2>1, <2>3, <2>5 DEF NowStored
    <2>7. a.engine.listening => a.engine.synced = h.keys
        <3>1. engine.listening => engine.synced = disk.keys
            BY SyncedIs
        <3>2. OfType(event.changes[Query], "added") \cap OfType(event.changes[Query], "removed") = {}
            BY DEF OfType
        <3>3. QED
            BY <2>1, <2>3, <2>5, <3>1, <3>2 DEF NowStored, NowSynced
    <2> HIDE DEF a
    <2>8. Whole(a.engine, Raising(r, version), Tail(wire), watched, h)
        BY <1>1, <1>2, <1>7, <1>8, <2>2, <2>5, <2>6, <2>7, HeadIs, RaisingWhole
    <2>9. Whole(a.engine, a.remote, Tail(wire), watched, h)
        BY <1>9, <2>1, <2>3, <2>8
    <2>10. \A v : v = x => Whole(v.engine, v.remote, Tail(wire), watched, h)
        BY <1>1, <1>2, <2>1, <2>9, ApplyWhole DEF a
    <2>11. x.disk = a.disk
        BY <1>1, <2>1, ApplyRemoteEventIs DEF a
    <2>12. /\ engine' = x.engine /\ remote' = x.remote /\ wire' = Tail(wire) /\ watched' = watched
           /\ disk' = x.disk
        BY <1>11 DEF Applied, x
    <2>13. QED
        BY <2>5, <2>10, <2>11, <2>12 DEF WholeFor
<1>12. QED
    BY <1>6, <1>10, <1>11

-----------------------------------------------------------------------------
(* Every step.                                                             *)

LEMMA CommitWhole ==
    ASSUME NEW g \in Ghost, WholeFor(g), UNCHANGED <<disk, engine, remote, wire, watched>>
    PROVE  WholeFor(g)'
BY DEF WholeFor

\* The steps that leave the count as right or wrong as it is.
LEMMA SteadyWhole ==
    ASSUME ~IsFiniteSet(LimboTarget), TypeInv, NEW g \in Ghost, WholeFor(g),
           \/ Listen \/ StopListening \/ OnlineStateTimeout \/ Open
           \/ OnTargetAdded \/ OnTargetRemoved \/ OnTargetCurrent \/ OnTargetReset
           \/ OnDocument \/ OnExistenceFilter \/ OnGlobalSnapshot
           \/ ServeWatch \/ ServeUnwatch \/ Refuse \/ Advance \/ Commit \/ UNCHANGED vars
    PROVE  (\E h \in Ghost : WholeFor(h)' /\ h.off = g.off) /\ crossed' = crossed
<1>1. CASE Listen
    BY <1>1, ListenWhole DEF Listen
<1>2. CASE StopListening
    BY <1>2, StopListeningWhole DEF StopListening
<1>3. CASE OnlineStateTimeout
    BY <1>3, OnlineStateTimeoutWhole DEF OnlineStateTimeout
<1>4. CASE Open
    BY <1>4, OpenWhole DEF Open
<1>5. CASE OnTargetAdded \/ OnTargetRemoved
    BY <1>5, AnswersWhole DEF OnTargetAdded, OnTargetRemoved, Gathered
<1>6. CASE OnTargetCurrent \/ OnTargetReset \/ OnDocument \/ OnExistenceFilter
    BY <1>6, GatheringWhole
    DEF OnTargetCurrent, OnTargetReset, OnDocument, OnExistenceFilter, Gathered
<1>7. CASE OnGlobalSnapshot
    BY <1>7, OnGlobalSnapshotWhole DEF OnGlobalSnapshot
<1>8. CASE ServeWatch
    BY <1>8, ServeWatchWhole DEF ServeWatch
<1>9. CASE ServeUnwatch
    BY <1>9, ServeUnwatchWhole DEF ServeUnwatch
<1>10. CASE Refuse
    BY <1>10, RefuseWhole DEF Refuse
<1>11. CASE Advance
    BY <1>11, AdvanceWhole DEF Advance
<1>12. CASE Commit
    BY <1>12, CommitWhole DEF Commit
<1>13. CASE UNCHANGED vars
    BY <1>13, CommitWhole DEF vars
<1>14. QED
    BY <1>1, <1>2, <1>3, <1>4, <1>5, <1>6, <1>7, <1>8, <1>9, <1>10, <1>11, <1>12, <1>13

LEMMA NextWhole ==
    ASSUME ~IsFiniteSet(LimboTarget), TypeInv, WholeInv, crossed \in Nat, [Next]_vars
    PROVE  WholeInv'
<1>1. PICK g \in Ghost : WholeFor(g) /\ (crossed = 0 => g.off = 0)
    BY DEF WholeInv
<1>2. CASE Kill
    BY <1>2, KillWhole
<1>3. CASE Close
    BY <1>1, <1>3, CloseWhole
<1>4. CASE IdleTimeout
    BY <1>1, <1>4, IdleTimeoutWhole
<1>5. CASE RestartNetwork
    BY <1>1, <1>5, RestartNetworkWhole
<1>6. CASE OnTargetError
    BY <1>6, OnTargetErrorWhole
<1>7. CASE \/ Listen \/ StopListening \/ OnlineStateTimeout \/ Open
           \/ OnTargetAdded \/ OnTargetRemoved \/ OnTargetCurrent \/ OnTargetReset
           \/ OnDocument \/ OnExistenceFilter \/ OnGlobalSnapshot
           \/ ServeWatch \/ ServeUnwatch \/ Refuse \/ Advance \/ Commit \/ UNCHANGED vars
    <2>1. (\E h \in Ghost : WholeFor(h)' /\ h.off = g.off) /\ crossed' = crossed
        BY <1>1, <1>7, SteadyWhole
    <2>2. PICK h \in Ghost : WholeFor(h)' /\ h.off = g.off
        BY <2>1
    <2>3. QED
        BY <1>1, <2>1, <2>2 DEF WholeInv
<1>8. QED
    BY <1>2, <1>3, <1>4, <1>5, <1>6, <1>7 DEF Next, Deliver

LEMMA NextCrossed ==
    ASSUME crossed \in Nat, [Next]_vars
    PROVE  crossed' \in Nat
<1>1. CASE Kill \/ Close \/ IdleTimeout \/ RestartNetwork
    BY <1>1 DEF Kill, Close, IdleTimeout, RestartNetwork, Disconnected
<1>2. CASE OnTargetError
    BY <1>2 DEF OnTargetError
<1>3. CASE OnTargetAdded \/ OnTargetRemoved \/ OnTargetCurrent \/ OnTargetReset
           \/ OnDocument \/ OnExistenceFilter
    BY <1>3 DEF OnTargetAdded, OnTargetRemoved, OnTargetCurrent, OnTargetReset, OnDocument,
                OnExistenceFilter, Gathered
<1>4. CASE \/ Listen \/ StopListening \/ OnlineStateTimeout \/ Open \/ OnGlobalSnapshot
           \/ ServeWatch \/ ServeUnwatch \/ Refuse \/ Advance \/ Commit \/ UNCHANGED vars
    BY <1>4 DEF Listen, StopListening, OnlineStateTimeout, Open, OnGlobalSnapshot, ServeWatch,
                ServeUnwatch, Refuse, Advance, Commit, vars
<1>5. QED
    BY <1>1, <1>2, <1>3, <1>4 DEF Next, Deliver

\* The inductive invariant.
WatchInv == TypeInv /\ WholeInv /\ crossed \in Nat

LEMMA InitWatchInv ==
    ASSUME Init
    PROVE  WatchInv
<1>1. crossed \in Nat
    BY DEF Init
<1>2. QED
    BY <1>1, InitTyped, InitWhole DEF WatchInv

LEMMA NextWatchInv ==
    ASSUME ~IsFiniteSet(LimboTarget), WatchInv, [Next]_vars
    PROVE  WatchInv'
BY NextTyped, NextWhole, NextCrossed DEF WatchInv

-----------------------------------------------------------------------------
(* What the invariant says of the code.                                    *)

LEMMA WholeAcks ==
    ASSUME TypeInv, WholeInv, crossed \in Nat
    PROVE  AcksMatchWire
<1>1. remote \in Remote /\ wire \in Seq(Message)
    BY DEF TypeInv
<1>2. PICK g \in Ghost : WholeFor(g) /\ (crossed = 0 => g.off = 0)
    BY DEF WholeInv
<1>3. SUFFICES ASSUME NEW t \in DOMAIN remote.listens, t # Query \/ crossed = 0
               PROVE  StateOf(remote, t).outstanding = ToCome(t)
    BY DEF AcksMatchWire
<1>4. t \in Target
    BY <1>1 DEF Remote, PFun
<1>5. CountedAt(remote, wire, t, g)
    BY <1>2, <1>4 DEF WholeFor, Whole, Counted
<1>6. Out(remote, t) \in Int /\ Coming(remote, wire, t) \in Nat
    BY <1>1, OutIs
<1>7. Out(remote, t) = Coming(remote, wire, t)
    BY <1>2, <1>3, <1>5, <1>6 DEF CountedAt
<1>8. QED
    BY <1>1, <1>7, ToComeIs DEF Out

LEMMA WholeAsserts ==
    ASSUME TypeInv, WholeInv
    PROVE  AssertionsHold
<1>0. PICK g \in Ghost : WholeFor(g)
    BY DEF WholeInv
<1>1. /\ remote \in Remote /\ engine \in Engine /\ Linked([engine |-> engine, remote |-> remote])
      /\ Aimed(remote, wire, watched) /\ Tagged(engine, remote, g) /\ Clocks(remote)
    BY <1>0 DEF TypeInv, WholeFor, Whole
<1>2. ASSUME NEW t \in DOMAIN remote.states, IsActive(remote, t)
      PROVE  \A d \in DOMAIN remote.states[t].changes :
                (remote.states[t].changes[d] = "added") <=> (d \notin RemoteKeys(engine, t))
    <2>1. TaggedAt(Known(engine, t, g), remote, t)
        BY <1>1, <1>2 DEF Tagged
    <2>2. Known(engine, t, g) = RemoteKeys(engine, t)
        <3>1. Query \notin DOMAIN engine.resolutions
            BY <1>1, ResolutionIs, Targets
        <3>2. t = Query => engine.synced = g.keys
            BY <1>1, <1>2, <3>1 DEF IsActive, Linked, Tagged
        <3>3. QED
            BY <3>1, <3>2 DEF Known, RemoteKeys
    <2>3. QED
        BY <2>1, <2>2 DEF TaggedAt
<1>3. ASSUME NEW t \in DOMAIN remote.states, IsActive(remote, t), t # Query
      PROVE  Cardinality(DOMAIN remote.states[t].changes) <= 1
    <2>1. t \in DOMAIN remote.listens /\ t \in LimboTarget
        BY <1>1, <1>3 DEF IsActive, Remote, PFun, Target
    <2>2. PICK d \in Doc : remote.listens[t].docs = {d}
        BY <1>1, <2>1, <1>3, LinkedAims DEF Aims
    <2>3. DOMAIN StateOf(remote, t).changes \subseteq {d}
        BY <1>1, <2>1, <2>2 DEF Aimed, AimedAt
    <2>4. StateOf(remote, t) = remote.states[t]
        BY DEF StateOf
    <2>5. DOMAIN remote.states[t].changes = {} \/ DOMAIN remote.states[t].changes = {d}
        BY <2>3, <2>4
    <2>6. Cardinality({}) = 0 /\ Cardinality({d}) = 1
        BY FS_EmptySet, FS_Singleton
    <2>7. QED
        BY <2>5, <2>6
<1>4. QED
    BY <1>1, <1>2, <1>3 DEF AssertionsHold, Clocks

\* The aggregator waits for exactly the answers that are still to come, for
\* the query and for every limbo target that is listened to, whatever the
\* order of listens, unlistens, resets, refusals and reconnects
\* (watch_change_aggregator.cc RecordPendingTargetRequest and IsActive): no
\* stale answer is taken for a new listen's, and no target stays deaf.  Only
\* the query's count can be wrong, and only from a refusal of it that crosses
\* another of its answers until the connection ends.
THEOREM WatchAcksMatchWire ==
    ASSUME ~IsFiniteSet(LimboTarget)
    PROVE  Spec => []AcksMatchWire
<1>1. Init => WatchInv
    BY InitWatchInv
<1>2. WatchInv /\ [Next]_vars => WatchInv'
    BY NextWatchInv
<1>3. WatchInv => AcksMatchWire
    BY WholeAcks DEF WatchInv
<1>4. QED
    BY <1>1, <1>2, <1>3, PTL DEF Spec

\* No assertion of the listening side can fail, whatever the backend refuses:
\* a change is an addition exactly if the target does not have the document
\* yet, a limbo target has at most one change, the online timer runs only
\* while the state is unknown and a connection is attempted, and the idle
\* timer only when nothing is listened to (view.cc:363, sync_engine.cc:279,
\* 287 and 290, online_state_tracker.cc:59 and 65, remote_store.cc:236).
THEOREM WatchAssertionsHold ==
    ASSUME ~IsFiniteSet(LimboTarget)
    PROVE  Spec => []AssertionsHold
<1>1. Init => WatchInv
    BY InitWatchInv
<1>2. WatchInv /\ [Next]_vars => WatchInv'
    BY NextWatchInv
<1>3. WatchInv => AssertionsHold
    BY WholeAsserts DEF WatchInv
<1>4. QED
    BY <1>1, <1>2, <1>3, PTL DEF Spec

=============================================================================
