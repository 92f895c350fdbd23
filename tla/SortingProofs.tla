--------------------------- MODULE SortingProofs ---------------------------
(***************************************************************************)
(* What Ascending and Selected return.  FlashChatProofs and TodoeyProofs   *)
(* rest on these facts, SwifterMediaProofs on LeastNumber.                 *)
(***************************************************************************)
EXTENDS Sorting, SequenceTheorems, FiniteSetTheorems, FunctionTheorems,
        NaturalsInduction, WellFoundedInduction, TLAPS

\* A property of some number has a least number it holds of.
LEMMA LeastNumber ==
    ASSUME NEW S \in SUBSET Nat, S # {}
    PROVE  \E k \in S : \A j \in S : k <= j
<1> DEFINE Less == OpToRel(<, Nat)
<1>1. IsWellFoundedOn(Less, Nat)
    BY NatLessThanWellFounded
<1>2. \A j, k \in Nat : j < k => <<j, k>> \in Less
    BY Zenon DEF OpToRel
<1> HIDE DEF Less
<1>3. PICK k \in S : \A j \in S : ~(<<j, k>> \in Less)
    BY <1>1, WFMin
<1>4. ASSUME NEW j \in S PROVE k <= j
    <2>1. j \in Nat /\ k \in Nat
        OBVIOUS
    <2>2. ~(j < k)
        BY <2>1, <1>2, <1>3, Zenon
    <2>3. QED
        BY <2>1, <2>2
<1>5. QED
    BY <1>4

\* A finite set of numbers has a largest one.
LEMMA LargestNumber ==
    ASSUME NEW S \in SUBSET Nat, IsFiniteSet(S), S # {}
    PROVE  \E x \in S : \A y \in S : y <= x
<1> DEFINE Largest(T) == \E x \in T : \A y \in T : y <= x
           Bad == {n \in Nat : \E T \in SUBSET S : T # {} /\ Cardinality(T) = n /\ ~Largest(T)}
<1>1. SUFFICES ASSUME Bad # {} PROVE FALSE
    <2>1. Cardinality(S) \in Nat
        BY FS_CardinalityType
    <2>2. Bad = {} => Largest(S)
        BY <2>1
    <2>3. QED
        BY <2>2
<1>2. PICK n \in Bad : \A k \in Bad : n <= k
    BY <1>1, LeastNumber
<1>3. PICK T \in SUBSET S : T # {} /\ Cardinality(T) = n /\ ~Largest(T)
    BY <1>2
<1>4. PICK x \in T : TRUE
    BY <1>3
<1>5. IsFiniteSet(T)
    BY FS_Subset
<1>6. /\ IsFiniteSet(T \ {x})
      /\ Cardinality(T \ {x}) = n - 1
    BY <1>3, <1>5, FS_RemoveElement
<1>7. Cardinality(T \ {x}) \in Nat
    BY <1>6, FS_CardinalityType
<1>8. T \ {x} # {}
    BY <1>3
<1>9. Largest(T \ {x})
    <2>1. n \in Nat
        BY <1>2
    <2>2. n - 1 \notin Bad
        BY <1>2, <2>1
    <2>3. n - 1 \in Nat
        BY <1>6, <1>7
    <2>4. QED
        BY <2>2, <2>3, <1>6, <1>8
<1>10. PICK y \in T \ {x} : \A z \in T \ {x} : z <= y
    BY <1>9
<1>11. x \in Nat /\ y \in Nat
    OBVIOUS
<1>12. Largest(T)
    <2>1. CASE x <= y
        BY <2>1, <1>10
    <2>2. CASE y <= x
        <3>1. \A z \in T : z <= x
            BY <2>2, <1>10, <1>11
        <3>2. QED
            BY <3>1
    <2>3. QED
        BY <2>1, <2>2, <1>11
<1>13. QED
    BY <1>3, <1>12

IsAscending(f, S) ==
    /\ f \in [1..Cardinality(S) -> S]
    /\ \A i, j \in 1..Cardinality(S) : i < j => f[i] < f[j]
    /\ \A x \in S : \E i \in 1..Cardinality(S) : f[i] = x

\* Every finite set of numbers can be sorted: the largest goes last.
LEMMA AscendingExists ==
    ASSUME NEW S \in SUBSET Nat, IsFiniteSet(S)
    PROVE  \E f : IsAscending(f, S)
<1> DEFINE Sorted(T) == \E f : IsAscending(f, T)
           Bad == {n \in Nat : \E T \in SUBSET S : Cardinality(T) = n /\ ~Sorted(T)}
<1>1. SUFFICES ASSUME Bad # {} PROVE FALSE
    <2>1. Cardinality(S) \in Nat
        BY FS_CardinalityType
    <2>2. Bad = {} => Sorted(S)
        BY <2>1
    <2>3. QED
        BY <2>2
<1>2. PICK n \in Bad : \A k \in Bad : n <= k
    BY <1>1, LeastNumber
<1>3. PICK T \in SUBSET S : Cardinality(T) = n /\ ~Sorted(T)
    BY <1>2
<1>4. IsFiniteSet(T) /\ n \in Nat
    BY <1>2, FS_Subset
<1>5. T # {}
    <2>1. SUFFICES ASSUME T = {} PROVE FALSE
        OBVIOUS
    <2>2. Cardinality(T) = 0
        BY <2>1, FS_EmptySet
    <2>3. \A i \in 1..Cardinality(T) : FALSE
        BY <2>2
    <2>4. [i \in 1..Cardinality(T) |-> 0] \in [1..Cardinality(T) -> T]
        BY <2>3
    <2>5. IsAscending([i \in 1..Cardinality(T) |-> 0], T)
        <3>1. \A x \in T : \E i \in 1..Cardinality(T) : [j \in 1..Cardinality(T) |-> 0][i] = x
            BY <2>1
        <3>2. \A i, j \in 1..Cardinality(T) :
                 i < j => [k \in 1..Cardinality(T) |-> 0][i] < [k \in 1..Cardinality(T) |-> 0][j]
            BY <2>3
        <3>3. QED
            BY <2>4, <3>1, <3>2, Zenon DEF IsAscending
    <2>6. QED
        BY <2>5, <1>3
<1>6. PICK x \in T : \A y \in T : y <= x
    BY <1>4, <1>5, LargestNumber
<1>7. /\ IsFiniteSet(T \ {x})
      /\ Cardinality(T \ {x}) = n - 1
    BY <1>3, <1>4, FS_RemoveElement
<1>8. n - 1 \in Nat
    BY <1>7, FS_CardinalityType
<1>9. Sorted(T \ {x})
    <2>1. n - 1 \notin Bad
        BY <1>2, <1>4
    <2>2. QED
        BY <2>1, <1>7, <1>8
<1>10. PICK f : IsAscending(f, T \ {x})
    BY <1>9
<1> DEFINE g == [i \in 1..n |-> IF i = n THEN x ELSE f[i]]
<1>11. \A i \in 1..(n - 1) : f[i] \in T \ {x} /\ f[i] < x
    <2>1. \A i \in 1..(n - 1) : f[i] \in T \ {x}
        BY <1>7, <1>10 DEF IsAscending
    <2>2. \A y \in T \ {x} : y < x
        <3>1. \A y \in T : y \in Nat
            OBVIOUS
        <3>2. QED
            BY <3>1, <1>6
    <2>3. QED
        BY <2>1, <2>2
<1>12. g \in [1..n -> T]
    BY <1>4, <1>8, <1>11
<1>13. \A i, j \in 1..n : i < j => g[i] < g[j]
    <2>1. SUFFICES ASSUME NEW i \in 1..n, NEW j \in 1..n, i < j PROVE g[i] < g[j]
        OBVIOUS
    <2>2. i \in 1..(n - 1) /\ i # n
        BY <2>1, <1>4
    <2>3. CASE j = n
        BY <2>2, <2>3, <1>11
    <2>4. CASE j # n
        <3>1. j \in 1..(n - 1)
            BY <2>4, <1>4
        <3>2. f[i] < f[j]
            BY <2>1, <2>2, <3>1, <1>7, <1>10 DEF IsAscending
        <3>3. QED
            BY <2>2, <2>4, <3>2
    <2>5. QED
        BY <2>3, <2>4
<1>14. \A y \in T : \E i \in 1..n : g[i] = y
    <2>1. g[n] = x /\ n \in 1..n
        BY <1>4, <1>8
    <2>2. \A y \in T \ {x} : \E i \in 1..(n - 1) : f[i] = y
        BY <1>7, <1>10 DEF IsAscending
    <2>3. \A i \in 1..(n - 1) : g[i] = f[i] /\ i \in 1..n
        BY <1>4
    <2>4. QED
        BY <2>1, <2>2, <2>3
<1>15. IsAscending(g, T)
    BY <1>3, <1>12, <1>13, <1>14 DEF IsAscending
<1>16. QED
    BY <1>3, <1>15

\* Ascending returns a sequence of the members of the set, each once and in
\* order.
LEMMA AscendingSorts ==
    ASSUME NEW S \in SUBSET Nat, IsFiniteSet(S)
    PROVE  /\ Cardinality(S) \in Nat
           /\ IsAscending(Ascending(S), S)
           /\ Ascending(S) \in Seq(S)
           /\ Len(Ascending(S)) = Cardinality(S)
<1> DEFINE f == Ascending(S)
           n == Cardinality(S)
<1>1. n \in Nat
    BY FS_CardinalityType
<1>2. \E g \in [1..n -> S] : \A i, j \in DOMAIN g : i < j => g[i] < g[j]
    <2>1. PICK g : IsAscending(g, S)
        BY AscendingExists
    <2>2. DOMAIN g = 1..n
        BY <2>1 DEF IsAscending
    <2>3. QED
        BY <2>1, <2>2 DEF IsAscending
<1>3. f \in [1..n -> S] /\ \A i, j \in DOMAIN f : i < j => f[i] < f[j]
    BY <1>2 DEF Ascending
<1>4. \A i, j \in 1..n : i < j => f[i] < f[j]
    <2>1. DOMAIN f = 1..n
        BY <1>3
    <2>2. QED
        BY <1>3, <2>1
<1> HIDE DEF f
<1>5. f \in Seq(S) /\ Len(f) = n
    BY <1>1, <1>3
<1>6. f \in Injection(1..n, S)
    <2>1. \A i, j \in 1..n : f[i] = f[j] => i = j
        <3>1. \A i \in 1..n : f[i] \in Nat
            BY <1>3
        <3>2. QED
            BY <1>1, <1>4, <3>1
    <2>2. QED
        BY <1>3, <2>1, Fun_IsInj
<1>7. f \in Surjection(1..n, S)
    <2>1. IsFiniteSet(1..n) /\ Cardinality(1..n) = n
        BY <1>1, FS_Interval
    <2>2. QED
        BY <1>6, <2>1, FS_Injection
<1>8. \A x \in S : \E i \in 1..n : f[i] = x
    BY <1>7, Fun_SurjectionProperties DEF Surjection
<1>9. QED
    BY <1>1, <1>3, <1>4, <1>5, <1>8 DEF IsAscending, f

Positions(s, S) == {i \in 1..Len(s) : s[i] \in S}

IsSelection(r, s, S) ==
    /\ \A k \in 1..Len(r) : \E i \in 1..Len(s) : s[i] \in S /\ r[k] = s[i]
    /\ \A i \in 1..Len(s) : s[i] \in S => \E k \in 1..Len(r) : r[k] = s[i]

\* What is selected is in the sequence and in the set, and so is all that is in
\* both, as often as it is in the sequence.
LEMMA SelectedElements ==
    ASSUME NEW T, NEW s \in Seq(T), NEW S
    PROVE  /\ Selected(s, S) \in Seq(T)
           /\ IsSelection(Selected(s, S), s, S)
           /\ IsFiniteSet(Positions(s, S))
           /\ Cardinality(Positions(s, S)) \in Nat
           /\ Len(Selected(s, S)) = Cardinality(Positions(s, S))
<1> DEFINE I == {i \in 1..Len(s) : s[i] \in S}
           f == Ascending(I)
           n == Cardinality(I)
<1>1. Len(s) \in Nat /\ DOMAIN s = 1..Len(s)
    OBVIOUS
<1>2. IsFiniteSet(1..Len(s))
    BY <1>1, FS_Interval
<1>3. I \in SUBSET (1..Len(s)) /\ I \in SUBSET Nat
    OBVIOUS
<1>4. IsFiniteSet(I)
    BY <1>2, <1>3, FS_Subset
<1>5. /\ n \in Nat
      /\ IsAscending(f, I)
    BY <1>3, <1>4, AscendingSorts
<1>6. Selected(s, S) = [k \in DOMAIN f |-> s[f[k]]]
    BY <1>1 DEF Selected
<1> HIDE DEF f
<1>7. /\ f \in [1..n -> I]
      /\ \A i \in I : \E k \in 1..n : f[k] = i
    BY <1>5 DEF IsAscending
<1>8. DOMAIN f = 1..n
    BY <1>7
<1>9. \A k \in 1..n : f[k] \in I
    BY <1>7
<1> HIDE DEF n
<1>10. Selected(s, S) = [k \in 1..n |-> s[f[k]]]
    BY <1>6, <1>8
<1>11. \A k \in 1..n : s[f[k]] \in T
    <2>1. \A i \in 1..Len(s) : s[i] \in T
        BY ElementOfSeq
    <2>2. QED
        BY <1>3, <1>9, <2>1
<1>12. Selected(s, S) \in Seq(T) /\ Len(Selected(s, S)) = n
    BY <1>5, <1>10, <1>11
<1>13. \A k \in 1..n : Selected(s, S)[k] = s[f[k]]
    BY <1>10
<1>14. PICK r : r = Selected(s, S)
    OBVIOUS
<1>15. IsSelection(r, s, S)
    <2>1. \A k \in 1..Len(r) : \E i \in 1..Len(s) : s[i] \in S /\ r[k] = s[i]
        BY <1>9, <1>12, <1>13, <1>14
    <2>2. \A i \in 1..Len(s) : s[i] \in S => \E k \in 1..Len(r) : r[k] = s[i]
        BY <1>7, <1>12, <1>13, <1>14
    <2>3. QED
        BY <2>1, <2>2 DEF IsSelection
<1>16. I = Positions(s, S)
    BY DEF Positions
<1>17. QED
    BY <1>4, <1>5, <1>12, <1>14, <1>15, <1>16 DEF n

\* A set has only one list of its members in increasing order.
LEMMA AscendingUnique ==
    ASSUME NEW S \in SUBSET Nat, IsFiniteSet(S),
           NEW n \in Nat, NEW g, g \in [1..n -> S],
           \A i, j \in 1..n : i < j => g[i] < g[j],
           \A x \in S : \E i \in 1..n : g[i] = x
    PROVE  Ascending(S) = g /\ Cardinality(S) = n
<1>1. PICK f, c : f = Ascending(S) /\ c = Cardinality(S)
    OBVIOUS
<1>2. /\ c \in Nat /\ f \in [1..c -> S]
      /\ \A i, j \in 1..c : i < j => f[i] < f[j]
      /\ \A x \in S : \E i \in 1..c : f[i] = x
    BY <1>1, AscendingSorts DEF IsAscending
<1>3. c = n
    <2>1. g \in Bijection(1..n, S)
        <3>1. \A i, j \in 1..n : g[i] = g[j] => i = j
            <4>1. \A i \in 1..n : g[i] \in Nat
                OBVIOUS
            <4>2. QED
                BY <4>1
        <3>2. g \in Injection(1..n, S)
            BY <3>1, Fun_IsInj
        <3>3. g \in Surjection(1..n, S)
            BY Fun_IsSurj
        <3>4. QED
            BY <3>2, <3>3 DEF Bijection
    <2>2. ExistsBijection(1..n, S)
        BY <2>1, Zenon DEF ExistsBijection
    <2>3. Cardinality(S) = n
        BY <2>2, FS_CountingElements
    <2>4. QED
        BY <1>1, <2>3
<1>4. g \in [1..c -> S] /\ (\A i, j \in 1..c : i < j => g[i] < g[j])
      /\ (\A x \in S : \E i \in 1..c : g[i] = x)
    BY <1>3
<1> DEFINE Differ == {i \in 1..c : f[i] # g[i]}
<1>5. Differ = {}
    <2>1. SUFFICES ASSUME Differ # {} PROVE FALSE
        OBVIOUS
    <2>2. Differ \in SUBSET Nat
        OBVIOUS
    <2>3. PICK i \in Differ : \A j \in Differ : i <= j
        BY <2>1, <2>2, LeastNumber
    <2>4. i \in 1..c /\ f[i] # g[i] /\ f[i] \in Nat /\ g[i] \in Nat /\ f[i] \in S /\ g[i] \in S
        BY <1>2, <1>4
    <2>5. \A j \in 1..c : j < i => f[j] = g[j]
        BY <2>3, <2>4
    <2>6. PICK a \in 1..c : g[a] = f[i]
        BY <1>4, <2>4
    <2>7. PICK b \in 1..c : f[b] = g[i]
        BY <1>2, <2>4
    <2>8. CASE f[i] < g[i]
        <3>1. CASE a < i
            <4>1. f[a] = f[i] /\ f[a] < f[i]
                BY <1>2, <2>4, <2>5, <2>6, <3>1
            <4>2. QED
                BY <2>4, <4>1
        <3>2. CASE a = i
            BY <2>4, <2>6, <3>2
        <3>3. CASE i < a
            <4>1. g[i] < f[i]
                BY <1>4, <2>4, <2>6, <3>3
            <4>2. QED
                BY <2>4, <2>8, <4>1
        <3>4. QED
            BY <2>4, <3>1, <3>2, <3>3
    <2>9. CASE g[i] < f[i]
        <3>1. CASE b < i
            <4>1. g[b] = g[i] /\ g[b] < g[i]
                BY <1>4, <2>4, <2>5, <2>7, <3>1
            <4>2. QED
                BY <2>4, <4>1
        <3>2. CASE b = i
            BY <2>4, <2>7, <3>2
        <3>3. CASE i < b
            <4>1. f[i] < g[i]
                BY <1>2, <2>4, <2>7, <3>3
            <4>2. QED
                BY <2>4, <2>9, <4>1
        <3>4. QED
            BY <2>4, <3>1, <3>2, <3>3
    <2>10. QED
        BY <2>4, <2>8, <2>9
<1>6. f = g
    BY <1>2, <1>4, <1>5
<1>7. QED
    BY <1>1, <1>3, <1>6

\* p lists, in increasing order, the n positions at which s has a member of S.
Places(p, n, s, S) ==
    /\ n \in Nat
    /\ p \in [1..n -> Positions(s, S)]
    /\ \A i, j \in 1..n : i < j => p[i] < p[j]
    /\ \A x \in Positions(s, S) : \E i \in 1..n : p[i] = x

\* The elements of s at those positions are what is selected.
LEMMA SelectedAt ==
    ASSUME NEW T, NEW s \in Seq(T), NEW S, NEW n, NEW p, Places(p, n, s, S)
    PROVE  /\ Len(Selected(s, S)) = n
           /\ \A k \in 1..n : Selected(s, S)[k] = s[p[k]]
<1>1. /\ Positions(s, S) \in SUBSET Nat
      /\ Positions(s, S) = {i \in DOMAIN s : s[i] \in S}
    BY DEF Positions
<1>2. IsFiniteSet(Positions(s, S))
    BY SelectedElements
<1>3. Ascending(Positions(s, S)) = p
    <2>1. /\ n \in Nat /\ p \in [1..n -> Positions(s, S)]
          /\ \A i, j \in 1..n : i < j => p[i] < p[j]
          /\ \A x \in Positions(s, S) : \E i \in 1..n : p[i] = x
        BY DEF Places
    <2>2. QED
        BY <1>1, <1>2, <2>1, AscendingUnique
<1>4. Selected(s, S) = [k \in DOMAIN p |-> s[p[k]]]
    BY <1>1, <1>3 DEF Selected
<1>5. DOMAIN p = 1..n /\ n \in Nat
    BY DEF Places
<1>6. QED
    BY <1>4, <1>5

\* There are such positions.
LEMMA SelectedPlaces ==
    ASSUME NEW T, NEW s \in Seq(T), NEW S
    PROVE  \E p, n : Places(p, n, s, S)
<1>1. PICK I : I = Positions(s, S)
    OBVIOUS
<1>2. I \in SUBSET Nat
    BY <1>1 DEF Positions
<1>3. IsFiniteSet(I)
    BY <1>1, SelectedElements
<1>4. PICK n, p : n = Cardinality(I) /\ p = Ascending(I)
    OBVIOUS
<1>5. /\ n \in Nat /\ p \in [1..n -> I]
      /\ \A i, j \in 1..n : i < j => p[i] < p[j]
      /\ \A x \in I : \E i \in 1..n : p[i] = x
    BY <1>2, <1>3, <1>4, AscendingSorts DEF IsAscending
<1>6. Places(p, n, s, S)
    BY <1>1, <1>5 DEF Places
<1>7. QED
    BY <1>6
=============================================================================
