---------------------------- MODULE TodoeyProofs ----------------------------
(***************************************************************************)
(* What is proved of the to-do app, for every set of categories, items and *)
(* searches.                                                               *)
(*                                                                         *)
(* The argument has two halves.  The first is about sequences: taking an   *)
(* object out of the Realm takes exactly its row out of the live results,  *)
(* whichever of the two orders they are in.  The second is an inductive    *)
(* invariant: as long as the process lives the rows of both tables are the *)
(* results, so the row that is swiped is the object that is deleted, and   *)
(* the count the table view expects is the count it finds.                 *)
(***************************************************************************)
EXTENDS Todoey, SortingProofs

-----------------------------------------------------------------------------
(* Sequences with an entry taken out *)

\* The sequence q without its i-th entry.
Without(q, i) == [k \in 1..(Len(q) - 1) |-> IF k < i THEN q[k] ELSE q[k + 1]]

\* No entry occurs twice.
Distinct(q) == \A i, j \in 1..Len(q) : q[i] = q[j] => i = j

\* One entry fewer, and those behind it a place nearer the front.
LEMMA WithoutType ==
    ASSUME NEW T, NEW q \in Seq(T), NEW i \in 1..Len(q)
    PROVE  /\ Len(q) \in Nat /\ Len(q) > 0
           /\ Without(q, i) \in Seq(T)
           /\ Len(Without(q, i)) = Len(q) - 1
           /\ \A k \in 1..(Len(q) - 1) :
                 Without(q, i)[k] = IF k < i THEN q[k] ELSE q[k + 1]
<1>1. PICK n \in Nat : n = Len(q)
    OBVIOUS
<1>2. n > 0 /\ n - 1 \in Nat /\ \A k \in 1..n : q[k] \in T
    BY <1>1, ElementOfSeq
<1>3. \A k \in 1..(n - 1) : k \in 1..n /\ k + 1 \in 1..n
    BY <1>1, <1>2
<1>4. \A k \in 1..(n - 1) : (IF k < i THEN q[k] ELSE q[k + 1]) \in T
    BY <1>2, <1>3
<1>5. Without(q, i) \in [1..(n - 1) -> T]
    BY <1>1, <1>4 DEF Without
<1>6. Without(q, i) \in Seq(T) /\ Len(Without(q, i)) = n - 1
    BY <1>2, <1>5
<1>7. QED
    BY <1>1, <1>2, <1>6 DEF Without

\* A sequence is known by its length and its entries.
LEMMA IsWithout ==
    ASSUME NEW T, NEW q \in Seq(T), NEW i \in 1..Len(q), NEW r \in Seq(T),
           Len(r) = Len(q) - 1,
           \A k \in 1..(Len(q) - 1) : r[k] = IF k < i THEN q[k] ELSE q[k + 1]
    PROVE  r = Without(q, i)
<1>1. r = [k \in 1..Len(r) |-> r[k]]
    OBVIOUS
<1>2. QED
    BY <1>1 DEF Without

\* What the tables do when a row goes: RemoveAt.
LEMMA RemoveAtIsWithout ==
    ASSUME NEW T, NEW q \in Seq(T), NEW i \in 1..Len(q)
    PROVE  RemoveAt(q, i) = Without(q, i)
<1>1. PICK n \in Nat : n = Len(q)
    OBVIOUS
<1>2. i \in 1..n /\ n > 0 /\ \A k \in 1..n : q[k] \in T
    BY <1>1, ElementOfSeq
<1>3. PICK a, b : a = SubSeq(q, 1, i - 1) /\ b = SubSeq(q, i + 1, n)
    OBVIOUS
<1>4. a \in Seq(T) /\ Len(a) = i - 1 /\ \A k \in 1..(i - 1) : a[k] = q[k]
    <2>1. \A k \in 1..(i - 1) : q[k] \in T
        BY <1>2
    <2>2. QED
        BY <1>1, <1>2, <1>3, <2>1, SubSeqProperties
<1>5. b \in Seq(T) /\ Len(b) = n - i /\ \A k \in 1..(n - i) : b[k] = q[i + k]
    <2>1. \A k \in (i + 1)..n : q[k] \in T
        BY <1>2
    <2>2. /\ b \in Seq(T)
          /\ Len(b) = IF i + 1 <= n THEN n - (i + 1) + 1 ELSE 0
          /\ \A k \in 1..(n - (i + 1) + 1) : b[k] = q[(i + 1) + k - 1]
        BY <1>1, <1>2, <1>3, <2>1, SubSeqProperties
    <2>3. n - (i + 1) + 1 = n - i /\ (~(i + 1 <= n) => n - i = 0)
        BY <1>2
    <2>4. \A k \in 1..(n - i) : (i + 1) + k - 1 = i + k
        BY <1>2
    <2>5. QED
        BY <2>2, <2>3, <2>4
<1>6. PICK r : r = RemoveAt(q, i)
    OBVIOUS
<1>7. r = a \o b
    BY <1>1, <1>3, <1>6 DEF RemoveAt
<1>8. /\ r \in Seq(T) /\ Len(r) = n - 1
      /\ \A k \in 1..(n - 1) : r[k] = IF k < i THEN q[k] ELSE q[k + 1]
    <2>1. /\ r \in Seq(T) /\ Len(r) = (i - 1) + (n - i)
          /\ \A k \in 1..((i - 1) + (n - i)) : r[k] = IF k <= i - 1 THEN a[k] ELSE b[k - (i - 1)]
        <3>1. /\ a \o b \in Seq(T) /\ Len(a \o b) = Len(a) + Len(b)
              /\ \A k \in 1..(Len(a) + Len(b)) :
                    (a \o b)[k] = IF k <= Len(a) THEN a[k] ELSE b[k - Len(a)]
            BY <1>4, <1>5, ConcatProperties
        <3>2. QED
            BY <1>4, <1>5, <1>7, <3>1, Zenon
    <2>2. (i - 1) + (n - i) = n - 1
        BY <1>2
    <2>3. \A k \in 1..(n - 1) : k < i => r[k] = q[k]
        <3>1. \A k \in 1..(n - 1) : k < i => k \in 1..(i - 1) /\ k <= i - 1
            BY <1>2
        <3>2. QED
            BY <2>1, <2>2, <3>1, <1>4
    <2>4. \A k \in 1..(n - 1) : ~(k < i) => r[k] = q[k + 1]
        <3>1. \A k \in 1..(n - 1) : ~(k < i) =>
                /\ ~(k <= i - 1)
                /\ k - (i - 1) \in 1..(n - i)
                /\ i + (k - (i - 1)) = k + 1
            BY <1>2
        <3>2. QED
            BY <2>1, <2>2, <3>1, <1>5
    <2>5. QED
        BY <2>1, <2>2, <2>3, <2>4
<1>9. r = [k \in 1..(n - 1) |-> IF k < i THEN q[k] ELSE q[k + 1]]
    <2>1. r = [k \in 1..Len(r) |-> r[k]]
        BY <1>8
    <2>2. QED
        BY <1>8, <2>1
<1>10. QED
    BY <1>1, <1>6, <1>9 DEF Without

\* Reading backwards, the entry that goes is as far from the end.
LEMMA ReverseWithout ==
    ASSUME NEW T, NEW q \in Seq(T), NEW i \in 1..Len(q)
    PROVE  /\ Len(q) + 1 - i \in 1..Len(Reverse(q))
           /\ Reverse(q)[Len(q) + 1 - i] = q[i]
           /\ Reverse(Without(q, i)) = Without(Reverse(q), Len(q) + 1 - i)
<1>1. PICK n \in Nat : n = Len(q)
    OBVIOUS
<1>2. PICK j : j = n + 1 - i
    OBVIOUS
<1>3. i \in 1..n /\ j \in 1..n /\ n - 1 \in Nat /\ i = n + 1 - j
    BY <1>1, <1>2
<1>4. PICK r : r = Reverse(q)
    OBVIOUS
<1>5. r = [k \in 1..n |-> q[(n - k) + 1]]
    BY <1>1, <1>4 DEF Reverse
<1>6. Len(r) = n
    BY <1>5
<1>7. r[j] = q[i]
    <2>1. (n - j) + 1 = i
        BY <1>3
    <2>2. QED
        BY <1>3, <1>5, <2>1
<1>8. PICK w : w = Without(q, i)
    OBVIOUS
<1>9. w = [k \in 1..(n - 1) |-> IF k < i THEN q[k] ELSE q[k + 1]]
    BY <1>1, <1>8 DEF Without
<1>10. Len(w) = n - 1
    BY <1>3, <1>9
<1>11. Reverse(w) = [k \in 1..(n - 1) |-> w[((n - 1) - k) + 1]]
    BY <1>10 DEF Reverse
<1>12. Without(r, j) = [k \in 1..(n - 1) |-> IF k < j THEN r[k] ELSE r[k + 1]]
    BY <1>6 DEF Without
<1>13. ASSUME NEW k \in 1..(n - 1)
       PROVE  w[((n - 1) - k) + 1] = IF k < j THEN r[k] ELSE r[k + 1]
    <2>1. /\ ((n - 1) - k) + 1 \in 1..(n - 1)
          /\ ((n - 1) - k) + 1 = n - k
          /\ k \in 1..n /\ k + 1 \in 1..n
          /\ (n - k) + 1 = (n - k) + 1
          /\ (n - (k + 1)) + 1 = n - k
          /\ k < j <=> ~(n - k < i)
        BY <1>3
    <2>2. w[n - k] = IF n - k < i THEN q[n - k] ELSE q[(n - k) + 1]
        BY <1>9, <2>1
    <2>3. r[k] = q[(n - k) + 1] /\ r[k + 1] = q[n - k]
        BY <1>5, <2>1
    <2>4. QED
        BY <2>1, <2>2, <2>3
<1>14. Reverse(w) = Without(r, j)
    BY <1>11, <1>12, <1>13
<1>15. QED
    BY <1>1, <1>2, <1>3, <1>4, <1>6, <1>7, <1>8, <1>14

\* Where no entry occurs twice, the entry is gone.
LEMMA WithoutDistinct ==
    ASSUME NEW T, NEW q \in Seq(T), Distinct(q), NEW i \in 1..Len(q)
    PROVE  /\ Distinct(Without(q, i))
           /\ ToSet(Without(q, i)) = ToSet(q) \ {q[i]}
<1>1. PICK n \in Nat : n = Len(q)
    OBVIOUS
<1>2. PICK w : w = Without(q, i)
    OBVIOUS
<1>3. /\ Len(w) = n - 1 /\ n > 0
      /\ \A k \in 1..(n - 1) : w[k] = IF k < i THEN q[k] ELSE q[k + 1]
    <2>1. n > 0 /\ n - 1 \in Nat
        BY <1>1
    <2>2. w = [k \in 1..(n - 1) |-> IF k < i THEN q[k] ELSE q[k + 1]]
        BY <1>1, <1>2 DEF Without
    <2>3. QED
        BY <2>1, <2>2
<1>4. \A a, b \in 1..n : q[a] = q[b] => a = b
    BY <1>1 DEF Distinct
<1>5. ASSUME NEW a \in 1..(n - 1), NEW b \in 1..(n - 1), w[a] = w[b]
      PROVE  a = b
    <2>1. a \in 1..n /\ a + 1 \in 1..n /\ b \in 1..n /\ b + 1 \in 1..n
        BY <1>1
    <2>2. CASE a < i /\ b < i
        BY <1>3, <1>4, <1>5, <2>1, <2>2
    <2>3. CASE a < i /\ ~(b < i)
        <3>1. a = b + 1
            BY <1>3, <1>4, <1>5, <2>1, <2>3
        <3>2. QED
            BY <2>1, <2>3, <3>1
    <2>4. CASE ~(a < i) /\ b < i
        <3>1. a + 1 = b
            BY <1>3, <1>4, <1>5, <2>1, <2>4
        <3>2. QED
            BY <2>1, <2>4, <3>1
    <2>5. CASE ~(a < i) /\ ~(b < i)
        <3>1. a + 1 = b + 1
            BY <1>3, <1>4, <1>5, <2>1, <2>5
        <3>2. QED
            BY <2>1, <3>1
    <2>6. QED
        BY <2>2, <2>3, <2>4, <2>5
<1>6. ASSUME NEW a \in 1..(n - 1)
      PROVE  \E b \in 1..n : b # i /\ w[a] = q[b]
    <2>1. CASE a < i
        <3>1. a \in 1..n /\ a # i
            BY <1>1, <2>1
        <3>2. QED
            BY <1>3, <2>1, <3>1
    <2>2. CASE ~(a < i)
        <3>1. a + 1 \in 1..n /\ a + 1 # i
            BY <1>1, <2>2
        <3>2. QED
            BY <1>3, <2>2, <3>1
    <2>3. QED
        BY <2>1, <2>2
<1>7. ASSUME NEW b \in 1..n, b # i
      PROVE  \E a \in 1..(n - 1) : w[a] = q[b]
    <2>1. CASE b < i
        <3>1. b \in 1..(n - 1)
            BY <1>1, <2>1
        <3>2. QED
            BY <1>3, <2>1, <3>1
    <2>2. CASE ~(b < i)
        <3>1. b - 1 \in 1..(n - 1) /\ ~(b - 1 < i) /\ (b - 1) + 1 = b
            BY <1>1, <1>7, <2>2
        <3>2. w[b - 1] = q[b]
            BY <1>3, <3>1
        <3>3. QED
            BY <3>1, <3>2
    <2>3. QED
        BY <2>1, <2>2
<1>8. ToSet(w) = {w[a] : a \in 1..(n - 1)} /\ ToSet(q) = {q[b] : b \in 1..n}
    <2>1. DOMAIN w = 1..(n - 1) /\ DOMAIN q = 1..n
        BY <1>1, <1>2, <1>3, WithoutType
    <2>2. QED
        BY <2>1 DEF ToSet
<1>9. ToSet(w) = ToSet(q) \ {q[i]}
    <2>1. ToSet(w) \subseteq ToSet(q) \ {q[i]}
        BY <1>1, <1>4, <1>6, <1>8
    <2>2. ToSet(q) \ {q[i]} \subseteq ToSet(w)
        BY <1>7, <1>8
    <2>3. QED
        BY <2>1, <2>2
<1>10. QED
    BY <1>2, <1>3, <1>5, <1>9 DEF Distinct

-----------------------------------------------------------------------------
(* Results with an object taken out *)

\* The list by title, when an item goes.
LEMMA AscendingWithout ==
    ASSUME NEW S \in SUBSET Nat, IsFiniteSet(S), NEW k \in 1..Len(Ascending(S))
    PROVE  Ascending(S \ {Ascending(S)[k]}) = Without(Ascending(S), k)
<1>1. PICK f, n : f = Ascending(S) /\ n = Cardinality(S)
    OBVIOUS
<1>2. /\ n \in Nat /\ f \in [1..n -> S] /\ f \in Seq(S) /\ Len(f) = n
      /\ \A i, j \in 1..n : i < j => f[i] < f[j]
      /\ \A x \in S : \E i \in 1..n : f[i] = x
    BY <1>1, AscendingSorts DEF IsAscending
<1>3. k \in 1..n /\ n - 1 \in Nat /\ n > 0
    BY <1>1, <1>2
<1>4. PICK w : w = Without(f, k)
    OBVIOUS
<1>5. w = [i \in 1..(n - 1) |-> IF i < k THEN f[i] ELSE f[i + 1]]
    BY <1>2, <1>4 DEF Without
<1>6. \A i \in 1..n : f[i] \in S /\ f[i] \in Nat
    BY <1>2
<1>7. \A i \in 1..n : i # k => f[i] # f[k]
    <2>1. ASSUME NEW i \in 1..n, i # k PROVE f[i] # f[k]
        <3>1. i < k \/ k < i
            BY <1>3, <2>1
        <3>2. f[i] < f[k] \/ f[k] < f[i]
            BY <1>2, <1>3, <3>1
        <3>3. QED
            BY <1>3, <1>6, <3>2
    <2>2. QED
        BY <2>1
<1>8. \A i \in 1..(n - 1) : /\ i \in 1..n /\ i + 1 \in 1..n
                            /\ i < k => i # k
                            /\ ~(i < k) => i + 1 # k
    BY <1>2, <1>3
<1> DEFINE R == S \ {f[k]}
<1>9. w \in [1..(n - 1) -> R]
    BY <1>5, <1>6, <1>7, <1>8
<1>10. ASSUME NEW i \in 1..(n - 1), NEW j \in 1..(n - 1), i < j
       PROVE  w[i] < w[j]
    <2>1. PICK a \in 1..n, b \in 1..n : w[i] = f[a] /\ w[j] = f[b] /\ a < b
        <3>1. CASE j < k
            <4>1. i < k
                BY <1>3, <1>10, <3>1
            <4>2. QED
                BY <1>5, <1>8, <1>10, <3>1, <4>1
        <3>2. CASE i < k /\ ~(j < k)
            <4>1. i < j + 1
                BY <1>10
            <4>2. QED
                BY <1>5, <1>8, <3>2, <4>1
        <3>3. CASE ~(i < k)
            <4>1. ~(j < k) /\ i + 1 < j + 1
                BY <1>3, <1>10, <3>3
            <4>2. QED
                BY <1>5, <1>8, <3>3, <4>1
        <3>4. QED
            BY <3>1, <3>2, <3>3
    <2>2. QED
        BY <1>2, <2>1
<1>11. ASSUME NEW x \in R
       PROVE  \E i \in 1..(n - 1) : w[i] = x
    <2>1. PICK a \in 1..n : f[a] = x
        BY <1>2
    <2>2. a # k
        BY <2>1
    <2>3. CASE a < k
        <3>1. a \in 1..(n - 1)
            BY <1>2, <1>3, <2>3
        <3>2. QED
            BY <1>5, <2>1, <2>3, <3>1
    <2>4. CASE ~(a < k)
        <3>1. a - 1 \in 1..(n - 1) /\ ~(a - 1 < k) /\ (a - 1) + 1 = a
            BY <1>2, <1>3, <2>2, <2>4
        <3>2. w[a - 1] = x
            BY <1>5, <2>1, <3>1
        <3>3. QED
            BY <3>1, <3>2
    <2>5. QED
        BY <2>3, <2>4
<1>12. R \in SUBSET Nat /\ IsFiniteSet(R)
    BY FS_Subset
<1> HIDE DEF R
<1>13. Ascending(R) = w
    BY <1>3, <1>9, <1>10, <1>11, <1>12, AscendingUnique
<1>14. QED
    BY <1>1, <1>4, <1>13 DEF R

\* The Realm itself, when an item goes.
LEMMA SelectedAllBut ==
    ASSUME NEW T, NEW s \in Seq(T), Distinct(s), NEW j \in 1..Len(s)
    PROVE  Selected(s, T \ {s[j]}) = Without(s, j)
<1>1. PICK n \in Nat : n = Len(s)
    OBVIOUS
<1>2. /\ j \in 1..n /\ n - 1 \in Nat
      /\ \A i \in 1..n : s[i] \in T
      /\ \A i \in 1..n : s[i] = s[j] => i = j
    BY <1>1, ElementOfSeq DEF Distinct
<1> DEFINE p == [m \in 1..(n - 1) |-> IF m < j THEN m ELSE m + 1]
           U == T \ {s[j]}
<1>3. Positions(s, U) = (1..n) \ {j}
    BY <1>1, <1>2 DEF Positions
<1>4. p \in [1..(n - 1) -> Positions(s, U)]
    <2>1. ASSUME NEW m \in 1..(n - 1)
          PROVE  (IF m < j THEN m ELSE m + 1) \in (1..n) \ {j}
        BY <1>2
    <2>2. QED
        BY <1>3, <2>1
<1>5. \A a, b \in 1..(n - 1) : a < b => p[a] < p[b]
    BY <1>2
<1>6. ASSUME NEW x \in Positions(s, U)
      PROVE  \E m \in 1..(n - 1) : p[m] = x
    <2>1. x \in 1..n /\ x # j
        BY <1>3
    <2>2. CASE x < j
        <3>1. x \in 1..(n - 1)
            BY <1>2, <2>1, <2>2
        <3>2. QED
            BY <2>2, <3>1
    <2>3. CASE ~(x < j)
        <3>1. x - 1 \in 1..(n - 1) /\ ~(x - 1 < j) /\ (x - 1) + 1 = x
            BY <1>2, <2>1, <2>3
        <3>2. QED
            BY <3>1
    <2>4. QED
        BY <2>2, <2>3
<1> HIDE DEF U
<1>7. \A m \in 1..(n - 1) : p[m] = IF m < j THEN m ELSE m + 1
    OBVIOUS
<1> HIDE DEF p
<1>8. PICK d : d = n - 1
    OBVIOUS
<1>9. Places(p, d, s, U)
    BY <1>2, <1>4, <1>5, <1>6, <1>8 DEF Places
<1>10. PICK r : r = Selected(s, U)
    OBVIOUS
<1>11. /\ r \in Seq(T) /\ Len(r) = n - 1
       /\ \A m \in 1..(n - 1) : r[m] = IF m < j THEN s[m] ELSE s[m + 1]
    <2>1. r \in Seq(T) /\ Len(r) = d /\ \A m \in 1..d : r[m] = s[p[m]]
        BY <1>9, <1>10, SelectedAt, SelectedElements
    <2>2. QED
        BY <1>7, <1>8, <2>1
<1>12. r = Without(s, j)
    BY <1>1, <1>2, <1>11, IsWithout
<1>13. QED
    BY <1>10, <1>12 DEF U

\* The list in the Realm's order, when an item goes.
LEMMA SelectedWithout ==
    ASSUME NEW T, NEW s \in Seq(T), Distinct(s), NEW S,
           NEW j \in 1..Len(s), NEW k \in 1..Len(Selected(s, S)), Selected(s, S)[k] = s[j]
    PROVE  Selected(Without(s, j), S \ {s[j]}) = Without(Selected(s, S), k)
<1>1. PICK l \in Nat : l = Len(s)
    OBVIOUS
<1>2. PICK r : r = Selected(s, S)
    OBVIOUS
<1>3. PICK p, n : Places(p, n, s, S)
    BY SelectedPlaces
<1>4. /\ n \in Nat /\ p \in [1..n -> Positions(s, S)]
      /\ \A a, b \in 1..n : a < b => p[a] < p[b]
      /\ \A x \in Positions(s, S) : \E a \in 1..n : p[a] = x
      /\ r \in Seq(T) /\ Len(r) = n /\ \A m \in 1..n : r[m] = s[p[m]]
    <2>1. /\ n \in Nat /\ p \in [1..n -> Positions(s, S)]
          /\ \A a, b \in 1..n : a < b => p[a] < p[b]
          /\ \A x \in Positions(s, S) : \E a \in 1..n : p[a] = x
        BY <1>3 DEF Places
    <2>2. r \in Seq(T)
        BY <1>2, SelectedElements
    <2>3. Len(r) = n /\ \A m \in 1..n : r[m] = s[p[m]]
        BY <1>2, <1>3, SelectedAt
    <2>4. QED
        BY <2>1, <2>2, <2>3
<1>5. Len(r) = n /\ k \in 1..n /\ n - 1 \in Nat /\ r[k] = s[j]
    BY <1>2, <1>4
<1>6. \A m \in 1..n : p[m] \in 1..l /\ p[m] \in Nat /\ s[p[m]] \in S
    BY <1>1, <1>4 DEF Positions
<1>7. \A a, b \in 1..l : s[a] = s[b] => a = b
    BY <1>1 DEF Distinct
<1>8. p[k] = j
    BY <1>1, <1>4, <1>5, <1>6, <1>7
<1>9. PICK w : w = Without(s, j)
    OBVIOUS
<1>10. /\ w \in Seq(T) /\ Len(w) = l - 1
       /\ \A m \in 1..(l - 1) : w[m] = IF m < j THEN s[m] ELSE s[m + 1]
    <2>1. /\ Without(s, j) \in Seq(T) /\ Len(Without(s, j)) = Len(s) - 1
          /\ \A m \in 1..(Len(s) - 1) :
                Without(s, j)[m] = IF m < j THEN s[m] ELSE s[m + 1]
        BY WithoutType, ZenonT(60)
    <2>2. QED
        BY <1>1, <1>9, <2>1, Zenon
<1> DEFINE U == S \ {s[j]}
           q == [m \in 1..(n - 1) |-> IF m < k THEN p[m] ELSE p[m + 1] - 1]
<1>11. ASSUME NEW m \in 1..(n - 1)
       PROVE  /\ m < k => /\ m \in 1..n
                          /\ q[m] = p[m] /\ p[m] < j /\ p[m] \in 1..(l - 1)
              /\ ~(m < k) => /\ m + 1 \in 1..n
                             /\ q[m] = p[m + 1] - 1 /\ j <= p[m + 1] - 1
                             /\ p[m + 1] - 1 \in 1..(l - 1) /\ (p[m + 1] - 1) + 1 = p[m + 1]
    <2>1. m \in 1..n /\ m + 1 \in 1..n
        BY <1>5
    <2>2. ASSUME m < k PROVE p[m] < j /\ p[m] \in 1..(l - 1)
        <3>1. p[m] < p[k]
            BY <1>4, <1>5, <2>1, <2>2
        <3>2. QED
            BY <1>1, <1>6, <1>8, <2>1, <3>1
    <2>3. ASSUME ~(m < k)
          PROVE  j <= p[m + 1] - 1 /\ p[m + 1] - 1 \in 1..(l - 1)
                 /\ (p[m + 1] - 1) + 1 = p[m + 1]
        <3>1. k < m + 1
            BY <1>5, <2>3
        <3>2. p[k] < p[m + 1]
            BY <1>4, <1>5, <2>1, <3>1
        <3>3. QED
            BY <1>1, <1>6, <1>8, <2>1, <3>2
    <2>4. QED
        BY <2>1, <2>2, <2>3
<1>12. ASSUME NEW m \in 1..(n - 1)
       PROVE  /\ q[m] \in 1..(l - 1)
              /\ w[q[m]] = IF m < k THEN r[m] ELSE r[m + 1]
              /\ w[q[m]] \in U
    <2>1. CASE m < k
        <3>1. w[q[m]] = s[p[m]] /\ m \in 1..n
            BY <1>10, <1>11, <2>1
        <3>2. p[m] # j /\ p[m] \in 1..l
            BY <1>1, <1>6, <1>11, <2>1, <3>1
        <3>3. QED
            BY <1>1, <1>4, <1>6, <1>7, <1>11, <2>1, <3>1, <3>2
    <2>2. CASE ~(m < k)
        <3>1. q[m] = p[m + 1] - 1 /\ p[m + 1] - 1 \in 1..(l - 1) /\ m + 1 \in 1..n
            BY <1>11, <2>2
        <3>2. ~(p[m + 1] - 1 < j) /\ (p[m + 1] - 1) + 1 = p[m + 1] /\ p[m + 1] # j
            BY <1>1, <1>6, <1>11, <2>2, <3>1
        <3>3. w[q[m]] = s[p[m + 1]]
            BY <1>10, <3>1, <3>2
        <3>4. QED
            BY <1>1, <1>4, <1>6, <1>7, <2>2, <3>1, <3>2, <3>3
    <2>3. QED
        BY <2>1, <2>2
<1>13. q \in [1..(n - 1) -> Positions(w, U)]
    BY <1>10, <1>12 DEF Positions
<1>14. ASSUME NEW a \in 1..(n - 1), NEW b \in 1..(n - 1), a < b
       PROVE  q[a] < q[b]
    <2>1. CASE b < k
        <3>1. a < k
            BY <1>5, <1>14, <2>1
        <3>2. QED
            BY <1>4, <1>11, <1>14, <2>1, <3>1
    <2>2. CASE a < k /\ ~(b < k)
        <3>1. q[a] < j /\ q[a] \in Nat
            BY <1>11, <2>2
        <3>2. j <= q[b] /\ q[b] \in Nat
            BY <1>11, <2>2
        <3>3. QED
            BY <3>1, <3>2
    <2>3. CASE ~(a < k)
        <3>1. ~(b < k) /\ a + 1 < b + 1
            BY <1>5, <1>14, <2>3
        <3>2. p[a + 1] < p[b + 1] /\ a + 1 \in 1..n /\ b + 1 \in 1..n
            BY <1>4, <1>11, <2>3, <3>1
        <3>3. p[a + 1] \in Nat /\ p[b + 1] \in Nat
            BY <1>6, <3>2
        <3>4. q[a] = p[a + 1] - 1 /\ q[b] = p[b + 1] - 1
            BY <1>11, <2>3, <3>1
        <3>5. QED
            BY <3>2, <3>3, <3>4
    <2>4. QED
        BY <2>1, <2>2, <2>3
<1>15. ASSUME NEW x \in Positions(w, U)
       PROVE  \E m \in 1..(n - 1) : q[m] = x
    <2>1. x \in 1..(l - 1) /\ w[x] \in S
        BY <1>10 DEF Positions
    <2>2. CASE x < j
        <3>1. x \in 1..l /\ s[x] \in S
            BY <1>1, <1>10, <2>1, <2>2
        <3>2. PICK a \in 1..n : p[a] = x
            BY <1>1, <1>4, <3>1 DEF Positions
        <3>3. a < k
            <4>1. ~(k < a) /\ a # k
                BY <1>1, <1>4, <1>5, <1>8, <2>1, <2>2, <3>2
            <4>2. QED
                BY <1>5, <4>1
        <3>4. a \in 1..(n - 1) /\ q[a] = p[a]
            BY <1>5, <3>3
        <3>5. QED
            BY <3>2, <3>4
    <2>3. CASE ~(x < j)
        <3>1. x + 1 \in 1..l /\ s[x + 1] \in S
            BY <1>1, <1>10, <2>1, <2>3
        <3>2. PICK a \in 1..n : p[a] = x + 1
            BY <1>1, <1>4, <3>1 DEF Positions
        <3>3. k < a
            <4>1. ~(a < k) /\ a # k
                BY <1>1, <1>4, <1>5, <1>8, <2>1, <2>3, <3>2
            <4>2. QED
                BY <1>5, <4>1
        <3>4. a - 1 \in 1..(n - 1) /\ ~(a - 1 < k) /\ (a - 1) + 1 = a
            BY <1>5, <3>3
        <3>5. q[a - 1] = p[a] - 1
            BY <3>4
        <3>6. q[a - 1] = x
            BY <2>1, <3>2, <3>5
        <3>7. QED
            BY <3>4, <3>6
    <2>4. QED
        BY <2>2, <2>3
<1> HIDE DEF U, q
<1>16. PICK d : d = n - 1
    OBVIOUS
<1>17. Places(q, d, w, U)
    BY <1>5, <1>13, <1>14, <1>15, <1>16 DEF Places
<1>18. PICK v : v = Selected(w, U)
    OBVIOUS
<1>19. /\ v \in Seq(T) /\ Len(v) = n - 1
       /\ \A m \in 1..(n - 1) : v[m] = IF m < k THEN r[m] ELSE r[m + 1]
    <2>1. v \in Seq(T) /\ Len(v) = d /\ \A m \in 1..d : v[m] = w[q[m]]
        BY <1>10, <1>17, <1>18, SelectedAt, SelectedElements
    <2>2. QED
        BY <1>12, <1>16, <2>1
<1>20. v = Without(r, k)
    <2>1. r \in Seq(T) /\ k \in 1..Len(r) /\ Len(v) = Len(r) - 1
        BY <1>4, <1>5, <1>19
    <2>2. \A m \in 1..(Len(r) - 1) : v[m] = IF m < k THEN r[m] ELSE r[m + 1]
        BY <1>5, <1>19
    <2>3. QED
        BY <1>19, <2>1, <2>2, IsWithout
<1>21. QED
    BY <1>2, <1>9, <1>18, <1>20 DEF U

-----------------------------------------------------------------------------
(* The live results and their cells, of any Realm *)

\* TodoItems and Cells, with what they read as arguments.
Results(realmItems, found, newest) ==
    IF newest THEN Selected(Reverse(realmItems), found) ELSE Ascending(found)

CellsOf(results, checked) ==
    [n \in DOMAIN results |-> [item |-> results[n], checked |-> results[n] \in checked]]

\* Before and after a step.
LEMMA CellsAreOfResults ==
    /\ TodoItems = Results(items, Found(selected, filters), newestFirst)
    /\ Cells = CellsOf(TodoItems, done)
    /\ TodoItems' = Results(items', Found(selected, filters)', newestFirst')
    /\ Cells' = CellsOf(TodoItems', done')
BY Zenon DEF TodoItems, Cells, Results, CellsOf

\* The entries of a sequence are finitely many.
LEMMA ElementsFinite ==
    ASSUME NEW T, NEW q \in Seq(T)
    PROVE  IsFiniteSet(ToSet(q)) /\ ToSet(q) \subseteq T
<1>1. DOMAIN q = 1..Len(q) /\ Len(q) \in Nat /\ \A i \in 1..Len(q) : q[i] \in T
    BY ElementOfSeq
<1>2. ToSet(q) = {q[i] : i \in 1..Len(q)}
    BY <1>1 DEF ToSet
<1>3. q \in Surjection(1..Len(q), ToSet(q))
    <2>1. q \in [1..Len(q) -> ToSet(q)]
        BY <1>1, <1>2
    <2>2. \A x \in ToSet(q) : \E i \in 1..Len(q) : q[i] = x
        BY <1>2
    <2>3. QED
        BY <2>1, <2>2, Fun_IsSurj
<1>4. IsFiniteSet(1..Len(q))
    BY <1>1, FS_Interval
<1>5. QED
    BY <1>1, <1>2, <1>3, <1>4, FS_Surjection

\* Read backwards: the same entries.
LEMMA ReverseType ==
    ASSUME NEW T, NEW q \in Seq(T)
    PROVE  /\ Reverse(q) \in Seq(T) /\ Len(Reverse(q)) = Len(q)
           /\ ToSet(Reverse(q)) = ToSet(q)
           /\ Distinct(q) => Distinct(Reverse(q))
<1>0. PICK n \in Nat : n = Len(q)
    OBVIOUS
<1>1. PICK r : r = Reverse(q)
    OBVIOUS
<1>2. r = [k \in 1..n |-> q[(n - k) + 1]] /\ \A k \in 1..n : q[k] \in T
    BY <1>0, <1>1, ElementOfSeq DEF Reverse
<1>3. \A k \in 1..n : (n - k) + 1 \in 1..n /\ (n - ((n - k) + 1)) + 1 = k
    OBVIOUS
<1>4. r \in [1..n -> T]
    BY <1>2, <1>3
<1>5. r \in Seq(T) /\ Len(r) = n /\ \A k \in 1..n : r[k] = q[(n - k) + 1]
    BY <1>2, <1>4
<1>6. ToSet(q) = {q[k] : k \in 1..n} /\ ToSet(r) = {r[k] : k \in 1..n}
    <2>1. DOMAIN q = 1..n /\ DOMAIN r = 1..n
        BY <1>0, <1>1, <1>5
    <2>2. QED
        BY <2>1 DEF ToSet
<1>7. ToSet(r) = ToSet(q)
    <2>1. ToSet(r) \subseteq ToSet(q)
        BY <1>3, <1>5, <1>6
    <2>2. \A k \in 1..n : q[k] = r[(n - k) + 1]
        BY <1>3, <1>5
    <2>3. ToSet(q) \subseteq ToSet(r)
        BY <1>3, <1>6, <2>2
    <2>4. QED
        BY <2>1, <2>3
<1>8. ASSUME Distinct(q) PROVE Distinct(r)
    <2>1. ASSUME NEW a \in 1..n, NEW b \in 1..n, r[a] = r[b] PROVE a = b
        <3>1. (n - a) + 1 = (n - b) + 1
            BY <1>0, <1>1, <1>3, <1>5, <1>8, <2>1 DEF Distinct
        <3>2. QED
            BY <3>1
    <2>2. QED
        BY <1>5, <2>1 DEF Distinct
<1>9. QED
    BY <1>0, <1>1, <1>5, <1>7, <1>8

\* The results are the items that were found, each on a row.
LEMMA ResultsAreFound ==
    ASSUME NEW its \in Seq(Item), NEW found \in SUBSET ToSet(its), NEW newest
    PROVE  /\ Results(its, found, newest) \in Seq(Item)
           /\ ToSet(Results(its, found, newest)) = found
<1>1. ToSet(its) \subseteq Item /\ IsFiniteSet(found) /\ found \in SUBSET Nat /\ found \subseteq Item
    <2>1. IsFiniteSet(ToSet(its)) /\ ToSet(its) \subseteq Item
        BY ElementsFinite
    <2>2. QED
        BY <2>1, FS_Subset, TodoeyAssumption
<1>2. CASE newest
    <2>1. PICK q, r : q = Reverse(its) /\ r = Selected(q, found)
        OBVIOUS
    <2>2. q \in Seq(Item) /\ ToSet(q) = ToSet(its)
        BY <2>1, ReverseType
    <2>3. r \in Seq(Item) /\ IsSelection(r, q, found)
        BY <2>1, <2>2, SelectedElements
    <2>4. /\ ToSet(r) = {r[k] : k \in 1..Len(r)}
          /\ ToSet(q) = {q[k] : k \in 1..Len(q)}
        <3>1. DOMAIN q = 1..Len(q) /\ DOMAIN r = 1..Len(r)
            BY <2>2, <2>3
        <3>2. QED
            BY <3>1 DEF ToSet
    <2>5. ToSet(r) = found
        <3>1. ToSet(r) \subseteq found
            BY <2>3, <2>4 DEF IsSelection
        <3>2. ASSUME NEW x \in found PROVE x \in ToSet(r)
            <4>1. PICK k \in 1..Len(q) : q[k] = x
                BY <2>2, <2>4
            <4>2. QED
                BY <2>3, <2>4, <4>1 DEF IsSelection
        <3>3. QED
            BY <3>1, <3>2
    <2>6. QED
        BY <1>2, <2>1, <2>3, <2>5 DEF Results
<1>3. CASE ~newest
    <2>1. PICK r : r = Ascending(found)
        OBVIOUS
    <2>2. /\ r \in Seq(found) /\ DOMAIN r = 1..Len(r)
          /\ \A x \in found : \E i \in 1..Len(r) : r[i] = x
        BY <1>1, <2>1, AscendingSorts DEF IsAscending
    <2>3. ToSet(r) = found
        <3>1. \A k \in 1..Len(r) : r[k] \in found
            BY <2>2, ElementOfSeq
        <3>2. QED
            BY <2>2, <3>1 DEF ToSet
    <2>4. r \in Seq(Item)
        <3>1. \A k \in 1..Len(r) : r[k] \in Item
            BY <1>1, <2>2, ElementOfSeq
        <3>2. Len(r) \in Nat /\ r = [k \in 1..Len(r) |-> r[k]]
            BY <2>2
        <3>3. QED
            BY <3>1, <3>2
    <2>5. QED
        BY <1>3, <2>1, <2>3, <2>4 DEF Results
<1>4. QED
    BY <1>2, <1>3

\* The cells are the rows of the results, in their order.
LEMMA CellsOfType ==
    ASSUME NEW r \in Seq(Item), NEW checked
    PROVE  /\ CellsOf(r, checked) \in Seq([item : Item, checked : BOOLEAN])
           /\ Len(CellsOf(r, checked)) = Len(r)
           /\ \A n \in 1..Len(r) :
                 CellsOf(r, checked)[n] = [item |-> r[n], checked |-> r[n] \in checked]
<1>1. DOMAIN r = 1..Len(r) /\ Len(r) \in Nat /\ \A n \in 1..Len(r) : r[n] \in Item
    BY ElementOfSeq
<1>2. CellsOf(r, checked) =
        [n \in 1..Len(r) |-> [item |-> r[n], checked |-> r[n] \in checked]]
    BY <1>1 DEF CellsOf
<1>3. \A n \in 1..Len(r) :
        [item |-> r[n], checked |-> r[n] \in checked] \in [item : Item, checked : BOOLEAN]
    BY <1>1
<1>4. QED
    BY <1>1, <1>2, <1>3

\* An item that leaves the Realm leaves its row, and nothing else moves.
LEMMA CellsWithout ==
    ASSUME NEW its \in Seq(Item), Distinct(its), NEW found \in SUBSET ToSet(its),
           NEW newest, NEW checked,
           NEW r, r = Results(its, found, newest),
           NEW row \in 1..Len(r),
           NEW j \in 1..Len(its), its[j] = r[row]
    PROVE  CellsOf(Results(Without(its, j), found \ {r[row]}, newest), checked \ {r[row]})
             = Without(CellsOf(r, checked), row)
<1>1. r \in Seq(Item) /\ ToSet(r) = found
    BY ResultsAreFound
<1>2. PICK i : i = r[row]
    OBVIOUS
<1>3. i \in Item /\ i \in found
    <2>1. DOMAIN r = 1..Len(r) /\ r[row] \in Item
        BY <1>1, ElementOfSeq
    <2>2. QED
        BY <1>1, <1>2, <2>1 DEF ToSet
<1>4. PICK w, rest : w = Without(its, j) /\ rest = found \ {i}
    OBVIOUS
<1>5. w \in Seq(Item) /\ ToSet(w) = ToSet(its) \ {i}
    BY <1>2, <1>4, WithoutType, WithoutDistinct
<1>6. rest \in SUBSET ToSet(w)
    BY <1>4, <1>5
<1>7. Results(w, rest, newest) = Without(r, row)
    <2>1. CASE newest
        <3>1. PICK q, v, l : /\ q = Reverse(its) /\ v = Reverse(w) /\ l = Len(its) + 1 - j
            OBVIOUS
        <3>2. q \in Seq(Item) /\ Distinct(q) /\ l \in 1..Len(q) /\ q[l] = i /\ v = Without(q, l)
            BY <1>2, <1>4, <3>1, ReverseType, ReverseWithout
        <3>3. r = Selected(q, found)
            BY <2>1, <3>1 DEF Results
        <3>4. row \in 1..Len(Selected(q, found)) /\ Selected(q, found)[row] = q[l]
            BY <1>2, <3>2, <3>3
        <3>5. Selected(Without(q, l), found \ {q[l]}) = Without(Selected(q, found), row)
            BY <3>2, <3>4, SelectedWithout
        <3>6. Selected(v, rest) = Without(r, row)
            BY <1>4, <3>2, <3>3, <3>5
        <3>7. QED
            BY <2>1, <3>1, <3>6 DEF Results
    <2>2. CASE ~newest
        <3>1. r = Ascending(found)
            BY <2>2 DEF Results
        <3>2. found \in SUBSET Nat /\ IsFiniteSet(found)
            BY ElementsFinite, FS_Subset, TodoeyAssumption
        <3>3. Ascending(rest) = Without(r, row)
            BY <1>2, <1>4, <3>1, <3>2, AscendingWithout
        <3>4. QED
            BY <2>2, <3>3 DEF Results
    <2>3. QED
        BY <2>1, <2>2
<1>8. PICK u, c, d : u = Without(r, row) /\ c = CellsOf(r, checked)
                     /\ d = CellsOf(u, checked \ {i})
    OBVIOUS
<1>9. /\ u \in Seq(Item) /\ Len(u) = Len(r) - 1
      /\ \A k \in 1..(Len(r) - 1) : u[k] = IF k < row THEN r[k] ELSE r[k + 1]
    <2>1. PICK q \in Seq(Item) : q = r
        BY <1>1
    <2>2. PICK a \in 1..Len(q) : a = row
        BY <2>1
    <2>3. /\ Without(q, a) \in Seq(Item) /\ Len(Without(q, a)) = Len(q) - 1
          /\ \A k \in 1..(Len(q) - 1) :
                Without(q, a)[k] = IF k < a THEN q[k] ELSE q[k + 1]
        BY WithoutType
    <2>4. QED
        BY <1>8, <2>1, <2>2, <2>3, Zenon
<1>10. \A k \in 1..Len(u) : u[k] # i
    <2>1. ToSet(u) = rest
        BY <1>4, <1>6, <1>7, <1>5, <1>8, ResultsAreFound
    <2>2. DOMAIN u = 1..Len(u)
        BY <1>9
    <2>3. QED
        BY <1>4, <2>1, <2>2 DEF ToSet
<1> DEFINE Row == [item : Item, checked : BOOLEAN]
<1>11. /\ c \in Seq(Row) /\ Len(c) = Len(r)
       /\ \A k \in 1..Len(r) : c[k] = [item |-> r[k], checked |-> r[k] \in checked]
       /\ d \in Seq(Row) /\ Len(d) = Len(u)
       /\ \A k \in 1..Len(u) : d[k] = [item |-> u[k], checked |-> u[k] \in checked \ {i}]
    <2>1. /\ c \in Seq(Row) /\ Len(c) = Len(r)
          /\ \A k \in 1..Len(r) : c[k] = [item |-> r[k], checked |-> r[k] \in checked]
        BY <1>1, <1>8, CellsOfType
    <2>2. PICK e : e = checked \ {i}
        OBVIOUS
    <2>3. d = CellsOf(u, e)
        BY <1>8, <2>2, Zenon
    <2>4. /\ d \in Seq(Row) /\ Len(d) = Len(u)
          /\ \A k \in 1..Len(u) : d[k] = [item |-> u[k], checked |-> u[k] \in e]
        BY <1>9, <2>3, CellsOfType
    <2>5. QED
        BY <2>1, <2>2, <2>4
<1> HIDE DEF Row
<1>12. ASSUME NEW k \in 1..(Len(c) - 1)
       PROVE  d[k] = IF k < row THEN c[k] ELSE c[k + 1]
    <2>1. k \in 1..Len(u) /\ k \in 1..Len(r) /\ k + 1 \in 1..Len(r)
        BY <1>1, <1>9, <1>11
    <2>2. d[k] = [item |-> u[k], checked |-> u[k] \in checked]
        BY <1>10, <1>11, <2>1
    <2>3. QED
        BY <1>9, <1>11, <2>1, <2>2
<1>13. d = Without(c, row)
    <2>1. row \in 1..Len(c) /\ Len(d) = Len(c) - 1
        BY <1>9, <1>11
    <2>2. QED
        BY <1>11, <1>12, <2>1, IsWithout
<1>14. QED
    BY <1>2, <1>4, <1>7, <1>8, <1>13

-----------------------------------------------------------------------------
(* The inductive invariant *)

ItemsDistinct == Distinct(items)

\* A new item is only asked for where it has a category to join.
AlertOnItems == alert = "item" => OnItems

\* An empty search bar goes with unsearched results.
SearchCleared == text = NoText => filters = {}

IInv ==
    /\ TypeOK
    /\ ItemsDistinct
    /\ AlertOnItems
    /\ SearchCleared
    /\ RowsAreResults

Row == [item : Item, checked : BOOLEAN]

\* What the table of items is made of.
LEMMA ItemsListed ==
    ASSUME items \in Seq(Item)
    PROVE  /\ TodoItems \in Seq(Item)
           /\ ToSet(TodoItems) = Found(selected, filters)
           /\ Cells \in Seq(Row) /\ Len(Cells) = Len(TodoItems)
           /\ Found(selected, filters) \subseteq ToSet(items)
<1>1. PICK found : found = Found(selected, filters)
    OBVIOUS
<1>2. found \in SUBSET ToSet(items)
    BY <1>1, Zenon DEF Found
<1>3. PICK r : r = TodoItems
    OBVIOUS
<1>4. r \in Seq(Item) /\ ToSet(r) = found
    BY <1>1, <1>2, <1>3, CellsAreOfResults, ResultsAreFound
<1>5. Cells = CellsOf(r, done)
    BY <1>3, CellsAreOfResults
<1>6. Cells \in Seq(Row) /\ Len(Cells) = Len(r)
    BY <1>4, <1>5, CellsOfType DEF Row
<1>7. QED
    BY <1>1, <1>2, <1>3, <1>4, <1>6

\* A reload leaves rows of items.
LEMMA ReloadType ==
    ASSUME items' \in Seq(Item)
    PROVE  Cells' \in Seq(Row)
<1>1. PICK found : found = Found(selected, filters)'
    OBVIOUS
<1>2. PICK its : its = items'
    OBVIOUS
<1>3. its \in Seq(Item) /\ found \in SUBSET ToSet(its)
    BY <1>1, <1>2, Zenon DEF Found
<1>4. PICK newest, checked : newest = newestFirst' /\ checked = done'
    OBVIOUS
<1>5. PICK r : r = Results(its, found, newest)
    OBVIOUS
<1>6. r = TodoItems' /\ Cells' = CellsOf(r, checked)
    BY <1>1, <1>2, <1>4, <1>5, CellsAreOfResults
<1>7. r \in Seq(Item)
    BY <1>3, <1>5, ResultsAreFound
<1>8. QED
    BY <1>6, <1>7, CellsOfType DEF Row

\* The row that is tapped or swiped is the row of an item in the Realm.
LEMMA RowIsItem ==
    ASSUME IInv, ~crashed, OnItems, NEW row \in DOMAIN itemRows
    PROVE  /\ itemRows = Cells
           /\ row \in 1..Len(TodoItems)
           /\ TodoItems[row] \in Item
           /\ TodoItems[row] \in ToSet(items)
           /\ TodoItems[row] \in Found(selected, filters)
<1>1. itemRows = Cells /\ items \in Seq(Item)
    BY DEF IInv, RowsAreResults, TypeOK
<1>2. PICK r, c : r = TodoItems /\ c = Cells
    OBVIOUS
<1>3. /\ r \in Seq(Item) /\ c \in Seq(Row) /\ Len(c) = Len(r)
      /\ ToSet(r) \subseteq ToSet(items) /\ ToSet(r) = Found(selected, filters)
    BY <1>1, <1>2, ItemsListed
<1>4. row \in 1..Len(r)
    BY <1>1, <1>2, <1>3
<1>5. r[row] \in Item /\ r[row] \in ToSet(r)
    <2>1. DOMAIN r = 1..Len(r) /\ r[row] \in Item
        BY <1>3, <1>4, ElementOfSeq
    <2>2. QED
        BY <1>4, <2>1 DEF ToSet
<1>6. QED
    BY <1>1, <1>2, <1>3, <1>4, <1>5

\* An item goes: with it go its row, its checkmark and its place in a category.
LEMMA ItemDeleted ==
    ASSUME IInv, NEW row, DeleteItem(row, TRUE)
    PROVE  /\ items' \in Seq(Item) /\ Distinct(items')
           /\ ToSet(items') = ToSet(items) \ {TodoItems[row]}
           /\ Len(Cells') = Len(itemRows) - 1
           /\ Cells' = RemoveAt(itemRows, row)
<1>1. /\ ~crashed /\ OnItems /\ row \in DOMAIN itemRows
      /\ UNCHANGED <<selected, filters, newestFirst>>
    BY DEF DeleteItem, Idle
<1>2. PICK r, i : r = TodoItems /\ i = r[row]
    OBVIOUS
<1>3. /\ itemRows = Cells /\ row \in 1..Len(r) /\ i \in Item
      /\ i \in ToSet(items) /\ i \in Found(selected, filters)
    BY <1>1, <1>2, RowIsItem
<1>4. /\ items' = Selected(items, Item \ {i})
      /\ done' = done \ {i}
      /\ parent' = [parent EXCEPT ![i] = NoCategory]
    BY <1>2 DEF DeleteItem
<1>5. /\ items \in Seq(Item) /\ Distinct(items)
      /\ parent \in [Item -> ToSet(categories) \cup {NoCategory}]
      /\ selected # NoCategory
    BY <1>1 DEF IInv, TypeOK, ItemsDistinct, OnItems
<1>6. PICK its, w : its = items /\ w = items'
    OBVIOUS
<1>7. PICK j \in 1..Len(its) : its[j] = i
    <2>1. DOMAIN its = 1..Len(its)
        BY <1>5, <1>6
    <2>2. QED
        BY <1>3, <1>6, <2>1 DEF ToSet
<1>8. w = Without(its, j)
    BY <1>4, <1>5, <1>6, <1>7, SelectedAllBut
<1>9. w \in Seq(Item) /\ Distinct(w) /\ ToSet(w) = ToSet(its) \ {i}
    BY <1>5, <1>6, <1>7, <1>8, WithoutType, WithoutDistinct
<1>10. PICK found : found = Found(selected, filters)
    OBVIOUS
<1>11. found \in SUBSET ToSet(its)
    BY <1>5, <1>6, <1>10, ItemsListed
<1>12. Found(selected, filters)' = found \ {i}
    <2>1. ASSUME NEW k
          PROVE  k \in Found(selected, filters)' <=> k \in found \ {i}
        <3>1. k \in Found(selected, filters)' <=>
                 /\ k \in ToSet(w) /\ parent'[k] = selected
                 /\ \A t \in filters : k \in Matches[t]
            BY <1>1, <1>6 DEF Found
        <3>2. k \in found <=>
                 /\ k \in ToSet(its) /\ parent[k] = selected
                 /\ \A t \in filters : k \in Matches[t]
            BY <1>6, <1>10 DEF Found
        <3>3. CASE k = i
            BY <1>9, <3>1, <3>3
        <3>4. CASE k # i
            <4>1. k \in ToSet(w) <=> k \in ToSet(its)
                BY <1>9, <3>4
            <4>2. k \in ToSet(its) => parent'[k] = parent[k]
                <5>1. ToSet(its) \subseteq Item
                    BY <1>5, <1>6, ElementsFinite
                <5>2. QED
                    BY <1>4, <1>5, <3>4, <5>1
            <4>3. QED
                BY <3>1, <3>2, <3>4, <4>1, <4>2
        <3>5. QED
            BY <3>3, <3>4
    <2>2. QED
        BY <2>1
<1>13. PICK newest, checked : newest = newestFirst /\ checked = done
    OBVIOUS
<1>14. r = Results(its, found, newest) /\ itemRows = CellsOf(r, checked)
    BY <1>2, <1>3, <1>6, <1>10, <1>13, CellsAreOfResults
<1>15. Cells' = CellsOf(Results(w, found \ {i}, newest), checked \ {i})
    BY <1>1, <1>4, <1>6, <1>12, <1>13, CellsAreOfResults
<1>16. its \in Seq(Item) /\ Distinct(its) /\ its[j] = r[row]
    BY <1>2, <1>5, <1>6, <1>7
<1>17. Cells' = Without(itemRows, row)
    <2>1. CellsOf(Results(Without(its, j), found \ {r[row]}, newest), checked \ {r[row]})
             = Without(CellsOf(r, checked), row)
        BY <1>3, <1>11, <1>14, <1>16, CellsWithout
    <2>2. QED
        BY <1>2, <1>8, <1>14, <1>15, <2>1, Zenon
<1>18. PICK c : c = itemRows
    OBVIOUS
<1>19. c \in Seq(Row) /\ row \in 1..Len(c)
    BY <1>2, <1>3, <1>5, <1>18, ItemsListed
<1>20. Cells' = RemoveAt(c, row) /\ Len(Cells') = Len(c) - 1
    BY <1>17, <1>18, <1>19, RemoveAtIsWithout, WithoutType
<1>21. QED
    BY <1>2, <1>6, <1>9, <1>18, <1>20

-----------------------------------------------------------------------------
(* Every step preserves the invariant *)

\* What an object that is added to the Realm adds.
LEMMA AppendedEntry ==
    ASSUME NEW T, NEW q \in Seq(T), NEW x \in T
    PROVE  /\ Append(q, x) \in Seq(T)
           /\ Len(Append(q, x)) = Len(q) + 1
           /\ ToSet(Append(q, x)) = ToSet(q) \cup {x}
           /\ Last(Append(q, x)) = x
           /\ Distinct(q) /\ x \notin ToSet(q) => Distinct(Append(q, x))
<1>1. Len(q) \in Nat
    OBVIOUS
<1>2. PICK n, r : n = Len(q) /\ r = Append(q, x)
    OBVIOUS
<1>3. /\ r \in Seq(T) /\ Len(r) = n + 1 /\ r[n + 1] = x
      /\ \A k \in 1..n : r[k] = q[k]
    BY <1>1, <1>2, AppendProperties
<1>4. DOMAIN q = 1..n /\ DOMAIN r = 1..(n + 1)
    BY <1>1, <1>2, <1>3
<1>5. \A k \in 1..(n + 1) : k \in 1..n \/ k = n + 1
    BY <1>1, <1>2
<1>6. \A k \in 1..n : k \in 1..(n + 1)
    BY <1>1, <1>2
<1>7. n + 1 \in 1..(n + 1)
    BY <1>1, <1>2
<1>8. ToSet(r) = ToSet(q) \cup {x}
    BY <1>3, <1>4, <1>5, <1>6, <1>7 DEF ToSet
<1>9. ASSUME Distinct(q), x \notin ToSet(q) PROVE Distinct(r)
    <2>1. \A k \in 1..n : q[k] # x
        BY <1>4, <1>9 DEF ToSet
    <2>2. \A a, b \in 1..n : q[a] = q[b] => a = b
        BY <1>2, <1>9 DEF Distinct
    <2>3. QED
        BY <1>3, <1>5, <2>1, <2>2 DEF Distinct
<1>10. Last(r) = x
    BY <1>3 DEF Last
<1>11. QED
    BY <1>2, <1>3, <1>8, <1>9, <1>10

\* Written or not, the new category's row is there exactly when its object is,
\* or the process is gone.
LEMMA SaveCategoriesKeeps ==
    ASSUME IInv, NEW c \in Category, NEW written \in BOOLEAN, SaveCategories(c, written)
    PROVE  IInv' /\ (crashed' => UNCHANGED realm)
<1>1. /\ TypeOK /\ ~crashed /\ categoryRows = categories
      /\ categories \in Seq(Category) /\ Len(categories) \in Nat
      /\ UNCHANGED <<items, done, parent, itemsScreen>>
    BY DEF IInv, RowsAreResults, SaveCategories, TypeOK
<1>2. Found(selected, filters)' = Found(selected, filters) /\ TodoItems' = TodoItems
    BY <1>1 DEF Found, TodoItems, itemsScreen
<1>3. Cells' = Cells
    BY <1>1, <1>2 DEF Cells, itemsScreen
<1>4. CASE written
    <2>1. /\ categories' = Append(categories, c)
          /\ categories' \in Seq(Category) /\ Len(categories') = Len(categories) + 1
          /\ ToSet(categories') = ToSet(categories) \cup {c} /\ Last(categories') = c
        BY <1>1, <1>4, AppendedEntry DEF SaveCategories
    <2>2. categoryRows' = categories' /\ UNCHANGED crashed
        BY <1>1, <2>1 DEF SaveCategories, Explains
    <2>3. TypeOK'
        BY <1>1, <2>1, <2>2 DEF TypeOK, OnItems, itemsScreen, SaveCategories
    <2>4. AlertOnItems' /\ SearchCleared' /\ ItemsDistinct'
        BY <1>1 DEF IInv, AlertOnItems, SearchCleared, ItemsDistinct, OnItems, itemsScreen,
                    SaveCategories
    <2>5. RowsAreResults'
        BY <1>1, <1>3, <2>2 DEF IInv, RowsAreResults, OnItems, itemsScreen
    <2>6. QED
        BY <1>1, <2>2, <2>3, <2>4, <2>5 DEF IInv
<1>5. CASE ~written
    <2>1. categories' = categories
        BY <1>5 DEF SaveCategories
    <2>2. categoryRows' = categoryRows /\ crashed'
        BY <1>1, <2>1 DEF SaveCategories, Explains
    <2>3. TypeOK'
        BY <1>1, <2>1, <2>2 DEF TypeOK, OnItems, itemsScreen, SaveCategories
    <2>4. AlertOnItems' /\ SearchCleared' /\ ItemsDistinct'
        BY <1>1 DEF IInv, AlertOnItems, SearchCleared, ItemsDistinct, OnItems, itemsScreen,
                    SaveCategories
    <2>5. RowsAreResults'
        BY <2>2 DEF RowsAreResults
    <2>6. QED
        BY <1>1, <2>1, <2>3, <2>4, <2>5 DEF IInv, realm
<1>6. QED
    BY <1>4, <1>5

\* The items of a category that goes belong to no category: none is left in one
\* that is not there.
LEMMA DeleteCategoryKeeps ==
    ASSUME IInv, NEW row, NEW written \in BOOLEAN, DeleteCategory(row, written)
    PROVE  IInv' /\ (crashed' => UNCHANGED realm)
<1>1. /\ TypeOK /\ ~crashed /\ ~OnItems /\ categoryRows = categories
      /\ categories \in Seq(Category) /\ row \in 1..Len(categories)
      /\ UNCHANGED <<items, done, itemsScreen, alert>>
    <2>1. TypeOK /\ ~crashed /\ ~OnItems /\ categoryRows = categories /\ row \in DOMAIN categoryRows
        BY DEF IInv, RowsAreResults, DeleteCategory, Idle
    <2>2. categories \in Seq(Category)
        BY <2>1 DEF TypeOK
    <2>3. DOMAIN categories = 1..Len(categories)
        BY <2>2
    <2>4. QED
        BY <2>1, <2>2, <2>3 DEF DeleteCategory
<1>2. AlertOnItems' /\ SearchCleared' /\ ItemsDistinct' /\ ~OnItems'
    BY <1>1 DEF IInv, AlertOnItems, SearchCleared, ItemsDistinct, OnItems, itemsScreen
<1>3. CASE written
    <2>1. categories' = RemoveAt(categories, row)
        BY <1>3 DEF DeleteCategory
    <2>2. PICK q, r : q = categories /\ r = categories'
        OBVIOUS
    <2>3. r = Without(q, row)
        BY <1>1, <2>1, <2>2, RemoveAtIsWithout
    <2>4. r \in Seq(Category) /\ Len(r) = Len(q) - 1
        BY <1>1, <2>2, <2>3, WithoutType
    <2>5. categoryRows' = categories' /\ UNCHANGED crashed
        <3>1. Len(q) \in Nat /\ Len(categories') = Len(categoryRows) + (-1)
            BY <1>1, <2>2, <2>4
        <3>2. QED
            BY <1>1, <2>1, <3>1 DEF DeleteCategory, Explains
    <2>6. ASSUME NEW k \in 1..Len(q), q[k] # q[row] PROVE q[k] \in ToSet(r)
        <3>1. /\ q \in Seq(Category) /\ row \in 1..Len(q)
              /\ \A m \in 1..(Len(q) - 1) : r[m] = IF m < row THEN q[m] ELSE q[m + 1]
            <4>1. q \in Seq(Category) /\ row \in 1..Len(q)
                BY <1>1, <2>2
            <4>2. \A m \in 1..(Len(q) - 1) :
                     Without(q, row)[m] = IF m < row THEN q[m] ELSE q[m + 1]
                BY <4>1, WithoutType
            <4>3. QED
                BY <2>3, <4>1, <4>2, Zenon
        <3>2. k # row /\ DOMAIN r = 1..(Len(q) - 1) /\ Len(q) \in Nat
            BY <2>4, <2>6, <3>1
        <3>3. CASE k < row
            <4>1. k \in 1..(Len(q) - 1)
                BY <3>1, <3>2, <3>3
            <4>2. r[k] = q[k]
                BY <3>1, <3>3, <4>1
            <4>3. QED
                BY <3>2, <4>1, <4>2 DEF ToSet
        <3>4. CASE ~(k < row)
            <4>1. k - 1 \in 1..(Len(q) - 1) /\ ~(k - 1 < row) /\ (k - 1) + 1 = k
                BY <3>1, <3>2, <3>4
            <4>2. r[k - 1] = q[k]
                BY <3>1, <4>1
            <4>3. QED
                BY <3>2, <4>1, <4>2 DEF ToSet
        <3>5. QED
            BY <3>3, <3>4
    <2>7. parent' \in [Item -> ToSet(categories') \cup {NoCategory}]
        <3>1. parent' = [i \in Item |-> IF parent[i] = q[row] THEN NoCategory ELSE parent[i]]
            BY <1>3, <2>2 DEF DeleteCategory
        <3>2. ASSUME NEW i \in Item, parent[i] # q[row], parent[i] # NoCategory
              PROVE  parent[i] \in ToSet(r)
            <4>1. parent[i] \in ToSet(q)
                BY <1>1, <2>2, <3>2 DEF TypeOK
            <4>2. PICK k \in 1..Len(q) : q[k] = parent[i]
                <5>1. DOMAIN q = 1..Len(q)
                    BY <1>1, <2>2
                <5>2. QED
                    BY <4>1, <5>1 DEF ToSet
            <4>3. QED
                BY <2>6, <3>2, <4>2
        <3>3. QED
            BY <2>2, <3>1, <3>2
    <2>8. TypeOK'
        BY <1>1, <2>2, <2>4, <2>5, <2>7 DEF TypeOK, OnItems, itemsScreen
    <2>9. RowsAreResults'
        BY <1>2, <2>5 DEF RowsAreResults
    <2>10. QED
        BY <1>1, <1>2, <2>5, <2>8, <2>9 DEF IInv
<1>4. CASE ~written
    <2>1. categories' = categories /\ parent' = parent
        BY <1>4 DEF DeleteCategory
    <2>2. categoryRows' = categoryRows /\ crashed'
        <3>1. Len(categories) \in Nat
            BY <1>1
        <3>2. Len(categories') # Len(categoryRows) + (-1)
            BY <1>1, <2>1, <3>1
        <3>3. QED
            BY <3>2 DEF DeleteCategory, Explains
    <2>3. TypeOK'
        BY <1>1, <2>1, <2>2 DEF TypeOK, OnItems, itemsScreen
    <2>4. RowsAreResults'
        BY <2>2 DEF RowsAreResults
    <2>5. QED
        BY <1>1, <1>2, <2>1, <2>3, <2>4 DEF IInv, realm
<1>5. QED
    BY <1>3, <1>4

\* A new item is not in the Realm yet, and the reload shows it.
LEMMA AddNewItemKeeps ==
    ASSUME IInv, NEW i \in Item, NEW written \in BOOLEAN, AddNewItem(i, written)
    PROVE  IInv' /\ ~crashed'
<1>1. /\ TypeOK /\ ~crashed /\ OnItems /\ categoryRows = categories
      /\ items \in Seq(Item) /\ Distinct(items) /\ i \notin ToSet(items)
      /\ done \subseteq ToSet(items)
      /\ parent \in [Item -> ToSet(categories) \cup {NoCategory}]
      /\ selected \in ToSet(categories) \cup {NoCategory}
    <2>1. ~Contains(items, i) => i \notin ToSet(items)
        BY DEF Contains, ToSet
    <2>2. QED
        BY <2>1 DEF IInv, RowsAreResults, TypeOK, ItemsDistinct, AlertOnItems, AddNewItem
<1>2. /\ alert' = "none" /\ filters' = {} /\ newestFirst' = FALSE /\ itemRows' = Cells'
      /\ UNCHANGED <<categories, done, categoryRows, selected, text, crashed>>
    BY DEF AddNewItem, LoadItems, ReloadItems
<1>3. items' \in Seq(Item) /\ Distinct(items') /\ ToSet(items) \subseteq ToSet(items')
    <2>1. CASE written
        <3>1. items' = Append(items, i)
            BY <2>1 DEF AddNewItem
        <3>2. QED
            BY <1>1, <3>1, AppendedEntry
    <2>2. CASE ~written
        BY <1>1, <2>2 DEF AddNewItem
    <2>3. QED
        BY <2>1, <2>2
<1>4. parent' \in [Item -> ToSet(categories) \cup {NoCategory}]
    BY <1>1 DEF AddNewItem
<1>5. itemRows' \in Seq([item : Item, checked : BOOLEAN])
    BY <1>2, <1>3, ReloadType DEF Row
<1>6. TypeOK'
    BY <1>1, <1>2, <1>3, <1>4, <1>5 DEF TypeOK, OnItems
<1>7. ItemsDistinct' /\ AlertOnItems' /\ SearchCleared' /\ RowsAreResults'
    BY <1>1, <1>2, <1>3 DEF ItemsDistinct, AlertOnItems, SearchCleared, RowsAreResults
<1>8. QED
    BY <1>1, <1>2, <1>6, <1>7 DEF IInv

\* The item that is toggled is in the Realm.
LEMMA DidSelectItemKeeps ==
    ASSUME IInv, NEW row, NEW written \in BOOLEAN, DidSelectItem(row, written)
    PROVE  IInv' /\ ~crashed'
<1>1. /\ TypeOK /\ ~crashed /\ OnItems /\ categoryRows = categories /\ row \in DOMAIN itemRows
      /\ UNCHANGED <<categories, items, parent, categoryRows, selected, filters, newestFirst,
                     text, alert, crashed>>
      /\ itemRows' = Cells'
    BY DEF IInv, RowsAreResults, DidSelectItem, Idle, ReloadItems
<1>2. TodoItems[row] \in ToSet(items)
    BY <1>1, RowIsItem
<1>3. done' \subseteq ToSet(items)
    BY <1>1, <1>2 DEF DidSelectItem, TypeOK
<1>4. itemRows' \in Seq([item : Item, checked : BOOLEAN])
    <2>1. items' \in Seq(Item)
        BY <1>1 DEF TypeOK
    <2>2. QED
        BY <1>1, <2>1, ReloadType DEF Row
<1>5. TypeOK'
    BY <1>1, <1>3, <1>4 DEF TypeOK, OnItems
<1>6. ItemsDistinct' /\ AlertOnItems' /\ SearchCleared' /\ RowsAreResults'
    BY <1>1 DEF IInv, ItemsDistinct, AlertOnItems, SearchCleared, RowsAreResults, OnItems
<1>7. QED
    BY <1>1, <1>5, <1>6 DEF IInv

\* A deletion that went through leaves the rows right; one that failed ends the
\* process.
LEMMA DeleteItemKeeps ==
    ASSUME IInv, NEW row, NEW written \in BOOLEAN, DeleteItem(row, written)
    PROVE  IInv' /\ (crashed' => UNCHANGED realm)
<1>1. /\ TypeOK /\ ~crashed /\ OnItems /\ categoryRows = categories /\ row \in DOMAIN itemRows
      /\ UNCHANGED <<categories, categoryRows, selected, filters, newestFirst, text, alert>>
    BY DEF IInv, RowsAreResults, DeleteItem, Idle
<1>2. itemRows = Cells /\ itemRows \in Seq(Row) /\ Len(itemRows) \in Nat
    BY <1>1, RowIsItem DEF TypeOK, Row
<1>3. CASE written
    <2>1. DeleteItem(row, TRUE)
        BY <1>3, Zenon
    <2>2. /\ items' \in Seq(Item) /\ Distinct(items')
          /\ ToSet(items') = ToSet(items) \ {TodoItems[row]}
          /\ Len(Cells') = Len(itemRows) - 1
          /\ Cells' = RemoveAt(itemRows, row)
        BY <2>1, ItemDeleted
    <2>3. itemRows' = Cells' /\ UNCHANGED crashed
        <3>1. Len(Cells') = Len(itemRows) + (-1)
            BY <1>2, <2>2
        <3>2. QED
            BY <2>2, <3>1 DEF DeleteItem, Explains
    <2>4. /\ done' \subseteq ToSet(items')
          /\ parent' \in [Item -> ToSet(categories) \cup {NoCategory}]
        BY <1>1, <1>3, <2>2 DEF DeleteItem, TypeOK
    <2>5. itemRows' \in Seq([item : Item, checked : BOOLEAN])
        BY <2>2, <2>3, ReloadType DEF Row
    <2>6. TypeOK'
        BY <1>1, <2>2, <2>3, <2>4, <2>5 DEF TypeOK, OnItems
    <2>7. ItemsDistinct' /\ AlertOnItems' /\ SearchCleared' /\ RowsAreResults'
        BY <1>1, <2>2, <2>3 DEF IInv, ItemsDistinct, AlertOnItems, SearchCleared,
                               RowsAreResults, OnItems
    <2>8. QED
        BY <1>1, <2>3, <2>6, <2>7 DEF IInv
<1>4. CASE ~written
    <2>1. UNCHANGED <<items, done, parent>>
        BY <1>4 DEF DeleteItem
    <2>2. TodoItems' = TodoItems
        BY <1>1, <2>1 DEF TodoItems, Found
    <2>3. Cells' = Cells
        BY <2>1, <2>2 DEF Cells
    <2>4. crashed' /\ UNCHANGED itemRows
        <3>1. Len(Cells') # Len(itemRows) + (-1)
            BY <1>2, <2>3
        <3>2. QED
            BY <3>1 DEF DeleteItem, Explains
    <2>5. TypeOK'
        BY <1>1, <2>1, <2>4 DEF TypeOK, OnItems
    <2>6. ItemsDistinct' /\ AlertOnItems' /\ SearchCleared' /\ RowsAreResults'
        BY <1>1, <2>1, <2>4 DEF IInv, ItemsDistinct, AlertOnItems, SearchCleared,
                               RowsAreResults, OnItems
    <2>7. QED
        BY <1>1, <2>1, <2>5, <2>6 DEF IInv, realm
<1>5. QED
    BY <1>3, <1>4

\* A launch reads the Realm.
LEMMA RelaunchKeeps ==
    ASSUME IInv, Relaunch
    PROVE  IInv' /\ ~crashed'
<1>1. /\ TypeOK /\ ItemsDistinct
      /\ categoryRows' = categories /\ selected' = NoCategory /\ filters' = {}
      /\ newestFirst' = FALSE /\ text' = NoText /\ itemRows' = <<>> /\ alert' = "none"
      /\ crashed' = FALSE
      /\ UNCHANGED <<categories, items, done, parent>>
    BY DEF IInv, Relaunch, realm
<1>2. TypeOK'
    <2>1. <<>> \in Seq([item : Item, checked : BOOLEAN])
        OBVIOUS
    <2>2. QED
        BY <1>1, <2>1 DEF TypeOK, OnItems
<1>3. ItemsDistinct' /\ AlertOnItems' /\ SearchCleared' /\ RowsAreResults'
    BY <1>1 DEF ItemsDistinct, AlertOnItems, SearchCleared, RowsAreResults, OnItems
<1>4. QED
    BY <1>1, <1>2, <1>3 DEF IInv

\* The category that is opened exists.
LEMMA DidSelectCategoryKeeps ==
    ASSUME IInv, NEW row \in DOMAIN categoryRows, DidSelectCategory(row)
    PROVE  IInv' /\ ~crashed'
<1>1. /\ TypeOK /\ ItemsDistinct /\ ~crashed /\ alert = "none" /\ categoryRows = categories
      /\ selected' = categories[row] /\ text' = NoText /\ filters' = {}
      /\ newestFirst' = FALSE /\ itemRows' = Cells'
      /\ UNCHANGED <<categories, items, done, parent, categoryRows, alert, crashed>>
    BY DEF IInv, RowsAreResults, DidSelectCategory, Idle, LoadItems, ReloadItems, realm
<1>2. selected' \in ToSet(categories) /\ selected' # NoCategory
    <2>1. /\ categories \in Seq(Category) /\ row \in DOMAIN categories
        BY <1>1 DEF TypeOK
    <2>2. categories[row] \in Category
        <3>1. DOMAIN categories = 1..Len(categories)
            BY <2>1
        <3>2. QED
            BY <2>1, <3>1, ElementOfSeq
    <2>3. QED
        BY <1>1, <2>1, <2>2, TodoeyAssumption DEF ToSet
<1>3. itemRows' \in Seq([item : Item, checked : BOOLEAN])
    <2>1. items' \in Seq(Item)
        BY <1>1 DEF TypeOK
    <2>2. QED
        BY <1>1, <2>1, ReloadType DEF Row
<1>4. TypeOK'
    BY <1>1, <1>2, <1>3 DEF TypeOK, OnItems
<1>5. ItemsDistinct' /\ AlertOnItems' /\ SearchCleared' /\ RowsAreResults'
    BY <1>1 DEF ItemsDistinct, AlertOnItems, SearchCleared, RowsAreResults, OnItems
<1>6. QED
    BY <1>1, <1>4, <1>5 DEF IInv

\* The items screen goes with its search.
LEMMA BackKeeps ==
    ASSUME IInv, Back
    PROVE  IInv' /\ ~crashed'
<1>1. /\ TypeOK /\ ItemsDistinct /\ ~crashed /\ alert = "none" /\ categoryRows = categories
      /\ selected' = NoCategory /\ filters' = {} /\ newestFirst' = FALSE /\ text' = NoText
      /\ itemRows' = <<>>
      /\ UNCHANGED <<categories, items, done, parent, categoryRows, alert, crashed>>
    BY DEF IInv, RowsAreResults, Back, Idle, realm
<1>2. TypeOK'
    <2>1. <<>> \in Seq([item : Item, checked : BOOLEAN])
        OBVIOUS
    <2>2. QED
        BY <1>1, <2>1 DEF TypeOK, OnItems
<1>3. ItemsDistinct' /\ AlertOnItems' /\ SearchCleared' /\ RowsAreResults'
    BY <1>1 DEF ItemsDistinct, AlertOnItems, SearchCleared, RowsAreResults, OnItems
<1>4. QED
    BY <1>1, <1>2, <1>3 DEF IInv

\* A search has a text.
LEMMA SearchButtonKeeps ==
    ASSUME IInv, SearchBarSearchButtonClicked
    PROVE  IInv' /\ ~crashed'
<1>1. /\ TypeOK /\ ItemsDistinct /\ ~crashed /\ alert = "none" /\ categoryRows = categories
      /\ OnItems /\ text # NoText
      /\ filters' = filters \cup {text} /\ newestFirst' = TRUE /\ itemRows' = Cells'
      /\ UNCHANGED <<categories, items, done, parent, categoryRows, selected, text, alert,
                     crashed>>
    BY DEF IInv, RowsAreResults, SearchBarSearchButtonClicked, Idle, ReloadItems, realm
<1>2. itemRows' \in Seq([item : Item, checked : BOOLEAN])
    <2>1. items' \in Seq(Item)
        BY <1>1 DEF TypeOK
    <2>2. QED
        BY <1>1, <2>1, ReloadType DEF Row
<1>3. TypeOK'
    BY <1>1, <1>2 DEF TypeOK, OnItems
<1>4. ItemsDistinct' /\ AlertOnItems' /\ SearchCleared' /\ RowsAreResults'
    BY <1>1 DEF ItemsDistinct, AlertOnItems, SearchCleared, RowsAreResults, OnItems
<1>5. QED
    BY <1>1, <1>3, <1>4 DEF IInv

\* An emptied search bar loads the category.
LEMMA TextDidChangeKeeps ==
    ASSUME IInv, NEW t \in Text \cup {NoText}, TextDidChange(t)
    PROVE  IInv' /\ ~crashed'
<1>1. /\ TypeOK /\ ItemsDistinct /\ ~crashed /\ alert = "none" /\ categoryRows = categories
      /\ OnItems /\ itemRows = Cells /\ text' = t
      /\ UNCHANGED <<categories, items, done, parent, categoryRows, selected, alert, crashed>>
    BY DEF IInv, RowsAreResults, TextDidChange, Idle, realm
<1>2. \/ t = NoText /\ filters' = {} /\ newestFirst' = FALSE
      \/ t # NoText /\ UNCHANGED <<filters, newestFirst>>
    BY DEF TextDidChange, LoadItems
<1>3. itemRows' = Cells'
    <2>1. CASE t = NoText
        BY <2>1 DEF TextDidChange, LoadItems, ReloadItems
    <2>2. CASE t # NoText
        <3>1. UNCHANGED <<filters, newestFirst, itemRows>>
            BY <2>2 DEF TextDidChange
        <3>2. TodoItems' = TodoItems
            BY <1>1, <3>1 DEF TodoItems, Found
        <3>3. Cells' = Cells
            BY <1>1, <3>2 DEF Cells
        <3>4. QED
            BY <1>1, <3>1, <3>3
    <2>3. QED
        BY <2>1, <2>2
<1>4. itemRows' \in Seq([item : Item, checked : BOOLEAN])
    <2>1. items' \in Seq(Item)
        BY <1>1 DEF TypeOK
    <2>2. QED
        BY <1>3, <2>1, ReloadType DEF Row
<1>5. TypeOK'
    BY <1>1, <1>2, <1>4 DEF TypeOK, OnItems
<1>6. ItemsDistinct' /\ AlertOnItems' /\ SearchCleared' /\ RowsAreResults'
    BY <1>1, <1>2, <1>3 DEF ItemsDistinct, AlertOnItems, SearchCleared, RowsAreResults, OnItems
<1>7. QED
    BY <1>1, <1>5, <1>6 DEF IInv

\* The alerts, and a step that changes nothing.
LEMMA QuietKeeps ==
    ASSUME IInv, UNCHANGED <<realm, categoryRows, itemsScreen, crashed>>,
           alert' \in {"none", "category", "item"}, alert' = "item" => OnItems
    PROVE  IInv' /\ (crashed' => crashed)
<1>1. /\ UNCHANGED <<categories, items, done, parent, categoryRows, selected, filters,
                     newestFirst, text, itemRows, crashed>>
    BY DEF realm, itemsScreen
<1>2. Cells' = Cells
    <2>1. TodoItems' = TodoItems
        BY <1>1 DEF TodoItems, Found
    <2>2. QED
        BY <1>1, <2>1 DEF Cells
<1>3. TypeOK'
    BY <1>1 DEF IInv, TypeOK, OnItems
<1>4. ItemsDistinct' /\ AlertOnItems' /\ SearchCleared' /\ RowsAreResults'
    BY <1>1, <1>2 DEF IInv, ItemsDistinct, AlertOnItems, SearchCleared, RowsAreResults, OnItems
<1>5. QED
    BY <1>1, <1>3, <1>4 DEF IInv

\* The first launch.
LEMMA InitKeeps ==
    ASSUME Init PROVE IInv
<1>1. /\ categories = <<>> /\ items = <<>> /\ done = {} /\ parent \in [Item -> {NoCategory}]
      /\ categoryRows = <<>> /\ selected = NoCategory /\ filters = {} /\ newestFirst = FALSE
      /\ text = NoText /\ itemRows = <<>> /\ alert = "none" /\ crashed = FALSE
    BY DEF Init
<1>2. TypeOK
    <2>1. <<>> \in Seq(Category) /\ <<>> \in Seq(Item) /\ <<>> \in Seq(Row)
        OBVIOUS
    <2>2. categories \in Seq(Category) /\ items \in Seq(Item) /\ categoryRows \in Seq(Category)
        BY <1>1, <2>1
    <2>3. itemRows \in Seq([item : Item, checked : BOOLEAN])
        BY <1>1, <2>1 DEF Row
    <2>4. parent \in [Item -> ToSet(categories) \cup {NoCategory}]
        BY <1>1
    <2>5. QED
        BY <1>1, <2>2, <2>3, <2>4 DEF TypeOK, OnItems
<1>3. ItemsDistinct /\ AlertOnItems /\ SearchCleared /\ RowsAreResults
    <2>1. \A i \in 1..Len(items) : FALSE
        BY <1>1
    <2>2. QED
        BY <1>1, <2>1 DEF ItemsDistinct, Distinct, AlertOnItems, SearchCleared, RowsAreResults,
                          OnItems
<1>4. QED
    BY <1>2, <1>3 DEF IInv

\* No step breaks the invariant, and none that writes crashes.
LEMMA StepKeeps ==
    ASSUME IInv, [Next]_vars
    PROVE  IInv' /\ (~crashed /\ crashed' => UNCHANGED realm)
<1>1. CASE Relaunch
    BY <1>1, RelaunchKeeps
<1>2. CASE AddCategoryTapped
    <2>1. /\ UNCHANGED <<realm, categoryRows, itemsScreen, crashed>>
          /\ alert' = "category"
        BY <1>2 DEF AddCategoryTapped
    <2>2. QED
        BY <2>1, QuietKeeps
<1>3. CASE Cancel
    <2>1. /\ UNCHANGED <<realm, categoryRows, itemsScreen, crashed>>
          /\ alert' = "none"
        BY <1>3 DEF Cancel
    <2>2. QED
        BY <2>1, QuietKeeps
<1>4. CASE AddItemTapped
    <2>1. /\ UNCHANGED <<realm, categoryRows, itemsScreen, crashed>>
          /\ alert' = "item" /\ OnItems
        BY <1>4 DEF AddItemTapped
    <2>2. QED
        BY <2>1, QuietKeeps
<1>5. CASE Back
    BY <1>5, BackKeeps
<1>6. CASE SearchBarSearchButtonClicked
    BY <1>6, SearchButtonKeeps
<1>7. CASE \E t \in Text \cup {NoText} : TextDidChange(t)
    BY <1>7, TextDidChangeKeeps
<1>8. CASE \E row \in DOMAIN categoryRows : DidSelectCategory(row)
    BY <1>8, DidSelectCategoryKeeps
<1>9. ASSUME NEW written \in BOOLEAN, \E c \in Category : SaveCategories(c, written)
      PROVE  IInv' /\ (~crashed /\ crashed' => UNCHANGED realm)
    BY <1>9, SaveCategoriesKeeps
<1>10. ASSUME NEW written \in BOOLEAN, \E row \in DOMAIN categoryRows : DeleteCategory(row, written)
       PROVE  IInv' /\ (~crashed /\ crashed' => UNCHANGED realm)
    BY <1>10, DeleteCategoryKeeps
<1>11. ASSUME NEW written \in BOOLEAN, \E i \in Item : AddNewItem(i, written)
       PROVE  IInv' /\ (~crashed /\ crashed' => UNCHANGED realm)
    BY <1>11, AddNewItemKeeps
<1>12. ASSUME NEW written \in BOOLEAN, \E row \in DOMAIN itemRows : DidSelectItem(row, written)
       PROVE  IInv' /\ (~crashed /\ crashed' => UNCHANGED realm)
    BY <1>12, DidSelectItemKeeps
<1>13. ASSUME NEW written \in BOOLEAN, \E row \in DOMAIN itemRows : DeleteItem(row, written)
       PROVE  IInv' /\ (~crashed /\ crashed' => UNCHANGED realm)
    BY <1>13, DeleteItemKeeps
<1>14. CASE UNCHANGED vars
    <2>1. /\ UNCHANGED <<realm, categoryRows, itemsScreen, crashed>> /\ alert' = alert
        BY <1>14 DEF vars
    <2>2. alert' \in {"none", "category", "item"} /\ (alert' = "item" => OnItems)
        BY <2>1 DEF IInv, TypeOK, AlertOnItems
    <2>3. QED
        BY <2>1, <2>2, QuietKeeps
<1>15. QED
    BY <1>1, <1>2, <1>3, <1>4, <1>5, <1>6, <1>7, <1>8, <1>9, <1>10, <1>11, <1>12, <1>13, <1>14
       DEF Next

\* So it holds throughout.
LEMMA Invariant == Spec => []IInv
<1>1. Init => IInv
    BY InitKeeps
<1>2. IInv /\ [Next]_vars => IInv'
    BY StepKeeps
<1>3. QED
    BY <1>1, <1>2, PTL DEF Spec

-----------------------------------------------------------------------------
(* The theorems *)

\* Every variable keeps its type, and nothing is left of an items screen that
\* is gone: Back and a relaunch drop all of it.
THEOREM TypeCorrect == Spec => []TypeOK
<1>1. IInv => TypeOK
    BY DEF IInv
<1>2. QED
    BY <1>1, Invariant, PTL

\* As long as the process lives the rows of both tables are the live results,
\* in their order and with their checkmarks.  The swipe that deletes a row
\* without reloading the table keeps it so, because the deletion takes exactly
\* that row out of the results.
THEOREM RowsShowResults == Spec => []RowsAreResults
<1>1. IInv => RowsAreResults
    BY DEF IInv
<1>2. QED
    BY <1>1, Invariant, PTL

\* With an empty search bar every item of the category has a row: no search
\* outlives its text.
THEOREM NoSearchShowsAll == Spec => []EmptySearchShowsAll
<1>1. IInv => EmptySearchShowsAll
    <2>1. SUFFICES ASSUME IInv, OnItems, text = NoText
                   PROVE  Range(TodoItems) = Found(selected, {})
        BY DEF EmptySearchShowsAll
    <2>2. filters = {} /\ items \in Seq(Item)
        BY <2>1 DEF IInv, SearchCleared, TypeOK
    <2>3. ToSet(TodoItems) = Found(selected, {})
        BY <2>2, ItemsListed
    <2>4. Range(TodoItems) = ToSet(TodoItems)
        BY DEF Range, ToSet
    <2>5. QED
        BY <2>3, <2>4
<1>2. QED
    BY <1>1, Invariant, PTL

\* The table view takes the process down only over a write that failed: after
\* every write that went through, the count it expects is the count it finds.
THEOREM CrashesOnlyAfterFailedWrite == Spec => CrashOnlyAfterFailedWrite
<1>1. IInv /\ [Next]_vars => [~crashed /\ crashed' => UNCHANGED realm]_vars
    BY StepKeeps
<1>2. QED
    BY <1>1, Invariant, PTL DEF Spec, CrashOnlyAfterFailedWrite

=============================================================================
