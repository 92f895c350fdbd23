------------------------------ MODULE Sorting ------------------------------
(***************************************************************************)
(* Sorting and filtering, as the two apps use them: a query that orders    *)
(* documents by their date, a list of titles, the elements of an array     *)
(* that pass a test.  Both are stated by what they return.                 *)
(***************************************************************************)
EXTENDS Integers, Sequences, FiniteSets

\* The members of a finite set of numbers, each once, in increasing order.
Ascending(S) ==
    CHOOSE f \in [1..Cardinality(S) -> S] : \A i, j \in DOMAIN f : i < j => f[i] < f[j]

\* The elements of a sequence that are in a set, in the order they have there.
Selected(s, S) ==
    LET positions == Ascending({i \in DOMAIN s : s[i] \in S})
    IN  [k \in DOMAIN positions |-> s[positions[k]]]
=============================================================================
