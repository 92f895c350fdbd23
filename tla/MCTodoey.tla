------------------------------ MODULE MCTodoey ------------------------------
(***************************************************************************)
(* Todoey for the model checker: two search texts, one of which only finds *)
(* some of the items, and the other some others.                           *)
(***************************************************************************)
EXTENDS Todoey

CONSTANTS milk, bread

MCMatches == (milk :> {1, 2}) @@ (bread :> {2, 3})
=============================================================================
