---------------------------- MODULE MCFlashChat ----------------------------
(***************************************************************************)
(* FlashChat for the model checker.  Accounts are interchangeable, and so  *)
(* are the screens: nothing orders them or chooses among them.             *)
(***************************************************************************)
EXTENDS FlashChat, TLC

Symmetry == Permutations(Email) \cup Permutations(Screen)
=============================================================================
