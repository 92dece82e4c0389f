---------------------------- MODULE MCConfirmStore ----------------------------
(***************************************************************************)
(* Calls, nonces and operations are interchangeable in ConfirmStore: no    *)
(* action and no property tells one from another.                          *)
(***************************************************************************)
EXTENDS ConfirmStore, TLC

Symmetry == Permutations(Calls) \union Permutations(Ids) \union Permutations(Ops)
===============================================================================
