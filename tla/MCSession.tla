----------------------------- MODULE MCSession -----------------------------
(***************************************************************************)
(* Instances of SessionProperties for TLC.                                 *)
(***************************************************************************)
EXTENDS SessionProperties, TLC

Symmetry == Permutations(Tabs) \union Permutations(Users)

=============================================================================
