----------------------------- MODULE MCPlayer -----------------------------
(***************************************************************************)
(* TLC instances of Player: the slots and bounds are given by the cfgs.    *)
(***************************************************************************)
EXTENDS Player, TLC

\* Tasks of one kind are interchangeable.  Only for runs without a PROPERTY.
Symmetry == Permutations(Controllers) \cup Permutations(Readers) \cup Permutations(Mads)
=============================================================================
