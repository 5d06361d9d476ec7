------------------------------ MODULE MCMonoque ------------------------------
(* Instances of Monoque for TLC: the values of elements are interchangeable. *)
EXTENDS MonoqueProperties, TLC

Symmetry == Permutations(Values) \cup Permutations(Names)

=============================================================================
