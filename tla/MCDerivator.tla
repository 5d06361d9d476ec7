----------------------------- MODULE MCDerivator -----------------------------
EXTENDS DerivatorProperties, TLC

Symmetry == Permutations(Names) \cup Permutations(Addresses)
=============================================================================
