------------------------------ MODULE MCRotation ------------------------------
EXTENDS Rotation, TLC

\* No definition names a handler, a key or a slot.
Symmetry == Permutations(Handlers) \cup Permutations(Keys) \cup Permutations(Slots)
=============================================================================
