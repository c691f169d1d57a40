------------------------------- MODULE MCGrants -------------------------------
EXTENDS Grants, TLC

\* Handlers and slots are interchangeable: no definition names one of them.
Symmetry == Permutations(Handlers) \cup Permutations(Slots)

\* A quota of one call, or none.
MCQuotas == {1, NoQuota}
=============================================================================
