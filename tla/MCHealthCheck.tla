--------------------------- MODULE MCHealthCheck ---------------------------
EXTENDS HealthCheck, TLC

Symmetric == Permutations(Calls \ Healths)
=============================================================================
