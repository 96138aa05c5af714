---- MODULE MCCallService ----
EXTENDS CallService, TLC
CONSTANTS c1, c2
Symmetry == Permutations(CallIds)
====
