----------------------------- MODULE MCAudioCues -----------------------------
EXTENDS AudioCues, TLC
CONSTANTS c1, c2
Symmetry == Permutations(CallIds)
==============================================================================
