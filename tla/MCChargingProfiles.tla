--------------------------- MODULE MCChargingProfiles ---------------------------
EXTENDS ChargingProfiles, TLC
CONSTANTS c1, c2, c3, x1
MCCalls == {c1, c2, c3}
MCTrans == {x1}
MCSymmetry == Permutations(MCCalls)
===============================================================================
