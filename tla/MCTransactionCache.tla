---------------------------- MODULE MCTransactionCache ----------------------------
EXTENDS TransactionCache, TLC
CONSTANTS x1, x2, c1, c2, charge, pause
MCTrans == {x1, x2}
MCCalls == {c1, c2}
MCActions == {charge, pause}
MCSymmetry == Permutations(MCTrans) \cup Permutations(MCCalls) \cup Permutations(MCActions)
===============================================================================
