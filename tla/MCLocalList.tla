----------------------------- MODULE MCLocalList -----------------------------
EXTENDS LocalList
CONSTANTS t1, t2
MCTokens == {t1, t2}
MCDated == {t2}
MCPresented == {t1}
MCUpdates == 1 .. 2
MCLimits == {1}
=============================================================================
