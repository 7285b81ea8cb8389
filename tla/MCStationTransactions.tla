-------------------------- MODULE MCStationTransactions --------------------------
EXTENDS StationTransactions
CONSTANTS left, remote
MCEVSEs == {left}
MCRequests == {remote}
===============================================================================
