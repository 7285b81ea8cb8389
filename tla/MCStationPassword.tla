---------------------------- MODULE MCStationPassword ----------------------------
EXTENDS StationPassword
CONSTANTS first, second, third
MCChanges == {first, second, third}
===============================================================================
