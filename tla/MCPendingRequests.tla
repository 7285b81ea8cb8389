--------------------------- MODULE MCPendingRequests ---------------------------
(* Two requests for reports, the reports of the first published before they are  *)
(* looked up, with ids of their own or with the same, and a remote start.         *)
EXTENDS PendingRequests

CONSTANTS r1, r2, s1, id1, id2, start1

MCReports == {r1, r2}
MCStarts == {s1}
MCLogged == {r1}
MCKeys == {id1, id2, start1}
MCIds == {f \in [{r1, r2, s1} -> MCKeys] :
              f[r1] = id1 /\ f[r2] \in {id1, id2} /\ f[s1] = start1}
===============================================================================
