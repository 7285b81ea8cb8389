------------------------- MODULE MCConnectionRegistry -------------------------
(* Two connections of a station, which may overlap, two of a station whose        *)
(* handlers may fail, and one with an unknown id.                                *)
EXTENDS ConnectionRegistry

CONSTANTS a1, a2, b1, b2, x1, CP_A, CP_B, CP_X

MCSockets == {a1, a2, b1, b2, x1}
MCIds == {CP_A, CP_B, CP_X}
MCKnownIds == {CP_A, CP_B}
MCIdOf == [s \in MCSockets |->
              IF s = x1 THEN CP_X ELSE IF s \in {b1, b2} THEN CP_B ELSE CP_A]
===============================================================================
