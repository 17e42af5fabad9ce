--------------------------- MODULE MCSeatmapCache ---------------------------
(***************************************************************************)
(* Two readers in one process and one in another.                           *)
(***************************************************************************)
EXTENDS SeatmapCacheProps

CONSTANTS a1, a2, b1, procA, procB

MCHome == [r \in Readers |-> IF r \in {a1, a2} THEN procA ELSE procB]
=============================================================================
