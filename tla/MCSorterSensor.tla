--------------------------- MODULE MCSorterSensor ---------------------------
(* SorterSensor with two captures and a live view. *)
EXTENDS SorterSensor
=============================================================================
