--------------------------- MODULE MCInfluxWrite ---------------------------
(* Small batch sizes for the runs of InfluxWrite. *)
EXTENDS InfluxWrite

MCSteps == <<4, 2, 1>>
=============================================================================
