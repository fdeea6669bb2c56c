------------------------------ MODULE MCGrafana ------------------------------
(* Two servers of a user who works with two cells.                         *)
EXTENDS GrafanaChecks

MCCells == <<"in", "sg">>
=============================================================================
