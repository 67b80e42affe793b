-------------------------- MODULE MCStationFigures --------------------------
(* Small instances of StationFigures for TLC.                              *)
EXTENDS StationFigures
=============================================================================
