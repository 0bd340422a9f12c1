--------------------------- MODULE MCVinPipeline ---------------------------
(* The TLC instance of VinPipeline. *)
EXTENDS VinPipeline

\* The two tables of vin_config_sun8iw21p1.c.
OneSensor == [used |-> {0}, online |-> TRUE, tdm |-> FALSE]
TwoSensors == [used |-> {0, 1}, online |-> FALSE, tdm |-> TRUE]
BothBoards == {OneSensor, TwoSensors}

=============================================================================
