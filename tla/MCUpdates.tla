------------------------------ MODULE MCUpdates ------------------------------
(* The update request for TLC: the instance is in the configuration.        *)
EXTENDS Updates
=============================================================================
