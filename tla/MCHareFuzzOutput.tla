-------------------------- MODULE MCHareFuzzOutput --------------------------
(* The instances of HareFuzzOutput for TLC: the sizes are in the cfg files. *)
EXTENDS HareFuzzOutput
=============================================================================
