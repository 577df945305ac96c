----------------------------- MODULE MCHarePipe -----------------------------
(* The instance of HarePipe for TLC: messages shorter than, as long as and  *)
(* longer than the buffer, whose sizes are in the cfg file.                 *)
EXTENDS HarePipe
=============================================================================
