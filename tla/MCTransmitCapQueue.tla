------------------------- MODULE MCTransmitCapQueue -------------------------
(* Instances of TransmitCapQueue for TLC.                                  *)
EXTENDS TransmitCapQueue

CONSTANTS x, y
=============================================================================
