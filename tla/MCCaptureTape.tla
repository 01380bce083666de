--------------------------- MODULE MCCaptureTape ---------------------------
(* TLC instances of CaptureTape; the .cfg files give the constants.        *)
EXTENDS CaptureTape, TLC
============================================================================
