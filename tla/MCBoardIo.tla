------------------------------ MODULE MCBoardIo ------------------------------
(***************************************************************************)
(* Values of the constants for the runs of BoardIo.                        *)
(***************************************************************************)
EXTENDS BoardIo

OneLed == <<"FP1RDY">>

===============================================================================
