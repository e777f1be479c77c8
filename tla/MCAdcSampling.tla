------------------------------ MODULE MCAdcSampling ------------------------------
(***************************************************************************)
(* Values of the constants for the runs of AdcSampling.                    *)
(***************************************************************************)
EXTENDS AdcSampling

OneOrTwo == {1, 2}
UpToFour == 1..4

===============================================================================
