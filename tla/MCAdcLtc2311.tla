------------------------------ MODULE MCAdcLtc2311 ------------------------------
(***************************************************************************)
(* The calls of the application for the runs of AdcLtc2311.                *)
(***************************************************************************)
EXTENDS AdcLtc2311

\* Everything, with one of the parameters; the software reset takes the core back to
\* hardware triggers, so the call that only does that is left out.
OneParameter ==
    AllCalls \ (({"update"} \X (Parameters \ {"offset"}))
                \union {<<"change_trigger_mode", "pl_trigger">>})

\* The parameter that is updated last by mz_adcLtc2311_init, and another
Updates == {"update"} \X {"offset", "sample_time"}

===============================================================================
