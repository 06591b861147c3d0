-------------------------- MODULE MCDataCollector --------------------------
(***************************************************************************)
(* Instantiates DataCollector for TLC.                                     *)
(***************************************************************************)
EXTENDS DataCollector

\* The host calls every payload method.
MCMethods == DOMAIN Route

=============================================================================
