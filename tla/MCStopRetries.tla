-------------------------- MODULE MCStopRetries --------------------------
(***************************************************************************)
(* Instance of the two limited Stop validators for TLC.                    *)
(***************************************************************************)
EXTENDS RetryProperties
=============================================================================
