----------------------------- MODULE MCTimeStep -----------------------------
(* Small instances of TimeStep.  The cfg files give the constants.         *)
EXTENDS TimeStep
=============================================================================
