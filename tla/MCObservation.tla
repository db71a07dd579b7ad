--------------------------- MODULE MCObservation ---------------------------
(***************************************************************************)
(* A small instance of Observation: more objects than roots, so that a     *)
(* root can be observed again while its last object is still swept.        *)
(***************************************************************************)
EXTENDS Observation
============================================================================
