--------------------------- MODULE MCEventStream ---------------------------
(***************************************************************************)
(* Small instances of EventStream: channels of one or two events, which a  *)
(* burst of two or three overflows.                                        *)
(***************************************************************************)
EXTENDS EventStream
============================================================================
