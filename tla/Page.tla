-------------------------------- MODULE Page --------------------------------
(***************************************************************************)
(* Two machines of a page that uses the client library: the overlay window *)
(* that passes clicks on (Passthrough), and the values that flow along the *)
(* connections of the wiring demos (ValueFlow).  They share no state.      *)
(* What is said of them here is checked on small instances and proved for  *)
(* all.                                                                    *)
(***************************************************************************)
CONSTANTS
  Null,                  \* null, undefined, or nothing
  MaxSent, MaxThreads,   \* Passthrough
  Plain, Transform, Color, Entered, ColorValue, Code, BadCode, Wiring, Edited, MaxEdits

VARIABLES
  mac, mode, last, frame, sent, seen, enabled, threads, ignores, crossed, swapped, toggled,
  value, known, inputs, conns, raw, requests, mail, edits

Mouse == INSTANCE Passthrough WITH None <- Null

Flow == INSTANCE ValueFlow WITH None <- Null, Value <- Entered, cache <- inputs, inbox <- mail

mouseVars == <<mac, mode, last, frame, sent, seen, enabled, threads, ignores, crossed, swapped, toggled>>
flowVars == <<value, known, inputs, conns, raw, requests, mail, edits>>

ASSUME FlowAssumption == Flow!ValuesAreTerms /\ Flow!WiringIsForest

----------------------------------------------------------------------------
\* The overlay's window settles on what the page last decided.
SettlesAsDecided == Mouse!SettlesAsDecided

\* Once nothing is on its way the targets of connections hold what their sources last showed.
FlowSettles == Flow!FlowSettles
=============================================================================
