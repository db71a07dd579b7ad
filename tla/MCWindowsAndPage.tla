-------------------------- MODULE MCWindowsAndPage --------------------------
(***************************************************************************)
(* Small instances of machines that share no state, side by side: a        *)
(* behaviour is one of WindowSync, the host's cache of windows, or one of  *)
(* the machines of a page.  Values flow from s into a transform t, whose   *)
(* output goes to an element d, a colour, and to another transform u,      *)
(* whose output goes to an element e.                                      *)
(***************************************************************************)
EXTENDS MCWindowSync, Page

CONSTANTS s, t, u, d, e

MCWiring == {<<s, t>>, <<t, u>>, <<t, d>>, <<u, e>>}
MCEntered == {<<"1">>, <<"red">>}
MCColorValue == {<<"output", "text", "f", "red">>}
MCCode == {<<"text", "f">>}
MCBadCode == <<"text", "prose">>

VARIABLE part   \* which machine moves

\* A flow may come to rest for good.  A part that does not move keeps the first of its initial
\* states.
SideBySide ==
  /\ part \in {"windows", "mouse", "flow"}
  /\ Init /\ (part = "windows" \/ screen = <<Overlay>>)
  /\ Flow!Init /\ Mouse!Init /\ (part = "mouse" \/ ~mac)
  /\ [][/\ UNCHANGED part
        /\ \/ part = "windows" /\ Next /\ UNCHANGED <<mouseVars, flowVars>>
           \/ part = "mouse" /\ Mouse!Next /\ UNCHANGED <<vars, flowVars>>
           \/ /\ part = "flow" /\ UNCHANGED <<vars, mouseVars>>
              /\ Flow!Next \/ (Flow!Quiet /\ UNCHANGED flowVars)
       ]_<<part, vars, mouseVars, flowVars>>
=============================================================================
