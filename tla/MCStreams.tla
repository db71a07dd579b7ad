------------------------------ MODULE MCStreams ------------------------------
(***************************************************************************)
(* Small instances of two machines that live on the stream of events, side *)
(* by side: a behaviour is one of EventStream, from the registry to the    *)
(* clients' mirrors, or one of ValueFlow, whose demo answers events with   *)
(* writes that cause events.  Channels hold two events, which a burst of   *)
(* three overflows.  Values flow from s into a transform t, whose output   *)
(* goes to another transform u and to an element d.                        *)
(***************************************************************************)
EXTENDS EventStream

CONSTANTS s, t, u, d

VARIABLES
  part,   \* which machine moves
  value, known, inputs, conns, raw, requests, inbox, edits

Plain == {s, d}
Transform == {t, u}
Wiring == {<<s, t>>, <<t, u>>, <<t, d>>}
Edited == {s, t}
Color == {}
Entered == {<<"1">>, <<"red">>}
ColorValue == {<<"output", "text", "f">> \o v : v \in Entered}
Code == {<<"text", "f">>, <<"text", "g">>}
BadCode == <<"text", "prose">>

Flow == INSTANCE ValueFlow WITH MaxEdits <- 2, Value <- Entered, cache <- inputs

ASSUME Flow!WiringIsForest

flowVars == <<value, known, inputs, conns, raw, requests, inbox, edits>>

\* A flow may come to rest for good; the events may not.
SideBySide ==
  /\ part \in {"events", "flow"} /\ Flow!Init /\ Init
  /\ [][/\ UNCHANGED part
        /\ \/ part = "events" /\ Next /\ UNCHANGED flowVars
           \/ part = "flow" /\ (Flow!Next \/ (Flow!Quiet /\ UNCHANGED flowVars)) /\ UNCHANGED vars
       ]_<<part, vars, flowVars>>

\* The fairness of the machine that moves.
FairSideBySide ==
  /\ SideBySide
  /\ WF_vars(part = "events" /\ Forward) /\ WF_vars(part = "events" /\ ForwarderStops)
  /\ \A c \in Client : /\ WF_vars(part = "events" /\ Serve(c))
                       /\ WF_vars(part = "events" /\ Connect(c))
  /\ WF_flowVars(part = "flow" /\ Flow!Propagation)

\* Propagation ends.
ComesToRest == part = "flow" => Flow!ComesToRest
==============================================================================
