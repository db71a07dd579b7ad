-------------------------- MODULE RegistryAndGraph --------------------------
(***************************************************************************)
(* The two ends of an element's way, side by side: a behaviour is one of   *)
(* ElementRegistry, the host's cache of elements, or one of Graph, the     *)
(* demo that draws a client's.                                             *)
(***************************************************************************)
EXTENDS ElementRegistry

CONSTANTS Node, MaxRequests

VARIABLES
  part,   \* which machine moves
  elements, asked, inbox, graph, drawn, hovered, overlay

Nodes == INSTANCE Graph WITH Element <- Node, MaxPending <- MaxRequests

nodeVars == <<elements, asked, inbox, graph, drawn, hovered, overlay>>

\* null is not taken for a node.
ASSUME NodeAssumption == None \notin [id : Node, gone : BOOLEAN]

SideBySide ==
  /\ part \in {"registry", "nodes"} /\ Nodes!Init /\ Init
  /\ [][/\ UNCHANGED part
        /\ \/ part = "registry" /\ Next /\ UNCHANGED nodeVars
           \/ part = "nodes" /\ Nodes!Next /\ UNCHANGED vars
       ]_<<part, vars, nodeVars>>

----------------------------------------------------------------------------
\* A node has the link to its parent, unless an answer just gave it a new element.
LinkedUnlessRefreshed == Nodes!LinkedUnlessRefreshed

\* At rest the drawing has exactly the graph's nodes.
RestShowsNodes == Nodes!RestShowsNodes

\* The bounds shown are those of the node under the pointer.
OverlayFollowsPointer == Nodes!OverlayFollowsPointer
=============================================================================
