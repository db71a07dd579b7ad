------------------------------ MODULE PortBoard ------------------------------
(***************************************************************************)
(* What both wiring demos promise about their ports, whatever gestures     *)
(* make and delete them: a port stays with its element; an element is      *)
(* watched exactly while it has ports; a connection is made one at a time, *)
(* to a port that exists; a port takes its connections along when it goes. *)
(* Ports implements this with pairs made by drags, QueryOverlay with pairs,*)
(* single inputs and the outputs of queried windows.                       *)
(*                                                                         *)
(* A connection's source is not promised to exist: both demos complete a   *)
(* connection whose source was deleted after it was begun.                 *)
(***************************************************************************)
EXTENDS Naturals, FiniteSets

VARIABLES
  ports,    \* the ports, with id and element
  wires,    \* connections, from source id to target id
  watched   \* elements watched for the sake of their ports

vars == <<ports, wires, watched>>

Ids(ps) == {p.id : p \in ps}
Elements(ps) == {p.element : p \in ps}

Init == ports = {} /\ wires = {} /\ watched = {}

\* The board keeps its connections but those of the ports that are gone.
Kept(gone) == {c \in wires : c[1] \notin gone /\ c[2] \notin gone}

\* Ports are added, and at most one connection, to a port that is there then; or ports are
\* deleted with all that hangs on them.  Either way the watches follow.
Next ==
  LET added == ports' \ ports
      gone == ports \ ports'
      made == wires' \ wires
  IN  /\ \/ /\ gone = {} /\ wires \subseteq wires'
            /\ Ids(added) \cap Ids(ports) = {}
            /\ \A c, d \in made : c = d
            /\ \A c \in made : c[2] \in Ids(ports')
         \/ /\ added = {} /\ wires' = Kept(Ids(gone))
      /\ watched' = Elements(ports')

Spec == Init /\ [][Next]_vars
==============================================================================
