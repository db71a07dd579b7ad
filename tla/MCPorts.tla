------------------------------- MODULE MCPorts -------------------------------
(***************************************************************************)
(* A small instance of Ports: two windows with an element each.            *)
(***************************************************************************)
EXTENDS Ports

CONSTANTS e1, e2, w1, w2

MCOwner == [e \in {e1, e2} |-> IF e = e1 THEN w1 ELSE w2]

\* Exchanging the elements together with their windows.
Symmetry == {[x \in {e1, e2, w1, w2} |-> x],
             [x \in {e1, e2, w1, w2} |->
                CASE x = e1 -> e2 [] x = e2 -> e1 [] x = w1 -> w2 [] x = w2 -> w1]}
============================================================================
