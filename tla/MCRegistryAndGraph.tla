------------------------- MODULE MCRegistryAndGraph -------------------------
(***************************************************************************)
(* Small instances of RegistryAndGraph: three elements with a handle each, *)
(* one of them a root, and two nodes, whose ids are interchangeable.       *)
(***************************************************************************)
EXTENDS RegistryAndGraph, TLC

Symmetry == Permutations(Node)
=============================================================================
