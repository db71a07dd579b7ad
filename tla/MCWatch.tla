------------------------------- MODULE MCWatch -------------------------------
(***************************************************************************)
(* Small instances of Watch.  Ids, handles, contexts and tasks are         *)
(* interchangeable.                                                        *)
(***************************************************************************)
EXTENDS Watch, TLC

Symmetry ==
  Permutations(ElementId) \cup Permutations(Handle)
    \cup Permutations(Context) \cup Permutations(Task)
=============================================================================
