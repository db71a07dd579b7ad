---------------------------- MODULE MCQueryOverlay ----------------------------
(***************************************************************************)
(* A small instance of QueryOverlay: a window with a root "r" and a text   *)
(* area "a" below it.  The queries find the one or the other.              *)
(***************************************************************************)
EXTENDS QueryOverlay

MCOwner == [e \in Element |-> "w"]
MCRoot == [w \in Window |-> "r"]
MCShape == [e \in Element |->
  IF e = "r" THEN [role |-> "group", children |-> <<"a">>] ELSE [role |-> "textarea", children |-> <<>>]]
MCQueries == {<<"textarea">>, <<"group">>}

ASSUME FindsInWindow
============================================================================
