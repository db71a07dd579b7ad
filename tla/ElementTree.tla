---------------------------- MODULE ElementTree ----------------------------
(***************************************************************************)
(* The parent/child links of the accessibility tree                        *)
(* (crates/allio/src/core/registry/tree.rs).                               *)
(*                                                                         *)
(* A tree is a record of two maps.  A HashMap is a total function: an      *)
(* absent key of parent_of reads None, an absent key of children_of reads  *)
(* {} (the code's accessors do not tell an absent list from an empty one). *)
(* Sibling lists are sets: the order of siblings is abstracted.            *)
(***************************************************************************)
CONSTANTS ElementId,    \* identifiers handed out by ElementId::new
          None          \* Rust's Option::None

ASSUME NoneIsNoElement == None \notin ElementId

Tree == [parent_of : [ElementId -> ElementId \cup {None}],
         children_of : [ElementId -> SUBSET ElementId]]

EmptyTree == [parent_of |-> [e \in ElementId |-> None],
              children_of |-> [e \in ElementId |-> {}]]

\* Fault: the old children keep their parent
UnlinkedNone(t, p) == t.parent_of

(***************************************************************************)
(* set_children: the old children that point back at p are unlinked, every *)
(* listed child that then has no parent (or p) is linked, and the list is  *)
(* stored as given, with the children it could not link still in it.       *)
(***************************************************************************)
Unlinked(t, p) ==
  [e \in ElementId |->
     IF e \in t.children_of[p] /\ t.parent_of[e] = p THEN None ELSE t.parent_of[e]]

\* Fault: a listed child is taken from the parent it has
TreeSetChildrenStealing(t, p, kids) ==
  [parent_of |-> [e \in ElementId |-> IF e \in kids THEN p ELSE Unlinked(t, p)[e]],
   children_of |-> [t.children_of EXCEPT ![p] = kids]]

TreeSetChildren(t, p, kids) ==
  [parent_of |-> [e \in ElementId |->
                    IF e \in kids /\ Unlinked(t, p)[e] = None
                    THEN p ELSE Unlinked(t, p)[e]],
   children_of |-> [t.children_of EXCEPT ![p] = kids]]

(***************************************************************************)
(* add_child, for every element of kids: one that already has a parent is  *)
(* left where it is (the code logs an error unless that parent is p).      *)
(***************************************************************************)
TreeAddChildren(t, p, kids) ==
  LET free == {e \in kids : t.parent_of[e] = None}
  IN  [parent_of |-> [e \in ElementId |-> IF e \in free THEN p ELSE t.parent_of[e]],
       children_of |-> [t.children_of EXCEPT ![p] = @ \cup free]]

TreeAddChild(t, p, c) == TreeAddChildren(t, p, {c})

(***************************************************************************)
(* remove_subtree: the work list pops an element, detaches it from its     *)
(* parent, drops its list and queues that list.  What it pops is the least *)
(* set that holds the root and is closed under children_of; the result     *)
(* does not depend on the order.                                           *)
(***************************************************************************)
ClosedUnderChildren(t, S) == \A e \in S : t.children_of[e] \subseteq S

Subtree(t, root) ==
  {e \in ElementId :
     \A S \in SUBSET ElementId : root \in S /\ ClosedUnderChildren(t, S) => e \in S}

RemoveSubtree(t, root) ==
  LET gone == Subtree(t, root)
  IN  [parent_of |-> [e \in ElementId |->
                        IF e \in gone THEN None ELSE t.parent_of[e]],
       children_of |-> [e \in ElementId |->
                          IF e \in gone THEN {}
                          ELSE t.children_of[e] \ {c \in gone : t.parent_of[c] = e}]]

(***************************************************************************)
(* The two halves of "Bidirectional consistency" (tree.rs:10-11).          *)
(***************************************************************************)
ParentListsChild(t) ==
  \A c \in ElementId : t.parent_of[c] # None => c \in t.children_of[t.parent_of[c]]

ChildPointsBack(t) ==
  \A p \in ElementId : \A c \in t.children_of[p] : t.parent_of[c] = p
============================================================================
