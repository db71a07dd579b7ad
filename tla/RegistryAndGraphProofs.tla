----------------------- MODULE RegistryAndGraphProofs -----------------------
(***************************************************************************)
(* The element registry keeps its indexes, its links, its orphan queue and *)
(* its subscribers consistent, for every number of ids, handles, windows   *)
(* and attribute values; and the graph demo: links, drawing and the bounds *)
(* it shows, for any elements and messages on their way.                   *)
(*                                                                         *)
(* Each method of the registry is a function from registry to registry.    *)
(* For each of them a predicate says what a caller may know of the         *)
(* registry q it makes of r, and a lemma that it does; the invariants are  *)
(* then proved from these predicates, and theorems apply the results to    *)
(* reg and reg'.  First comes what the operations of the element tree      *)
(* preserve.  The graph demo's functions are treated alike, from drawing   *)
(* to drawing, in the second part.                                         *)
(***************************************************************************)
EXTENDS RegistryAndGraph, SequenceTheorems, FiniteSetTheorems, WellFoundedInduction,
        NaturalsInduction, TLAPS

(***************************************************************************)
(* remove_subtree removes its root, and with an element all the children   *)
(* that element lists.                                                     *)
(***************************************************************************)
LEMMA SubtreeHasRoot ==
  ASSUME NEW t, NEW root \in ElementId
  PROVE  root \in Subtree(t, root)
  BY DEF Subtree

LEMMA SubtreeIsClosed ==
  ASSUME NEW t \in Tree, NEW root \in ElementId
  PROVE  ClosedUnderChildren(t, Subtree(t, root))
<1> SUFFICES ASSUME NEW e \in Subtree(t, root), NEW c \in t.children_of[e]
             PROVE  c \in Subtree(t, root)
  BY DEF ClosedUnderChildren
<1>1. e \in ElementId /\ c \in ElementId
  BY DEF Subtree, Tree
<1>2. ASSUME NEW S \in SUBSET ElementId, root \in S, ClosedUnderChildren(t, S)
      PROVE  c \in S
  BY <1>1, <1>2 DEF Subtree, ClosedUnderChildren
<1> QED
  BY <1>1, <1>2 DEF Subtree

(***************************************************************************)
(* The operations of tree.rs build trees.                                  *)
(***************************************************************************)
LEMMA TreeSetChildrenType ==
  ASSUME NEW t \in Tree, NEW p \in ElementId, NEW kids \in SUBSET ElementId
  PROVE  TreeSetChildren(t, p, kids) \in Tree
  BY DEF Tree, TreeSetChildren, Unlinked

LEMMA TreeAddChildrenType ==
  ASSUME NEW t \in Tree, NEW p \in ElementId, NEW kids \in SUBSET ElementId
  PROVE  TreeAddChildren(t, p, kids) \in Tree
<1> DEFINE free == {e \in kids : t.parent_of[e] = None}
<1>1. t.children_of[p] \cup free \in SUBSET ElementId
  BY DEF Tree
<1>2. [t.children_of EXCEPT ![p] = t.children_of[p] \cup free] \in [ElementId -> SUBSET ElementId]
  BY <1>1 DEF Tree
<1>3. [e \in ElementId |-> IF e \in free THEN p ELSE t.parent_of[e]]
        \in [ElementId -> ElementId \cup {None}]
  BY DEF Tree
<1> QED
  BY <1>2, <1>3 DEF Tree, TreeAddChildren

LEMMA RemoveSubtreeType ==
  ASSUME NEW t \in Tree, NEW root \in ElementId
  PROVE  RemoveSubtree(t, root) \in Tree
  BY DEF Tree, RemoveSubtree

(***************************************************************************)
(* Every operation of tree.rs keeps "whoever has a parent is listed by     *)
(* it", the forward half of tree.rs:10-11.                                 *)
(***************************************************************************)
LEMMA SetChildrenKeepsListing ==
  ASSUME NEW t \in Tree, NEW p \in ElementId, NEW kids \in SUBSET ElementId,
         ParentListsChild(t)
  PROVE  ParentListsChild(TreeSetChildren(t, p, kids))
<1> DEFINE u == TreeSetChildren(t, p, kids)
<1> SUFFICES ASSUME NEW c \in ElementId, u.parent_of[c] # None
             PROVE  c \in u.children_of[u.parent_of[c]]
  BY DEF ParentListsChild
<1>1. u.children_of = [t.children_of EXCEPT ![p] = kids]
  BY DEF TreeSetChildren
<1>2. u.parent_of[c] = IF c \in kids /\ Unlinked(t, p)[c] = None
                       THEN p ELSE Unlinked(t, p)[c]
  BY DEF TreeSetChildren
<1>3. CASE c \in kids /\ Unlinked(t, p)[c] = None
  BY <1>1, <1>2, <1>3 DEF Tree
<1>4. CASE ~(c \in kids /\ Unlinked(t, p)[c] = None)
  <2>1. Unlinked(t, p)[c] = t.parent_of[c] /\ t.parent_of[c] # None
    BY <1>2, <1>4 DEF Unlinked
  <2>2. t.parent_of[c] \in ElementId /\ c \in t.children_of[t.parent_of[c]]
    BY <2>1 DEF ParentListsChild, Tree
  <2>3. t.parent_of[c] # p
    BY <2>1, <2>2, NoneIsNoElement DEF Unlinked
  <2> QED
    BY <1>1, <1>2, <1>4, <2>1, <2>2, <2>3 DEF Tree
<1> QED
  BY <1>3, <1>4

LEMMA AddChildrenKeepsListing ==
  ASSUME NEW t \in Tree, NEW p \in ElementId, NEW kids \in SUBSET ElementId,
         ParentListsChild(t)
  PROVE  ParentListsChild(TreeAddChildren(t, p, kids))
<1> DEFINE u == TreeAddChildren(t, p, kids)
           free == {e \in kids : t.parent_of[e] = None}
<1> SUFFICES ASSUME NEW c \in ElementId, u.parent_of[c] # None
             PROVE  c \in u.children_of[u.parent_of[c]]
  BY DEF ParentListsChild
<1>1. u.children_of = [t.children_of EXCEPT ![p] = t.children_of[p] \cup free]
  BY DEF TreeAddChildren
<1>2. u.parent_of[c] = IF c \in free THEN p ELSE t.parent_of[c]
  BY DEF TreeAddChildren
<1>3. t.children_of \in [ElementId -> SUBSET ElementId]
      /\ t.parent_of \in [ElementId -> ElementId \cup {None}]
  BY DEF Tree
<1>4. CASE c \in free
  BY <1>1, <1>2, <1>3, <1>4
<1>5. CASE c \notin free
  <2>1. c \in t.children_of[t.parent_of[c]] /\ t.parent_of[c] \in ElementId
    BY <1>2, <1>3, <1>5 DEF ParentListsChild
  <2> QED
    BY <1>1, <1>2, <1>3, <1>5, <2>1
<1> QED
  BY <1>4, <1>5

LEMMA SurvivorsKeepParent ==
  ASSUME NEW t \in Tree, NEW root \in ElementId, ParentListsChild(t),
         NEW c \in ElementId, c \notin Subtree(t, root), t.parent_of[c] # None
  PROVE  t.parent_of[c] \in ElementId \ Subtree(t, root)
<1>1. t.parent_of[c] \in ElementId /\ c \in t.children_of[t.parent_of[c]]
  BY DEF ParentListsChild, Tree
<1> QED
  BY <1>1, SubtreeIsClosed DEF ClosedUnderChildren

LEMMA RemoveSubtreeKeepsListing ==
  ASSUME NEW t \in Tree, NEW root \in ElementId, ParentListsChild(t)
  PROVE  ParentListsChild(RemoveSubtree(t, root))
<1> DEFINE gone == Subtree(t, root)
           u == RemoveSubtree(t, root)
<1> SUFFICES ASSUME NEW c \in ElementId, u.parent_of[c] # None
             PROVE  c \in u.children_of[u.parent_of[c]]
  BY DEF ParentListsChild
<1>1. c \notin gone /\ u.parent_of[c] = t.parent_of[c]
  BY DEF RemoveSubtree
<1>2. t.parent_of[c] \in ElementId \ gone
  BY <1>1, SurvivorsKeepParent
<1>3. c \in t.children_of[t.parent_of[c]]
  BY <1>1 DEF ParentListsChild
<1> QED
  BY <1>1, <1>2, <1>3 DEF RemoveSubtree

----------------------------------------------------------------------------
USE RegistryAssumption, NoneIsNoElement

----------------------------------------------------------------------------
\* build_element reports a live element and its children.
LEMMA BuildElementIsElement ==
  ASSUME NEW r \in Registry, NEW e \in Live(r)
  PROVE  /\ BuildElement(r, e) \in Element /\ BuildElement(r, e) # None
         /\ BuildElement(r, e).children = r.tree.children_of[e]
  BY DEF Live, BuildElement, Element, Registry, Tree, CachedElement

\* What an emit of ids makes of r: only what subscribers hold changes.
Emitted(r, ids, q) ==
  /\ q \in Registry
  /\ q.elements = r.elements /\ q.tree = r.tree
  /\ q.handle_to_id = r.handle_to_id /\ q.waiting = r.waiting
  /\ \A e \in ElementId :
       q.heard[e] = IF e \in ids \cap Live(r) THEN BuildElement(r, e) ELSE r.heard[e]

\* emit_element_changed and emit_element_added touch nothing else.
LEMMA EmitElementEmits ==
  ASSUME NEW r \in Registry, NEW ids
  PROVE  Emitted(r, ids, EmitElement(r, ids))
<1> DEFINE told == [e \in ElementId |->
                      IF e \in ids \cap Live(r) THEN BuildElement(r, e) ELSE r.heard[e]]
<1>1. told \in [ElementId -> Element \cup {None}]
  BY BuildElementIsElement DEF Registry
<1>2. EmitElement(r, ids) = [r EXCEPT !.heard = told]
  BY DEF EmitElement
<1>3. \A e \in ElementId :
        told[e] = IF e \in ids \cap Live(r) THEN BuildElement(r, e) ELSE r.heard[e]
  OBVIOUS
<1> HIDE DEF told
<1>4. /\ EmitElement(r, ids) \in Registry
      /\ EmitElement(r, ids).heard = told
      /\ EmitElement(r, ids).elements = r.elements /\ EmitElement(r, ids).tree = r.tree
      /\ EmitElement(r, ids).handle_to_id = r.handle_to_id
      /\ EmitElement(r, ids).waiting = r.waiting
  BY <1>1, <1>2 DEF Registry
<1> QED
  BY <1>3, <1>4 DEF Emitted

(***************************************************************************)
(* q is r with one entry replaced by another of the same handles, and with *)
(* at most that element emitted.                                           *)
(***************************************************************************)
Rewritten(r, id, q) ==
  /\ q \in Registry /\ q.tree = r.tree
  /\ q.handle_to_id = r.handle_to_id /\ q.waiting = r.waiting
  /\ Live(q) = Live(r)
  /\ \A e \in ElementId \ {id} : q.elements[e] = r.elements[e]
  /\ q.elements[id].handle = r.elements[id].handle
  /\ \A e \in ElementId : \/ q.heard[e] = r.heard[e]
                          \/ /\ e \in Live(r) /\ q.heard[e] \in Element
                             /\ q.heard[e].children = r.tree.children_of[e]

\* Emitting an element of a rewritten registry leaves it a rewritten one.
LEMMA EmitAfterRewrite ==
  ASSUME NEW r \in Registry, NEW id \in Live(r), NEW u, Rewritten(r, id, u),
         u.heard = r.heard
  PROVE  Rewritten(r, id, EmitElement(u, {id}))
<1> DEFINE q == EmitElement(u, {id})
<1>1. Emitted(u, {id}, q)
  BY EmitElementEmits DEF Rewritten
<1> HIDE DEF q
<1>2. Live(q) = Live(r) /\ Live(u) = Live(r)
  BY <1>1 DEF Emitted, Rewritten, Live
<1>3. BuildElement(u, id) \in Element
      /\ BuildElement(u, id).children = r.tree.children_of[id]
  BY <1>2, BuildElementIsElement DEF Rewritten
<1>4. \A e \in ElementId : \/ q.heard[e] = r.heard[e]
                           \/ /\ e \in Live(r) /\ q.heard[e] \in Element
                              /\ q.heard[e].children = r.tree.children_of[e]
  BY <1>1, <1>2, <1>3 DEF Emitted
<1>5. Rewritten(r, id, q)
  BY <1>1, <1>2, <1>4 DEF Emitted, Rewritten
<1> QED
  BY <1>5 DEF q

\* Any replacement of an entry by one of the same handle is a rewriting.
LEMMA ReplaceEntry ==
  ASSUME NEW r \in Registry, NEW id \in Live(r), NEW new \in CachedElement,
         new.handle = r.elements[id].handle
  PROVE  /\ Rewritten(r, id, [r EXCEPT !.elements = [r.elements EXCEPT ![id] = new]])
         /\ [r EXCEPT !.elements = [r.elements EXCEPT ![id] = new]].heard = r.heard
         /\ [r EXCEPT !.elements = [r.elements EXCEPT ![id] = new]].elements[id] = new
<1> DEFINE els == [r.elements EXCEPT ![id] = new]
           q == [r EXCEPT !.elements = els]
<1>1. id \in ElementId /\ new # None
  BY DEF Live
<1>2. /\ els \in [ElementId -> CachedElement \cup {None}]
      /\ els[id] = new /\ \A e \in ElementId \ {id} : els[e] = r.elements[e]
  BY <1>1 DEF Registry
<1> HIDE DEF els
<1>3. /\ q \in Registry /\ q.elements = els /\ q.tree = r.tree
      /\ q.handle_to_id = r.handle_to_id /\ q.waiting = r.waiting /\ q.heard = r.heard
  BY <1>2 DEF Registry
<1> HIDE DEF q
<1>4. Live(q) = Live(r)
  BY <1>1, <1>2, <1>3 DEF Live
<1>5. Rewritten(r, id, q) /\ q.heard = r.heard /\ q.elements[id] = new
  BY <1>1, <1>2, <1>3, <1>4 DEF Rewritten
<1> QED
  BY <1>5 DEF q, els

(***************************************************************************)
(* update_element, and the two refreshes, rewrite one entry.               *)
(***************************************************************************)
LEMMA UpdateElementRewrites ==
  ASSUME NEW r \in Registry, NEW id \in Live(r), NEW entry \in CachedElement,
         entry.handle = r.elements[id].handle
  PROVE  /\ Rewritten(r, id, UpdateElement(r, id, entry))
         /\ UpdateElement(r, id, entry).elements[id] = entry
<1> DEFINE u == [r EXCEPT !.elements = [r.elements EXCEPT ![id] = entry]]
<1>1. [entry EXCEPT !.handle = r.elements[id].handle] = entry
  BY DEF CachedElement
<1>2. [r EXCEPT !.elements[id] = [entry EXCEPT !.handle = r.elements[id].handle]] = u
  BY <1>1
<1>3. UpdateElement(r, id, entry) \in {u, EmitElement(u, {id})}
  BY <1>2 DEF UpdateElement
<1>4. Rewritten(r, id, u) /\ u.heard = r.heard /\ u.elements[id] = entry
  BY ReplaceEntry
<1> HIDE DEF u
<1>5. Rewritten(r, id, EmitElement(u, {id}))
  BY <1>4, EmitAfterRewrite
<1>6. EmitElement(u, {id}).elements = u.elements
  BY <1>4, EmitElementEmits DEF Emitted, Rewritten
<1> QED
  BY <1>3, <1>4, <1>5, <1>6

LEMMA RefreshRewrites ==
  ASSUME NEW r \in Registry, NEW id \in ElementId, NEW attrs \in Attributes,
         NEW q \in {RefreshElement(r, id, attrs), RefreshSilently(r, id, attrs)}
  PROVE  \/ q = r
         \/ /\ id \in Live(r) /\ Rewritten(r, id, q)
            /\ q.elements[id].parent_handle = r.elements[id].parent_handle
            /\ r.elements[id] \in BuildEntry => q.elements[id] \in BuildEntry
<1> DEFINE new == [r.elements[id] EXCEPT !.attrs = attrs]
           u == [r EXCEPT !.elements = [r.elements EXCEPT ![id] = new]]
<1>1. CASE r.elements[id] = None
  BY <1>1 DEF RefreshElement, RefreshSilently
<1>2. CASE r.elements[id] # None
  <2>1. id \in Live(r) /\ r.elements[id] \in CachedElement
    BY <1>2 DEF Live, Registry
  <2>2. /\ new \in CachedElement
        /\ new.handle = r.elements[id].handle
        /\ new.parent_handle = r.elements[id].parent_handle
        /\ new.is_root = r.elements[id].is_root
    BY <2>1 DEF CachedElement
  <2>3. r.elements[id] \in BuildEntry => new \in BuildEntry
    BY <2>2 DEF BuildEntry
  <2>4. [r EXCEPT !.elements[id].attrs = attrs] = u
    OBVIOUS
  <2>5. q \in {u, EmitElement(u, {id}), r}
    BY <2>4 DEF RefreshElement, RefreshSilently
  <2> HIDE DEF new
  <2>6. Rewritten(r, id, u) /\ u.heard = r.heard /\ u.elements[id] = new
    BY <2>1, <2>2, ReplaceEntry
  <2> HIDE DEF u
  <2>7. Rewritten(r, id, EmitElement(u, {id}))
    BY <2>1, <2>6, EmitAfterRewrite
  <2>8. EmitElement(u, {id}).elements = u.elements
    BY <2>6, EmitElementEmits DEF Emitted, Rewritten
  <2> QED
    BY <2>1, <2>2, <2>3, <2>5, <2>6, <2>7, <2>8
<1> QED
  BY <1>1, <1>2

----------------------------------------------------------------------------
(***************************************************************************)
(* remove_element builds a registry; its fields are its definition.        *)
(***************************************************************************)
LEMMA RemoveElementType ==
  ASSUME NEW r \in Registry, NEW root \in ElementId
  PROVE  RemoveElement(r, root) \in Registry
<1>1. RemoveSubtree(r.tree, root) \in Tree
  BY RemoveSubtreeType DEF Registry
<1> QED
  BY <1>1 DEF RemoveElement, Registry

LEMMA RemoveElementLive ==
  ASSUME NEW r \in Registry, NEW root \in ElementId
  PROVE  /\ Live(RemoveElement(r, root)) = Live(r) \ Subtree(r.tree, root)
         /\ \A e \in Live(RemoveElement(r, root)) :
              RemoveElement(r, root).elements[e] = r.elements[e]
  BY DEF Live, RemoveElement

(***************************************************************************)
(* The three stages of an insertion: the new element is indexed, ...       *)
(***************************************************************************)
Indexed(r, entry, id, q) ==
  /\ q \in Registry
  /\ q.tree = r.tree /\ q.waiting = r.waiting /\ q.heard = r.heard
  /\ q.elements[id] = entry
  /\ \A e \in ElementId \ {id} : q.elements[e] = r.elements[e]
  /\ q.handle_to_id[entry.handle] = id
  /\ \A h \in Handle \ {entry.handle} : q.handle_to_id[h] = r.handle_to_id[h]

LEMMA IndexElementIndexes ==
  ASSUME NEW r \in Registry, NEW entry \in CachedElement, NEW id \in ElementId
  PROVE  Indexed(r, entry, id, IndexElement(r, entry, id))
<1> DEFINE els == [r.elements EXCEPT ![id] = entry]
           idx == [r.handle_to_id EXCEPT ![entry.handle] = id]
           q == [r EXCEPT !.handle_to_id = idx, !.elements = els]
<1>1. entry.handle \in Handle
  BY DEF CachedElement
<1>2. /\ els \in [ElementId -> CachedElement \cup {None}] /\ els[id] = entry
      /\ \A e \in ElementId \ {id} : els[e] = r.elements[e]
  BY DEF Registry
<1>3. /\ idx \in [Handle -> ElementId \cup {None}] /\ idx[entry.handle] = id
      /\ \A h \in Handle \ {entry.handle} : idx[h] = r.handle_to_id[h]
  BY <1>1 DEF Registry
<1>4. IndexElement(r, entry, id) = q
  BY DEF IndexElement
<1> HIDE DEF els, idx
<1>5. /\ q \in Registry /\ q.elements = els /\ q.handle_to_id = idx
      /\ q.tree = r.tree /\ q.waiting = r.waiting /\ q.heard = r.heard
  BY <1>2, <1>3 DEF Registry
<1> HIDE DEF q
<1> QED
  BY <1>2, <1>3, <1>4, <1>5 DEF Indexed

(***************************************************************************)
(* ... linked under its parent p or queued for it, ...                     *)
(***************************************************************************)
LinkedUnder(r, p, id, q) ==
  /\ q.waiting = r.waiting
  /\ q.tree = TreeAddChildren(r.tree, p, {id})
  /\ \A e \in ElementId \ {p} : q.heard[e] = r.heard[e]
  /\ p \in Live(r) => q.heard[p] \in Element /\ q.heard[p].children = q.tree.children_of[p]
  /\ p \notin Live(r) => q.heard[p] = r.heard[p]

QueuedFor(r, h, id, q) ==
  /\ q.tree = r.tree /\ q.heard = r.heard
  /\ q.waiting[h] = r.waiting[h] \cup {id}
  /\ \A g \in Handle \ {h} : q.waiting[g] = r.waiting[g]

LinkedOrQueued(r, entry, id, q) ==
  /\ q \in Registry
  /\ q.elements = r.elements /\ q.handle_to_id = r.handle_to_id
  /\ \/ q = r
     \/ /\ ~entry.is_root /\ entry.parent_handle \in Handle
        /\ \/ /\ r.handle_to_id[entry.parent_handle] \in ElementId
              /\ LinkedUnder(r, r.handle_to_id[entry.parent_handle], id, q)
           \/ /\ r.handle_to_id[entry.parent_handle] = None
              /\ QueuedFor(r, entry.parent_handle, id, q)

LEMMA AddChildAndEmit ==
  ASSUME NEW r \in Registry, NEW p \in ElementId, NEW id \in ElementId
  PROVE  LET q == EmitElement([r EXCEPT !.tree = TreeAddChild(r.tree, p, id)], {p})
         IN  /\ q \in Registry /\ q.elements = r.elements
             /\ q.handle_to_id = r.handle_to_id /\ LinkedUnder(r, p, id, q)
<1> DEFINE t == TreeAddChildren(r.tree, p, {id})
           u == [r EXCEPT !.tree = t]
           q == EmitElement(u, {p})
<1>1. t \in Tree
  BY TreeAddChildrenType DEF Registry
<1>2. TreeAddChild(r.tree, p, id) = t
  BY DEF TreeAddChild
<1>3. t = TreeAddChildren(r.tree, p, {id})
  OBVIOUS
<1> HIDE DEF t
<1>4. /\ u \in Registry /\ u.tree = t /\ u.elements = r.elements
      /\ u.handle_to_id = r.handle_to_id /\ u.waiting = r.waiting /\ u.heard = r.heard
  BY <1>1 DEF Registry
<1> HIDE DEF u
<1>5. Emitted(u, {p}, q)
  BY <1>4, EmitElementEmits
<1> HIDE DEF q
<1>6. Live(u) = Live(r)
  BY <1>4 DEF Live
<1>7. p \in Live(r) => BuildElement(u, p) \in Element
                        /\ BuildElement(u, p).children = u.tree.children_of[p]
  BY <1>4, <1>6, BuildElementIsElement
<1>8. /\ q \in Registry /\ q.elements = r.elements
      /\ q.handle_to_id = r.handle_to_id /\ LinkedUnder(r, p, id, q)
  BY <1>3, <1>4, <1>5, <1>6, <1>7 DEF Emitted, LinkedUnder
<1> QED
  BY <1>2, <1>8 DEF q, u

LEMMA LinkOrQueueLinks ==
  ASSUME NEW r \in Registry, NEW entry \in CachedElement, NEW id \in ElementId
  PROVE  LinkedOrQueued(r, entry, id, LinkOrQueue(r, entry, id))
<1> DEFINE ph == entry.parent_handle
           p == r.handle_to_id[ph]
           q == LinkOrQueue(r, entry, id)
<1>1. CASE entry.is_root \/ ph = None
  BY <1>1 DEF LinkOrQueue, LinkedOrQueued
<1>2. CASE ~entry.is_root /\ ph # None /\ p # None
  <2>1. ph \in Handle /\ p \in ElementId
    BY <1>2 DEF CachedElement, Registry
  <2>2. q = EmitElement([r EXCEPT !.tree = TreeAddChild(r.tree, p, id)], {p})
    BY <1>2 DEF LinkOrQueue
  <2>3. /\ q \in Registry /\ q.elements = r.elements
        /\ q.handle_to_id = r.handle_to_id /\ LinkedUnder(r, p, id, q)
    BY <2>1, <2>2, AddChildAndEmit
  <2> HIDE DEF q
  <2>4. LinkedOrQueued(r, entry, id, q)
    BY <1>2, <2>1, <2>3 DEF LinkedOrQueued
  <2> QED
    BY <2>4 DEF q
<1>3. CASE ~entry.is_root /\ ph # None /\ p = None
  <2> DEFINE w == [r.waiting EXCEPT ![ph] = @ \cup {id}]
  <2>1. ph \in Handle
    BY <1>3 DEF CachedElement
  <2>2. /\ w \in [Handle -> SUBSET ElementId]
        /\ w[ph] = r.waiting[ph] \cup {id}
        /\ \A g \in Handle \ {ph} : w[g] = r.waiting[g]
    BY <2>1 DEF Registry
  <2>3. q = [r EXCEPT !.waiting = w]
    BY <1>3 DEF LinkOrQueue
  <2> HIDE DEF w, q
  <2>4. /\ q \in Registry /\ q.waiting = w /\ q.elements = r.elements
        /\ q.handle_to_id = r.handle_to_id /\ q.tree = r.tree /\ q.heard = r.heard
    BY <2>2, <2>3 DEF Registry
  <2>5. LinkedOrQueued(r, entry, id, q)
    BY <1>3, <2>1, <2>2, <2>4 DEF LinkedOrQueued, QueuedFor
  <2> QED
    BY <2>5 DEF q
<1> QED
  BY <1>1, <1>2, <1>3

(***************************************************************************)
(* ... and given the elements that waited for it.                          *)
(***************************************************************************)
Adopted(r, entry, id, q) ==
  /\ q \in Registry
  /\ q.elements = r.elements /\ q.handle_to_id = r.handle_to_id
  /\ q.tree = TreeAddChildren(r.tree, id, r.waiting[entry.handle])
  /\ q.waiting[entry.handle] = {}
  /\ \A g \in Handle \ {entry.handle} : q.waiting[g] = r.waiting[g]
  /\ \A e \in ElementId : \/ q.heard[e] = r.heard[e]
                          \/ /\ e \in Live(r) /\ q.heard[e] \in Element
                             /\ q.heard[e].children = q.tree.children_of[e]

LEMMA AdoptOrphansAdopts ==
  ASSUME NEW r \in Registry, NEW entry \in CachedElement, NEW id \in ElementId
  PROVE  Adopted(r, entry, id, AdoptOrphans(r, entry, id))
<1> DEFINE orphans == r.waiting[entry.handle]
           t == TreeAddChildren(r.tree, id, orphans)
           w == [r.waiting EXCEPT ![entry.handle] = {}]
           u == [r EXCEPT !.tree = t, !.waiting = w]
           q == EmitElement(u, orphans)
<1>1. entry.handle \in Handle /\ orphans \in SUBSET ElementId
  BY DEF CachedElement, Registry
<1>2. t \in Tree
  BY <1>1, TreeAddChildrenType DEF Registry
<1>3. /\ w \in [Handle -> SUBSET ElementId] /\ w[entry.handle] = {}
      /\ \A g \in Handle \ {entry.handle} : w[g] = r.waiting[g]
  BY <1>1 DEF Registry
<1>4. AdoptOrphans(r, entry, id) = q /\ t = TreeAddChildren(r.tree, id, orphans)
  BY DEF AdoptOrphans
<1> HIDE DEF t, w
<1>5. /\ u \in Registry /\ u.tree = t /\ u.elements = r.elements
      /\ u.handle_to_id = r.handle_to_id /\ u.waiting = w /\ u.heard = r.heard
  BY <1>2, <1>3 DEF Registry
<1> HIDE DEF u
<1>6. Emitted(u, orphans, q)
  BY <1>5, EmitElementEmits
<1> HIDE DEF q
<1>7. Live(u) = Live(r)
  BY <1>5 DEF Live
<1>8. \A e \in Live(r) : BuildElement(u, e) \in Element
                          /\ BuildElement(u, e).children = u.tree.children_of[e]
  BY <1>5, <1>7, BuildElementIsElement
<1>9. Adopted(r, entry, id, q)
  BY <1>3, <1>4, <1>5, <1>6, <1>7, <1>8 DEF Emitted, Adopted
<1> QED
  BY <1>4, <1>9

(***************************************************************************)
(* set_children replaces one list and claims the orphans it links.         *)
(***************************************************************************)
ChildrenSet(r, id, kids, q) ==
  /\ id \in Live(r)
  /\ q.tree = TreeSetChildren(r.tree, id, kids)
  /\ \A h \in Handle :
       q.waiting[h] = r.waiting[h] \ {c \in kids : r.elements[c].parent_handle = h}
  /\ q.heard[id] \in Element
  /\ q.heard[id].children = q.tree.children_of[id]
  /\ \A e \in ElementId \ {id} : q.heard[e] = r.heard[e]

LEMMA SetChildrenSets ==
  ASSUME NEW r \in Registry, NEW id \in ElementId, NEW ids \in SUBSET ElementId,
         NEW reordered \in BOOLEAN
  PROVE  LET q == SetChildren(r, id, ids, reordered)
         IN  /\ q \in Registry
             /\ q.elements = r.elements /\ q.handle_to_id = r.handle_to_id
             /\ q = r \/ ChildrenSet(r, id, ids \cap Live(r), q)
<1> DEFINE valid == ids \cap Live(r)
           w == [h \in Handle |->
                   r.waiting[h] \ {c \in valid : r.elements[c].parent_handle = h}]
           t == TreeSetChildren(r.tree, id, valid)
           u == [r EXCEPT !.waiting = w, !.tree = t]
           q == SetChildren(r, id, ids, reordered)
<1>1. CASE r.elements[id] = None \/ (valid = r.tree.children_of[id] /\ ~reordered)
  BY <1>1 DEF SetChildren
<1>2. CASE ~(r.elements[id] = None \/ (valid = r.tree.children_of[id] /\ ~reordered))
  <2>1. q = EmitElement(u, {id}) /\ t = TreeSetChildren(r.tree, id, valid)
    BY <1>2 DEF SetChildren
  <2>2. t \in Tree
    BY TreeSetChildrenType DEF Registry
  <2>3. /\ w \in [Handle -> SUBSET ElementId]
        /\ \A h \in Handle :
             w[h] = r.waiting[h] \ {c \in valid : r.elements[c].parent_handle = h}
    BY DEF Registry
  <2> HIDE DEF t, w
  <2>4. /\ u \in Registry /\ u.tree = t /\ u.elements = r.elements
        /\ u.handle_to_id = r.handle_to_id /\ u.waiting = w /\ u.heard = r.heard
    BY <2>2, <2>3 DEF Registry
  <2> HIDE DEF u, q
  <2>5. Emitted(u, {id}, q)
    BY <2>1, <2>4, EmitElementEmits
  <2>6. Live(u) = Live(r) /\ id \in Live(r)
    BY <1>2, <2>4 DEF Live
  <2>7. BuildElement(u, id) \in Element
        /\ BuildElement(u, id).children = u.tree.children_of[id]
    BY <2>4, <2>6, BuildElementIsElement
  <2>8. /\ q \in Registry /\ q.elements = r.elements /\ q.handle_to_id = r.handle_to_id
        /\ ChildrenSet(r, id, valid, q)
    BY <2>1, <2>3, <2>4, <2>5, <2>6, <2>7 DEF Emitted, ChildrenSet
  <2> QED
    BY <2>8 DEF q
<1> QED
  BY <1>1, <1>2

----------------------------------------------------------------------------
(***************************************************************************)
(* Where the three stages of an insertion leave the registry.              *)
(***************************************************************************)
Stages(r, entry, id, r1, r2, r3, q) ==
  /\ Indexed(r, entry, id, r1)
  /\ LinkedOrQueued(r1, entry, id, r2)
  /\ Adopted(r2, entry, id, r3)
  /\ Emitted(r3, {id}, q)

LEMMA InsertElementStages ==
  ASSUME NEW r \in Registry, NEW entry \in CachedElement, NEW id \in ElementId
  PROVE  \E r1, r2, r3 : Stages(r, entry, id, r1, r2, r3, InsertElement(r, entry, id))
<1> DEFINE r1 == IndexElement(r, entry, id)
           r2 == LinkOrQueue(r1, entry, id)
           r3 == AdoptOrphans(r2, entry, id)
           q == EmitElement(r3, {id})
<1>1. Indexed(r, entry, id, r1)
  BY IndexElementIndexes
<1> HIDE DEF r1
<1>2. LinkedOrQueued(r1, entry, id, r2)
  BY <1>1, LinkOrQueueLinks DEF Indexed
<1> HIDE DEF r2
<1>3. Adopted(r2, entry, id, r3)
  BY <1>2, AdoptOrphansAdopts DEF LinkedOrQueued
<1> HIDE DEF r3
<1>4. Emitted(r3, {id}, q)
  BY <1>3, EmitElementEmits DEF Adopted
<1>5. InsertElement(r, entry, id) = q
  BY DEF InsertElement, r1, r2, r3
<1> QED
  BY <1>1, <1>2, <1>3, <1>4, <1>5 DEF Stages

\* Only the first stage touches the index and the element map.
LEMMA InsertElementFields ==
  ASSUME NEW r \in Registry, NEW entry \in CachedElement, NEW id \in ElementId,
         NEW q, q = InsertElement(r, entry, id)
  PROVE  /\ q \in Registry
         /\ q.elements[id] = entry
         /\ \A e \in ElementId \ {id} : q.elements[e] = r.elements[e]
         /\ q.handle_to_id[entry.handle] = id
         /\ \A h \in Handle \ {entry.handle} : q.handle_to_id[h] = r.handle_to_id[h]
         /\ Live(q) = Live(r) \cup {id}
<1>1. PICK r1, r2, r3 : Stages(r, entry, id, r1, r2, r3, q)
  BY InsertElementStages
<1>2. /\ q \in Registry
      /\ q.elements[id] = entry
      /\ \A e \in ElementId \ {id} : q.elements[e] = r.elements[e]
      /\ q.handle_to_id[entry.handle] = id
      /\ \A h \in Handle \ {entry.handle} : q.handle_to_id[h] = r.handle_to_id[h]
  BY <1>1 DEF Stages, Indexed, LinkedOrQueued, Adopted, Emitted
<1>3. Live(q) = Live(r) \cup {id}
  BY <1>2 DEF Live
<1> QED
  BY <1>2, <1>3

----------------------------------------------------------------------------
(***************************************************************************)
(* The handle index stays the inverse of the element map.                  *)
(***************************************************************************)
LEMMA RemoveKeepsIndex ==
  ASSUME NEW r \in Registry, NEW root \in ElementId, HandleIndex(r)
  PROVE  HandleIndex(RemoveElement(r, root))
<1> DEFINE gone == Subtree(r.tree, root)
           q == RemoveElement(r, root)
           freed == {r.elements[id].handle : id \in gone \cap Live(r)}
<1>1. /\ q.handle_to_id = [h \in Handle |-> IF h \in freed THEN None ELSE r.handle_to_id[h]]
      /\ q.elements = [id \in ElementId |-> IF id \in gone THEN None ELSE r.elements[id]]
  BY DEF RemoveElement
<1>2. ASSUME NEW h \in Handle, q.handle_to_id[h] # None
      PROVE  /\ q.elements[q.handle_to_id[h]] # None
             /\ q.elements[q.handle_to_id[h]].handle = h
  <2>1. h \notin freed /\ q.handle_to_id[h] = r.handle_to_id[h]
    BY <1>1, <1>2
  <2>2. /\ r.handle_to_id[h] \in Live(r)
        /\ r.elements[r.handle_to_id[h]].handle = h
    BY <1>2, <2>1 DEF HandleIndex, Live, Registry
  <2>3. r.handle_to_id[h] \notin gone
    BY <2>1, <2>2
  <2> QED
    BY <1>1, <2>1, <2>2, <2>3 DEF Live
<1>3. ASSUME NEW id \in Live(q)
      PROVE  q.handle_to_id[q.elements[id].handle] = id
  <2>1. id \in Live(r) \ gone /\ q.elements[id] = r.elements[id]
    BY <1>1, <1>3 DEF Live
  <2>2. r.elements[id].handle \in Handle /\ r.handle_to_id[r.elements[id].handle] = id
    BY <2>1 DEF HandleIndex, Registry, Live, CachedElement
  <2>3. r.elements[id].handle \notin freed
    <3>1. ASSUME NEW d \in gone \cap Live(r), r.elements[d].handle = r.elements[id].handle
          PROVE  FALSE
      <4>1. r.handle_to_id[r.elements[d].handle] = d
        BY DEF HandleIndex
      <4> QED
        BY <2>1, <2>2, <3>1, <4>1
    <3> QED
      BY <3>1
  <2>4. q.handle_to_id[r.elements[id].handle] = r.handle_to_id[r.elements[id].handle]
    BY <1>1, <2>2, <2>3
  <2> QED
    BY <2>1, <2>2, <2>4
<1> QED
  BY <1>2, <1>3 DEF HandleIndex

LEMMA InsertKeepsIndex ==
  ASSUME NEW r \in Registry, NEW entry \in CachedElement,
         NEW id \in ElementId \ Live(r),
         HandleIndex(r), r.handle_to_id[entry.handle] = None
  PROVE  HandleIndex(InsertElement(r, entry, id))
<1> SUFFICES ASSUME NEW q, q = InsertElement(r, entry, id) PROVE HandleIndex(q)
  OBVIOUS
<1>1. /\ q \in Registry
      /\ q.elements[id] = entry
      /\ \A e \in ElementId \ {id} : q.elements[e] = r.elements[e]
      /\ q.handle_to_id[entry.handle] = id
      /\ \A h \in Handle \ {entry.handle} : q.handle_to_id[h] = r.handle_to_id[h]
      /\ Live(q) = Live(r) \cup {id}
  BY InsertElementFields
<1>2. entry.handle \in Handle /\ entry # None
  BY DEF CachedElement
<1>3. ASSUME NEW h \in Handle, q.handle_to_id[h] # None
      PROVE  /\ q.elements[q.handle_to_id[h]] # None
             /\ q.elements[q.handle_to_id[h]].handle = h
  <2>1. CASE h = entry.handle
    BY <1>1, <1>2, <2>1
  <2>2. CASE h # entry.handle
    <3>1. q.handle_to_id[h] = r.handle_to_id[h]
      BY <1>1, <2>2
    <3>2. /\ r.handle_to_id[h] \in Live(r)
          /\ r.elements[r.handle_to_id[h]].handle = h
      BY <1>3, <3>1 DEF HandleIndex, Live, Registry
    <3> QED
      BY <1>1, <3>1, <3>2 DEF Live
  <2> QED
    BY <2>1, <2>2
<1>4. ASSUME NEW e \in Live(q)
      PROVE  q.handle_to_id[q.elements[e].handle] = e
  <2>1. CASE e = id
    BY <1>1, <1>2, <2>1
  <2>2. CASE e # id
    <3>1. e \in Live(r) /\ q.elements[e] = r.elements[e]
      BY <1>1, <2>2 DEF Live
    <3>2. r.elements[e].handle \in Handle /\ r.handle_to_id[r.elements[e].handle] = e
      BY <3>1 DEF HandleIndex, Registry, Live, CachedElement
    <3>3. r.elements[e].handle # entry.handle
      BY <3>1, <3>2 DEF Live
    <3> QED
      BY <1>1, <3>1, <3>2, <3>3
  <2> QED
    BY <2>1, <2>2
<1> QED
  BY <1>3, <1>4 DEF HandleIndex

LEMMA RewriteKeepsIndex ==
  ASSUME NEW r \in Registry, NEW id \in Live(r), NEW q, Rewritten(r, id, q),
         HandleIndex(r)
  PROVE  HandleIndex(q)
<1>1. \A e \in Live(r) : q.elements[e].handle = r.elements[e].handle
  BY DEF Rewritten, Live
<1> QED
  BY <1>1 DEF Rewritten, HandleIndex, Live, Registry

----------------------------------------------------------------------------
(***************************************************************************)
(* Subscribers know the live elements and miss no child.                   *)
(***************************************************************************)
LEMMA RemoveKeepsHeard ==
  ASSUME NEW r \in Registry, NEW root \in ElementId, HeardExactly(r)
  PROVE  HeardExactly(RemoveElement(r, root))
<1> DEFINE gone == Subtree(r.tree, root)
           q == RemoveElement(r, root)
<1>1. Live(q) = Live(r) \ gone
  BY RemoveElementLive
<1>2. /\ \A e \in ElementId :
           q.heard[e] = IF e \in gone \cap Live(r) THEN None ELSE r.heard[e]
      /\ \A e \in ElementId : q.tree.children_of[e] \subseteq r.tree.children_of[e]
  BY DEF RemoveElement, RemoveSubtree
<1>3. Live(r) \subseteq ElementId
  BY DEF Live
<1> HIDE DEF q, gone
<1>4. HeardExactly(q)
  BY <1>1, <1>2, <1>3 DEF HeardExactly
<1> QED
  BY <1>4 DEF q

LEMMA RewriteKeepsHeard ==
  ASSUME NEW r \in Registry, NEW id \in Live(r), NEW q, Rewritten(r, id, q),
         HeardExactly(r)
  PROVE  HeardExactly(q)
<1>1. Live(r) \subseteq ElementId
  BY DEF Live
<1> QED
  BY <1>1 DEF Rewritten, HeardExactly

\* r, halfway through the insertion of id, is right about all others.
HeardOthers(r, id) ==
  \A e \in ElementId \ {id} :
     /\ r.heard[e] # None <=> e \in Live(r)
     /\ e \in Live(r) => r.tree.children_of[e] \subseteq r.heard[e].children

LEMMA OnlyTheParentGrows ==
  ASSUME NEW t \in Tree, NEW p \in ElementId, NEW kids \in SUBSET ElementId
  PROVE  \A e \in ElementId \ {p} : TreeAddChildren(t, p, kids).children_of[e] = t.children_of[e]
  BY DEF TreeAddChildren, Tree

LEMMA LinkKeepsHeard ==
  ASSUME NEW r \in Registry, NEW entry, NEW id \in ElementId, NEW q,
         HeardOthers(r, id), LinkedOrQueued(r, entry, id, q)
  PROVE  HeardOthers(q, id)
<1> DEFINE p == r.handle_to_id[entry.parent_handle]
<1>1. Live(q) = Live(r) /\ r.tree \in Tree
  BY DEF LinkedOrQueued, Live, Registry
<1>2. CASE q.tree = r.tree /\ q.heard = r.heard
  BY <1>1, <1>2 DEF HeardOthers
<1>3. CASE p \in ElementId /\ LinkedUnder(r, p, id, q)
  <2>0. {id} \in SUBSET ElementId
    OBVIOUS
  <2> HIDE DEF p
  <2>1. \A e \in ElementId \ {p} : q.tree.children_of[e] = r.tree.children_of[e]
    <3>1. \A e \in ElementId \ {p} :
            TreeAddChildren(r.tree, p, {id}).children_of[e] = r.tree.children_of[e]
      BY <1>1, <1>3, <2>0, OnlyTheParentGrows
    <3>2. q.tree = TreeAddChildren(r.tree, p, {id})
      BY <1>3 DEF LinkedUnder
    <3> QED
      BY <3>1, <3>2
  <2>2. ASSUME NEW e \in ElementId \ {id}
        PROVE  /\ q.heard[e] # None <=> e \in Live(r)
               /\ e \in Live(r) => q.tree.children_of[e] \subseteq q.heard[e].children
    <3>1. CASE e # p \/ p \notin Live(r)
      <4>1. CASE e # p
        BY <1>3, <2>1, <4>1 DEF LinkedUnder, HeardOthers
      <4>2. CASE e = p /\ p \notin Live(r)
        BY <1>3, <4>2 DEF LinkedUnder, HeardOthers
      <4> QED
        BY <3>1, <4>1, <4>2
    <3>2. CASE e = p /\ p \in Live(r)
      <4>1. q.heard[e] \in Element /\ q.heard[e].children = q.tree.children_of[e]
        BY <1>3, <3>2 DEF LinkedUnder
      <4> QED
        BY <3>2, <4>1
    <3> QED
      BY <3>1, <3>2
  <2> QED
    BY <1>1, <2>2 DEF HeardOthers
<1> QED
  BY <1>2, <1>3 DEF LinkedOrQueued, QueuedFor

LEMMA AdoptKeepsHeard ==
  ASSUME NEW r \in Registry, NEW entry \in CachedElement, NEW id \in ElementId, NEW q,
         HeardOthers(r, id), Adopted(r, entry, id, q)
  PROVE  HeardOthers(q, id)
<1>1. Live(q) = Live(r) /\ r.tree \in Tree /\ r.waiting[entry.handle] \in SUBSET ElementId
  BY DEF Adopted, Live, Registry, CachedElement
<1>2. \A e \in ElementId \ {id} : q.tree.children_of[e] = r.tree.children_of[e]
  <2> DEFINE orphans == r.waiting[entry.handle]
  <2>1. \A e \in ElementId \ {id} :
          TreeAddChildren(r.tree, id, orphans).children_of[e] = r.tree.children_of[e]
    BY <1>1, OnlyTheParentGrows
  <2>2. q.tree = TreeAddChildren(r.tree, id, orphans)
    BY DEF Adopted
  <2> QED
    BY <2>1, <2>2
<1>3. ASSUME NEW e \in ElementId \ {id}
      PROVE  /\ q.heard[e] # None <=> e \in Live(r)
             /\ e \in Live(r) => q.tree.children_of[e] \subseteq q.heard[e].children
  <2>1. CASE q.heard[e] = r.heard[e]
    BY <1>2, <2>1 DEF HeardOthers
  <2>2. CASE /\ e \in Live(r) /\ q.heard[e] \in Element
             /\ q.heard[e].children = q.tree.children_of[e]
    BY <2>2
  <2> QED
    BY <2>1, <2>2 DEF Adopted
<1> QED
  BY <1>1, <1>3 DEF HeardOthers

LEMMA InsertKeepsHeard ==
  ASSUME NEW r \in Registry, NEW entry \in CachedElement, NEW id \in ElementId,
         HeardExactly(r), NEW q, q = InsertElement(r, entry, id)
  PROVE  HeardExactly(q)
<1>1. PICK r1, r2, r3 : Stages(r, entry, id, r1, r2, r3, q)
  BY InsertElementStages
<1>2. Live(r) \subseteq ElementId /\ entry # None
  BY DEF Live, CachedElement
<1>3. r1 \in Registry /\ Live(r1) = Live(r) \cup {id}
  BY <1>1, <1>2 DEF Stages, Indexed, Live
<1>4. HeardOthers(r1, id)
  BY <1>1, <1>2, <1>3 DEF Stages, Indexed, HeardOthers, HeardExactly
<1>5. r2 \in Registry /\ HeardOthers(r2, id)
  BY <1>1, <1>3, <1>4, LinkKeepsHeard DEF Stages, LinkedOrQueued
<1>6. r3 \in Registry /\ HeardOthers(r3, id)
  BY <1>1, <1>5, AdoptKeepsHeard DEF Stages, Adopted
<1>7. Live(r3) = Live(r) \cup {id} /\ Live(q) = Live(r3)
  BY <1>1, <1>3 DEF Stages, Indexed, LinkedOrQueued, Adopted, Emitted, Live
<1>8. BuildElement(r3, id) # None /\ BuildElement(r3, id).children = r3.tree.children_of[id]
  BY <1>6, <1>7, BuildElementIsElement
<1>9. Emitted(r3, {id}, q)
  BY <1>1 DEF Stages
<1> QED
  BY <1>2, <1>6, <1>7, <1>8, <1>9 DEF HeardExactly, HeardOthers, Emitted

----------------------------------------------------------------------------
(***************************************************************************)
(* What each operation of tree.rs does to the parent of an element.        *)
(***************************************************************************)
LEMMA AddChildrenParents ==
  ASSUME NEW t \in Tree, NEW p \in ElementId, NEW kids \in SUBSET ElementId,
         NEW c \in ElementId
  PROVE  TreeAddChildren(t, p, kids).parent_of[c]
           = IF c \in kids /\ t.parent_of[c] = None THEN p ELSE t.parent_of[c]
  BY DEF TreeAddChildren, Tree

LEMMA SetChildrenParents ==
  ASSUME NEW t \in Tree, NEW p \in ElementId, NEW kids \in SUBSET ElementId,
         NEW c \in ElementId
  PROVE  /\ t.parent_of[c] # None =>
              TreeSetChildren(t, p, kids).parent_of[c] \in {None, t.parent_of[c]}
         /\ t.parent_of[c] = None =>
              TreeSetChildren(t, p, kids).parent_of[c] = IF c \in kids THEN p ELSE None
  BY DEF TreeSetChildren, Unlinked, Tree

LEMMA RemoveSubtreeParents ==
  ASSUME NEW t \in Tree, NEW root \in ElementId, NEW c \in ElementId
  PROVE  RemoveSubtree(t, root).parent_of[c]
           = IF c \in Subtree(t, root) THEN None ELSE t.parent_of[c]
  BY DEF RemoveSubtree

----------------------------------------------------------------------------
(***************************************************************************)
(* Links join live elements, and the queue is exact.                       *)
(***************************************************************************)
LinksAndQueue(r) == LinksJoinLive(r) /\ QueueIsExact(r)

LEMMA RemoveKeepsLinks ==
  ASSUME NEW r \in Registry, NEW root \in ElementId,
         HandleIndex(r), ParentListsChild(r.tree), LinksAndQueue(r)
  PROVE  LinksAndQueue(RemoveElement(r, root))
<1> DEFINE gone == Subtree(r.tree, root)
           q == RemoveElement(r, root)
           dead == gone \cap Live(r)
           freed == {r.elements[id].handle : id \in dead}
<1>1. /\ Live(q) = Live(r) \ gone
      /\ \A e \in Live(q) : q.elements[e] = r.elements[e]
  BY RemoveElementLive
<1>2. /\ q.tree = RemoveSubtree(r.tree, root)
      /\ q.handle_to_id = [h \in Handle |-> IF h \in freed THEN None ELSE r.handle_to_id[h]]
      /\ q.waiting = [h \in Handle |->
                        IF h \in freed THEN {}
                        ELSE r.waiting[h] \ {id \in dead : r.elements[id].parent_handle = h}]
  BY DEF RemoveElement
<1>3. r.tree \in Tree
  BY DEF Registry
<1>4. \A c \in ElementId : q.tree.parent_of[c] = IF c \in gone THEN None ELSE r.tree.parent_of[c]
  BY <1>2, <1>3, RemoveSubtreeParents
<1>5. ASSUME NEW c \in ElementId, q.tree.parent_of[c] # None
      PROVE  {c, q.tree.parent_of[c]} \subseteq Live(q)
  <2>1. c \notin gone /\ q.tree.parent_of[c] = r.tree.parent_of[c]
    BY <1>4, <1>5
  <2>2. r.tree.parent_of[c] \in ElementId \ gone
    BY <1>3, <1>5, <2>1, SurvivorsKeepParent
  <2>3. {c, r.tree.parent_of[c]} \subseteq Live(r)
    BY <1>5, <2>1 DEF LinksAndQueue, LinksJoinLive
  <2> QED
    BY <1>1, <2>1, <2>2, <2>3
<1>6. ASSUME NEW h \in Handle, NEW id \in q.waiting[h]
      PROVE  /\ id \in Live(q)
             /\ q.elements[id].parent_handle = h
             /\ q.tree.parent_of[id] = None
             /\ q.handle_to_id[h] = None
  <2>1. /\ h \notin freed /\ id \in r.waiting[h]
        /\ id \notin {e \in dead : r.elements[e].parent_handle = h}
    BY <1>2, <1>6
  <2>2. /\ id \in Live(r) /\ r.elements[id].parent_handle = h
        /\ r.tree.parent_of[id] = None /\ r.handle_to_id[h] = None
    BY <2>1 DEF LinksAndQueue, QueueIsExact
  <2>3. id \in Live(q) /\ id \in ElementId
    BY <1>1, <2>1, <2>2 DEF Live
  <2> HIDE DEF q, freed, dead, gone
  <2> QED
    BY <1>1, <1>2, <1>4, <2>1, <2>2, <2>3
<1> QED
  BY <1>5, <1>6 DEF LinksAndQueue, LinksJoinLive, QueueIsExact

(***************************************************************************)
(* Between the stages of the insertion of id with this entry, the queue of *)
(* its own handle is the one whose handle is cached.                       *)
(***************************************************************************)
Midway(r, entry, id) ==
  /\ r \in Registry /\ id \in Live(r) /\ r.elements[id] = entry
  /\ r.handle_to_id[entry.handle] = id
  /\ \A h \in Handle : r.handle_to_id[h] # None => r.handle_to_id[h] \in Live(r)
  /\ ParentListsChild(r.tree) /\ LinksJoinLive(r)
  /\ \A h \in Handle : \A x \in r.waiting[h] :
       /\ x \in Live(r)
       /\ r.elements[x].parent_handle = h
       /\ r.tree.parent_of[x] = None
       /\ h # entry.handle => r.handle_to_id[h] = None

LEMMA IndexIsMidway ==
  ASSUME NEW r \in Registry, NEW entry \in CachedElement, NEW id \in ElementId \ Live(r),
         HandleIndex(r), ParentListsChild(r.tree), LinksAndQueue(r),
         NEW q, Indexed(r, entry, id, q)
  PROVE  /\ Midway(q, entry, id) /\ q.tree.parent_of[id] = None
         /\ \A h \in Handle : id \notin q.waiting[h]
<1>1. entry.handle \in Handle /\ entry # None
  BY DEF CachedElement
<1>2. Live(q) = Live(r) \cup {id}
  BY <1>1 DEF Indexed, Live
<1>3. \A e \in Live(r) : e \in ElementId /\ q.elements[e] = r.elements[e]
  BY DEF Live, Indexed
<1>4. \A h \in Handle : q.handle_to_id[h] # None => q.handle_to_id[h] \in Live(q)
  <2>1. \A h \in Handle : r.handle_to_id[h] # None => r.handle_to_id[h] \in Live(r)
    BY DEF HandleIndex, Live, Registry
  <2> QED
    BY <1>2, <2>1 DEF Indexed
<1>5. q.tree.parent_of[id] = None /\ \A h \in Handle : id \notin q.waiting[h]
  BY DEF Indexed, LinksAndQueue, LinksJoinLive, QueueIsExact
<1>6. ParentListsChild(q.tree) /\ LinksJoinLive(q)
  BY <1>2 DEF Indexed, LinksAndQueue, LinksJoinLive
<1>7. ASSUME NEW h \in Handle, NEW x \in q.waiting[h]
      PROVE  /\ x \in Live(q)
             /\ q.elements[x].parent_handle = h
             /\ q.tree.parent_of[x] = None
             /\ h # entry.handle => q.handle_to_id[h] = None
  BY <1>2, <1>3, <1>7 DEF Indexed, LinksAndQueue, QueueIsExact
<1> QED
  BY <1>1, <1>2, <1>4, <1>5, <1>6, <1>7 DEF Midway, Indexed

LEMMA LinkIsMidway ==
  ASSUME NEW entry \in CachedElement, NEW id, NEW r, Midway(r, entry, id),
         r.tree.parent_of[id] = None, \A h \in Handle : id \notin r.waiting[h],
         NEW q, LinkedOrQueued(r, entry, id, q)
  PROVE  Midway(q, entry, id)
<1> DEFINE ph == entry.parent_handle
           p == r.handle_to_id[ph]
<1>1. /\ r \in Registry /\ r.tree \in Tree /\ id \in ElementId
      /\ {id} \in SUBSET ElementId
  BY DEF Midway, Live, Registry
<1>2. /\ q \in Registry /\ Live(q) = Live(r)
      /\ q.elements = r.elements /\ q.handle_to_id = r.handle_to_id
  BY DEF LinkedOrQueued, Live
<1>3. CASE q = r
  BY <1>3
<1>4. CASE p \in ElementId /\ ph \in Handle /\ LinkedUnder(r, p, id, q)
  <2>1. p \in Live(r)
    BY <1>4 DEF Midway
  <2> HIDE DEF p, ph
  <2>2. q.tree = TreeAddChildren(r.tree, p, {id}) /\ q.waiting = r.waiting
    BY <1>4 DEF LinkedUnder
  <2>3. \A c \in ElementId : TreeAddChildren(r.tree, p, {id}).parent_of[c]
          = IF c \in {id} /\ r.tree.parent_of[c] = None THEN p ELSE r.tree.parent_of[c]
    BY <1>1, <1>4, AddChildrenParents
  <2>4. \A c \in ElementId : q.tree.parent_of[c] = IF c = id THEN p ELSE r.tree.parent_of[c]
    BY <2>2, <2>3
  <2>5. ParentListsChild(TreeAddChildren(r.tree, p, {id}))
    BY <1>1, <1>4, AddChildrenKeepsListing DEF Midway
  <2>6. LinksJoinLive(q)
    BY <1>2, <2>1, <2>4 DEF Midway, LinksJoinLive
  <2>7. ASSUME NEW h \in Handle, NEW x \in q.waiting[h]
        PROVE  q.tree.parent_of[x] = None /\ x \in r.waiting[h]
    <3>1. x \in r.waiting[h] /\ x # id
      BY <2>2, <2>7
    <3>2. r.tree.parent_of[x] = None /\ x \in ElementId
      BY <3>1 DEF Midway, Live
    <3> QED
      BY <2>4, <3>1, <3>2
  <2> QED
    BY <1>2, <2>2, <2>5, <2>6, <2>7 DEF Midway
<1>5. CASE p = None /\ ph \in Handle /\ QueuedFor(r, ph, id, q)
  <2>1. /\ q.tree = r.tree /\ q.waiting[ph] = r.waiting[ph] \cup {id}
        /\ \A g \in Handle \ {ph} : q.waiting[g] = r.waiting[g]
    BY <1>5 DEF QueuedFor
  <2>2. ASSUME NEW h \in Handle, NEW x \in q.waiting[h]
        PROVE  /\ x \in Live(q)
               /\ q.elements[x].parent_handle = h
               /\ q.tree.parent_of[x] = None
               /\ h # entry.handle => q.handle_to_id[h] = None
    <3>1. CASE x \in r.waiting[h]
      BY <1>2, <2>1, <3>1 DEF Midway
    <3>2. CASE x \notin r.waiting[h]
      <4>1. h = ph /\ x = id
        BY <2>1, <2>2, <3>2
      <4> QED
        BY <1>2, <1>5, <2>1, <4>1 DEF Midway
    <3> QED
      BY <3>1, <3>2
  <2>3. LinksJoinLive(q)
    BY <1>2, <2>1 DEF Midway, LinksJoinLive
  <2> QED
    BY <1>2, <2>1, <2>2, <2>3 DEF Midway
<1> QED
  BY <1>3, <1>4, <1>5 DEF LinkedOrQueued

LEMMA AdoptKeepsLinks ==
  ASSUME NEW entry \in CachedElement, NEW id, NEW r, Midway(r, entry, id),
         NEW q, Adopted(r, entry, id, q)
  PROVE  LinksAndQueue(q) /\ ParentListsChild(q.tree)
<1> DEFINE orphans == r.waiting[entry.handle]
<1>1. /\ entry.handle \in Handle /\ r.tree \in Tree /\ id \in ElementId
      /\ orphans \in SUBSET ElementId
  BY DEF Midway, Live, Registry, CachedElement
<1>2. Live(q) = Live(r) /\ q.elements = r.elements /\ q.handle_to_id = r.handle_to_id
  BY DEF Adopted, Live
<1>3. orphans \subseteq Live(r) /\ id \in Live(r)
  BY <1>1 DEF Midway
<1>4. \A h \in Handle \ {entry.handle} : orphans \cap r.waiting[h] = {}
  BY <1>1 DEF Midway
<1>5. \A c \in ElementId : TreeAddChildren(r.tree, id, orphans).parent_of[c]
        = IF c \in orphans /\ r.tree.parent_of[c] = None THEN id ELSE r.tree.parent_of[c]
  BY <1>1, AddChildrenParents
<1>6. q.tree = TreeAddChildren(r.tree, id, orphans)
  BY DEF Adopted
<1>7. ParentListsChild(q.tree)
  BY <1>1, <1>6, AddChildrenKeepsListing DEF Midway
<1> HIDE DEF orphans
<1>8. LinksJoinLive(q)
  <2> SUFFICES ASSUME NEW c \in ElementId, q.tree.parent_of[c] # None
               PROVE  {c, q.tree.parent_of[c]} \subseteq Live(q)
    BY DEF LinksJoinLive
  <2>1. CASE c \in orphans /\ r.tree.parent_of[c] = None
    BY <1>2, <1>3, <1>5, <1>6, <2>1
  <2>2. CASE ~(c \in orphans /\ r.tree.parent_of[c] = None)
    BY <1>2, <1>5, <1>6, <2>2 DEF Midway, LinksJoinLive
  <2> QED
    BY <2>1, <2>2
<1>9. ASSUME NEW h \in Handle, NEW x \in q.waiting[h]
      PROVE  /\ x \in Live(q)
             /\ q.elements[x].parent_handle = h
             /\ q.tree.parent_of[x] = None
             /\ q.handle_to_id[h] = None
  <2>1. h # entry.handle /\ x \in r.waiting[h]
    BY <1>9 DEF Adopted
  <2>2. /\ x \in Live(r) /\ r.elements[x].parent_handle = h
        /\ r.tree.parent_of[x] = None /\ r.handle_to_id[h] = None
    BY <2>1 DEF Midway
  <2>3. x \notin orphans /\ x \in ElementId
    BY <1>4, <2>1, <2>2 DEF Live
  <2> QED
    BY <1>2, <1>5, <1>6, <2>2, <2>3
<1> QED
  BY <1>7, <1>8, <1>9 DEF LinksAndQueue, QueueIsExact

LEMMA InsertKeepsLinks ==
  ASSUME NEW r \in Registry, NEW entry \in CachedElement, NEW id \in ElementId \ Live(r),
         HandleIndex(r), ParentListsChild(r.tree), LinksAndQueue(r),
         NEW q, q = InsertElement(r, entry, id)
  PROVE  LinksAndQueue(q)
<1>1. PICK r1, r2, r3 : Stages(r, entry, id, r1, r2, r3, q)
  BY InsertElementStages
<1>2. /\ Midway(r1, entry, id) /\ r1.tree.parent_of[id] = None
      /\ \A h \in Handle : id \notin r1.waiting[h]
  BY <1>1, IndexIsMidway DEF Stages
<1>3. Midway(r2, entry, id)
  BY <1>1, <1>2, LinkIsMidway DEF Stages
<1>4. LinksAndQueue(r3)
  BY <1>1, <1>3, AdoptKeepsLinks DEF Stages
<1>5. /\ q.elements = r3.elements /\ q.tree = r3.tree
      /\ q.handle_to_id = r3.handle_to_id /\ q.waiting = r3.waiting
  BY <1>1 DEF Stages, Emitted
<1> QED
  BY <1>4, <1>5 DEF LinksAndQueue, LinksJoinLive, QueueIsExact, Live

LEMMA SetKeepsLinks ==
  ASSUME NEW r \in Registry, NEW id \in ElementId, NEW kids \in SUBSET Live(r),
         LinksAndQueue(r), NEW q \in Registry, q.elements = r.elements,
         q.handle_to_id = r.handle_to_id, ChildrenSet(r, id, kids, q)
  PROVE  LinksAndQueue(q)
<1> DEFINE t == TreeSetChildren(r.tree, id, kids)
<1>1. Live(q) = Live(r) /\ r.tree \in Tree /\ kids \in SUBSET ElementId /\ id \in Live(r)
  BY DEF Live, Registry, ChildrenSet
<1>2. \A c \in ElementId :
        /\ r.tree.parent_of[c] # None => t.parent_of[c] \in {None, r.tree.parent_of[c]}
        /\ r.tree.parent_of[c] = None => t.parent_of[c] = IF c \in kids THEN id ELSE None
  BY <1>1, SetChildrenParents
<1>3. q.tree = t
  BY DEF ChildrenSet
<1> HIDE DEF t
<1>4. LinksJoinLive(q)
  <2> SUFFICES ASSUME NEW c \in ElementId, t.parent_of[c] # None
               PROVE  {c, t.parent_of[c]} \subseteq Live(r)
    BY <1>1, <1>3 DEF LinksJoinLive
  <2>1. CASE r.tree.parent_of[c] # None
    BY <1>2, <2>1 DEF LinksAndQueue, LinksJoinLive
  <2>2. CASE r.tree.parent_of[c] = None
    BY <1>1, <1>2, <2>2
  <2> QED
    BY <2>1, <2>2
<1>5. ASSUME NEW h \in Handle, NEW x \in q.waiting[h]
      PROVE  /\ x \in Live(q)
             /\ q.elements[x].parent_handle = h
             /\ q.tree.parent_of[x] = None
             /\ q.handle_to_id[h] = None
  <2>1. /\ x \in r.waiting[h]
        /\ x \notin {c \in kids : r.elements[c].parent_handle = h}
    BY DEF ChildrenSet
  <2>2. /\ x \in Live(r) /\ r.elements[x].parent_handle = h
        /\ r.tree.parent_of[x] = None /\ r.handle_to_id[h] = None
    BY <2>1 DEF LinksAndQueue, QueueIsExact
  <2>3. x \notin kids /\ x \in ElementId
    BY <2>1, <2>2 DEF Live
  <2> QED
    BY <1>1, <1>2, <1>3, <2>2, <2>3
<1> QED
  BY <1>4, <1>5 DEF LinksAndQueue, QueueIsExact

(***************************************************************************)
(* A rewritten entry stays where it is queued if it keeps its parent       *)
(* handle or was not queued at all.                                        *)
(***************************************************************************)
LEMMA RewriteKeepsLinks ==
  ASSUME NEW r \in Registry, NEW id \in Live(r), NEW q, Rewritten(r, id, q),
         LinksAndQueue(r),
         \/ r.elements[id].parent_handle = None
         \/ q.elements[id].parent_handle = r.elements[id].parent_handle
  PROVE  LinksAndQueue(q)
<1>1. LinksJoinLive(q)
  BY DEF Rewritten, LinksAndQueue, LinksJoinLive
<1>2. ASSUME NEW h \in Handle, NEW x \in q.waiting[h]
      PROVE  /\ x \in Live(q)
             /\ q.elements[x].parent_handle = h
             /\ q.tree.parent_of[x] = None
             /\ q.handle_to_id[h] = None
  <2>1. x \in r.waiting[h] /\ q.tree = r.tree /\ q.handle_to_id = r.handle_to_id
        /\ Live(q) = Live(r)
    BY DEF Rewritten
  <2>2. /\ x \in Live(r) /\ r.elements[x].parent_handle = h
        /\ r.tree.parent_of[x] = None /\ r.handle_to_id[h] = None
    BY <2>1 DEF LinksAndQueue, QueueIsExact
  <2>3. x = id \/ q.elements[x] = r.elements[x]
    BY <2>2 DEF Rewritten, Live
  <2>4. h # None
    OBVIOUS
  <2> QED
    BY <2>1, <2>2, <2>3, <2>4
<1> QED
  BY <1>1, <1>2 DEF LinksAndQueue, QueueIsExact

----------------------------------------------------------------------------
(***************************************************************************)
(* The two invariants.  Consistent needs nothing of the platform; Exact    *)
(* needs a platform whose reads of a parent's role do not fail, so that    *)
(* every cached entry is one that build_entry_from_handle produced from    *)
(* the same answer.                                                        *)
(***************************************************************************)
Consistent(r) ==
  r \in Registry /\ HandleIndex(r) /\ ParentListsChild(r.tree) /\ HeardExactly(r)

Exact(r) == LinksAndQueue(r) /\ \A id \in Live(r) : r.elements[id] \in BuildEntry

LEMMA RemoveKeepsAll ==
  ASSUME NEW r, NEW root \in ElementId, Consistent(r)
  PROVE  /\ Consistent(RemoveElement(r, root))
         /\ Exact(r) => Exact(RemoveElement(r, root))
<1> DEFINE q == RemoveElement(r, root)
<1>1. r \in Registry /\ r.tree \in Tree /\ q \in Registry
  BY RemoveElementType DEF Consistent, Registry
<1>2. HandleIndex(q) /\ HeardExactly(q)
  BY RemoveKeepsIndex, RemoveKeepsHeard DEF Consistent
<1>3. q.tree = RemoveSubtree(r.tree, root)
  BY DEF RemoveElement
<1>4. ParentListsChild(q.tree)
  BY <1>1, <1>3, RemoveSubtreeKeepsListing DEF Consistent
<1>5. ASSUME Exact(r) PROVE Exact(q)
  <2>1. LinksAndQueue(q)
    BY <1>1, <1>5, RemoveKeepsLinks DEF Consistent, Exact
  <2>2. \A e \in Live(q) : e \in Live(r) /\ q.elements[e] = r.elements[e]
    BY <1>1, RemoveElementLive
  <2> QED
    BY <1>5, <2>1, <2>2 DEF Exact
<1> QED
  BY <1>1, <1>2, <1>4, <1>5 DEF Consistent

LEMMA InsertKeepsListing ==
  ASSUME NEW r \in Registry, NEW entry \in CachedElement, NEW id \in ElementId,
         ParentListsChild(r.tree), NEW q, q = InsertElement(r, entry, id)
  PROVE  /\ ParentListsChild(q.tree)
         /\ \A c \in ElementId : r.tree.parent_of[c] # None =>
              q.tree.parent_of[c] = r.tree.parent_of[c]
<1>1. PICK r1, r2, r3 : Stages(r, entry, id, r1, r2, r3, q)
  BY InsertElementStages
<1>2. /\ r.tree \in Tree /\ r1.tree = r.tree /\ q.tree = r3.tree
      /\ r2 \in Registry /\ r2.tree \in Tree
  BY <1>1 DEF Stages, Indexed, LinkedOrQueued, Emitted, Registry
<1>3. /\ ParentListsChild(r2.tree)
      /\ \A c \in ElementId : r.tree.parent_of[c] # None =>
           r2.tree.parent_of[c] = r.tree.parent_of[c]
  <2>1. CASE r2.tree = r1.tree
    BY <1>2, <2>1
  <2>2. ASSUME NEW p \in ElementId, r2.tree = TreeAddChildren(r1.tree, p, {id})
        PROVE  /\ ParentListsChild(r2.tree)
               /\ \A c \in ElementId : r.tree.parent_of[c] # None =>
                    r2.tree.parent_of[c] = r.tree.parent_of[c]
    <3>1. {id} \in SUBSET ElementId
      OBVIOUS
    <3>2. ParentListsChild(TreeAddChildren(r.tree, p, {id}))
      BY <1>2, <3>1, AddChildrenKeepsListing
    <3>3. \A c \in ElementId : TreeAddChildren(r.tree, p, {id}).parent_of[c]
            = IF c \in {id} /\ r.tree.parent_of[c] = None THEN p ELSE r.tree.parent_of[c]
      BY <1>2, <3>1, AddChildrenParents
    <3> QED
      BY <1>2, <2>2, <3>2, <3>3
  <2>3. r2.tree = r1.tree
        \/ \E p \in ElementId : r2.tree = TreeAddChildren(r1.tree, p, {id})
    BY <1>1 DEF Stages, LinkedOrQueued, LinkedUnder, QueuedFor
  <2> QED
    BY <2>1, <2>2, <2>3
<1>4. PICK orphans \in SUBSET ElementId : r3.tree = TreeAddChildren(r2.tree, id, orphans)
  <2>1. r2.waiting[entry.handle] \in SUBSET ElementId
    BY <1>2 DEF Registry, CachedElement
  <2> QED
    BY <1>1, <2>1 DEF Stages, Adopted
<1>5. ParentListsChild(TreeAddChildren(r2.tree, id, orphans))
  BY <1>2, <1>3, AddChildrenKeepsListing
<1>6. \A c \in ElementId : TreeAddChildren(r2.tree, id, orphans).parent_of[c]
        = IF c \in orphans /\ r2.tree.parent_of[c] = None THEN id ELSE r2.tree.parent_of[c]
  BY <1>2, AddChildrenParents
<1>7. \A c \in ElementId : r.tree.parent_of[c] # None =>
        q.tree.parent_of[c] = r.tree.parent_of[c]
  BY <1>2, <1>3, <1>4, <1>6
<1> QED
  BY <1>2, <1>4, <1>5, <1>7

LEMMA InsertKeepsAll ==
  ASSUME NEW r, NEW entry \in BuildEntry, NEW id \in ElementId \ Live(r),
         Consistent(r), r.handle_to_id[entry.handle] = None
  PROVE  /\ Consistent(InsertElement(r, entry, id))
         /\ Exact(r) => Exact(InsertElement(r, entry, id))
<1> SUFFICES ASSUME NEW q, q = InsertElement(r, entry, id)
             PROVE  Consistent(q) /\ (Exact(r) => Exact(q))
  OBVIOUS
<1>1. r \in Registry /\ entry \in CachedElement
  BY DEF Consistent, BuildEntry
<1>2. /\ q \in Registry /\ q.elements[id] = entry
      /\ \A e \in ElementId \ {id} : q.elements[e] = r.elements[e]
      /\ Live(q) = Live(r) \cup {id}
  BY <1>1, InsertElementFields
<1>3. HandleIndex(q) /\ HeardExactly(q) /\ ParentListsChild(q.tree)
  BY <1>1, InsertKeepsIndex, InsertKeepsHeard, InsertKeepsListing DEF Consistent
<1>4. ASSUME Exact(r) PROVE Exact(q)
  <2>1. LinksAndQueue(q)
    BY <1>1, <1>4, InsertKeepsLinks DEF Consistent, Exact
  <2>2. \A e \in Live(r) : e \in ElementId \ {id}
    BY DEF Live
  <2> QED
    BY <1>2, <1>4, <2>1, <2>2 DEF Exact
<1> QED
  BY <1>2, <1>3, <1>4 DEF Consistent

(***************************************************************************)
(* An element updated in place keeps its handle, and a queued one its      *)
(* parent handle: with stable roots a known handle does not turn into a    *)
(* root or back.                                                           *)
(***************************************************************************)
LEMMA UpdateKeepsAll ==
  ASSUME NEW r, NEW entry \in BuildEntry, Consistent(r), UpdatesInPlace(r, entry),
         NEW id, id = r.handle_to_id[entry.handle]
  PROVE  /\ id \in Live(r) /\ Rewritten(r, id, UpdateElement(r, id, entry))
         /\ Consistent(UpdateElement(r, id, entry))
         /\ StableRoots /\ Exact(r) => Exact(UpdateElement(r, id, entry))
<1> SUFFICES ASSUME NEW q, q = UpdateElement(r, id, entry)
             PROVE  /\ id \in Live(r) /\ Rewritten(r, id, q) /\ Consistent(q)
                    /\ StableRoots /\ Exact(r) => Exact(q)
  OBVIOUS
<1>1. r \in Registry /\ entry \in CachedElement /\ entry.handle \in Handle
  BY DEF Consistent, BuildEntry, CachedElement
<1>2. id \in Live(r) /\ r.elements[id].handle = entry.handle
  BY <1>1 DEF Consistent, HandleIndex, UpdatesInPlace, Known, Live, Registry
<1>3. Rewritten(r, id, q) /\ q.elements[id] = entry
  BY <1>1, <1>2, UpdateElementRewrites
<1>4. q \in Registry /\ ParentListsChild(q.tree)
  BY <1>3 DEF Rewritten, Consistent
<1>5. HandleIndex(q) /\ HeardExactly(q)
  BY <1>1, <1>2, <1>3, RewriteKeepsIndex, RewriteKeepsHeard DEF Consistent
<1>6. ASSUME StableRoots, Exact(r) PROVE Exact(q)
  <2>1. r.elements[id].parent_handle = None
        \/ q.elements[id].parent_handle = r.elements[id].parent_handle
    <3>1. r.elements[id] \in BuildEntry
      BY <1>2, <1>6 DEF Exact
    <3>2. entry.is_root => r.elements[id].is_root
      BY <1>2, <1>6, <3>1 DEF BuildEntry
    <3>3. entry.is_root => r.elements[id].parent_handle = None
      BY <3>1, <3>2 DEF BuildEntry
    <3>4. ~entry.is_root => \/ r.elements[id].parent_handle = None
                            \/ r.elements[id].parent_handle = entry.parent_handle
      BY DEF UpdatesInPlace, ParentChanged
    <3> QED
      BY <1>3, <3>3, <3>4
  <2>2. LinksAndQueue(q)
    BY <1>1, <1>2, <1>3, <1>6, <2>1, RewriteKeepsLinks DEF Exact
  <2>3. ASSUME NEW e \in Live(q) PROVE q.elements[e] \in BuildEntry
    BY <1>3, <1>6, <2>3 DEF Rewritten, Exact, Live
  <2> QED
    BY <2>2, <2>3 DEF Exact
<1> QED
  BY <1>2, <1>3, <1>4, <1>5, <1>6 DEF Consistent

LEMMA RefreshKeepsAll ==
  ASSUME NEW r, NEW id \in ElementId, NEW attrs \in Attributes, Consistent(r),
         NEW q \in {RefreshElement(r, id, attrs), RefreshSilently(r, id, attrs)}
  PROVE  /\ q = r \/ (id \in Live(r) /\ Rewritten(r, id, q))
         /\ Consistent(q) /\ (Exact(r) => Exact(q))
<1>1. CASE q = r
  BY <1>1
<1>2. CASE q # r
  <2>1. /\ id \in Live(r) /\ Rewritten(r, id, q) /\ r \in Registry
        /\ q.elements[id].parent_handle = r.elements[id].parent_handle
        /\ r.elements[id] \in BuildEntry => q.elements[id] \in BuildEntry
    BY <1>2, RefreshRewrites DEF Consistent
  <2>2. Consistent(q)
    BY <2>1, RewriteKeepsIndex, RewriteKeepsHeard DEF Rewritten, Consistent
  <2>3. ASSUME Exact(r) PROVE Exact(q)
    <3>1. LinksAndQueue(q)
      BY <2>1, <2>3, RewriteKeepsLinks DEF Exact
    <3>2. ASSUME NEW e \in Live(q) PROVE q.elements[e] \in BuildEntry
      BY <2>1, <2>3, <3>2 DEF Rewritten, Exact, Live
    <3> QED
      BY <3>1, <3>2 DEF Exact
  <2> QED
    BY <2>1, <2>2, <2>3
<1> QED
  BY <1>1, <1>2

LEMMA SetKeepsAll ==
  ASSUME NEW r, NEW id \in ElementId, NEW ids \in SUBSET ElementId,
         NEW reordered \in BOOLEAN, Consistent(r),
         NEW q, q = SetChildren(r, id, ids, reordered)
  PROVE  /\ Consistent(q) /\ (Exact(r) => Exact(q))
         /\ q.elements = r.elements
         /\ \A c \in ElementId : r.tree.parent_of[c] # None =>
              q.tree.parent_of[c] \in {None, r.tree.parent_of[c]}
<1> DEFINE kids == ids \cap Live(r)
<1>1. r \in Registry /\ r.tree \in Tree /\ kids \in SUBSET ElementId /\ kids \in SUBSET Live(r)
  BY DEF Consistent, Registry
<1>2. /\ q \in Registry /\ q.elements = r.elements /\ q.handle_to_id = r.handle_to_id
      /\ q = r \/ ChildrenSet(r, id, kids, q)
  BY <1>1, SetChildrenSets
<1> HIDE DEF kids
<1>3. CASE q = r
  BY <1>3
<1>4. CASE ChildrenSet(r, id, kids, q)
  <2>1. Live(q) = Live(r) /\ Live(r) \subseteq ElementId
    BY <1>2 DEF Live
  <2>2. HandleIndex(q)
    BY <1>2, <2>1 DEF Consistent, HandleIndex
  <2>3. q.tree = TreeSetChildren(r.tree, id, kids)
    BY <1>4 DEF ChildrenSet
  <2>4. ParentListsChild(TreeSetChildren(r.tree, id, kids))
    BY <1>1, SetChildrenKeepsListing DEF Consistent
  <2>5. \A e \in ElementId \ {id} :
          TreeSetChildren(r.tree, id, kids).children_of[e] = r.tree.children_of[e]
    BY <1>1 DEF TreeSetChildren, Tree
  <2>6. ASSUME NEW e \in ElementId
        PROVE  /\ q.heard[e] # None <=> e \in Live(q)
               /\ e \in Live(q) => q.tree.children_of[e] \subseteq q.heard[e].children
    <3>1. CASE e = id
      <4>1. /\ id \in Live(r) /\ q.heard[e] \in Element
            /\ q.heard[e].children = q.tree.children_of[e]
        BY <1>4, <3>1 DEF ChildrenSet
      <4> QED
        BY <2>1, <3>1, <4>1
    <3>2. CASE e # id
      <4>1. q.heard[e] = r.heard[e] /\ q.tree.children_of[e] = r.tree.children_of[e]
        BY <1>4, <2>3, <2>5, <3>2 DEF ChildrenSet
      <4>2. /\ r.heard[e] # None <=> e \in Live(r)
            /\ e \in Live(r) => r.tree.children_of[e] \subseteq r.heard[e].children
        BY DEF Consistent, HeardExactly
      <4> QED
        BY <2>1, <4>1, <4>2
    <3> QED
      BY <3>1, <3>2
  <2>7. HeardExactly(q)
    BY <2>1, <2>6 DEF HeardExactly
  <2>8. ASSUME Exact(r) PROVE Exact(q)
    <3>1. LinksAndQueue(q)
      BY <1>1, <1>2, <1>4, <2>8, SetKeepsLinks DEF Exact
    <3> QED
      BY <1>2, <2>1, <2>8, <3>1 DEF Exact
  <2>9. \A c \in ElementId : r.tree.parent_of[c] # None =>
          TreeSetChildren(r.tree, id, kids).parent_of[c] \in {None, r.tree.parent_of[c]}
    BY <1>1, SetChildrenParents
  <2> QED
    BY <1>2, <2>2, <2>3, <2>4, <2>7, <2>8, <2>9 DEF Consistent
<1> QED
  BY <1>2, <1>3, <1>4

(***************************************************************************)
(* upsert_element, whichever way it goes.  base is the registry the new    *)
(* element is inserted into: r, or r without the old incarnation.          *)
(***************************************************************************)
LEMMA UpsertKeepsAll ==
  ASSUME NEW r, NEW entry \in BuildEntry, NEW fresh \in ElementId \ Live(r),
         Consistent(r), NEW q, q = UpsertElement(r, entry, fresh)
  PROVE  /\ Consistent(q) /\ (StableRoots /\ Exact(r) => Exact(q))
         /\ UpsertedId(r, entry, fresh) \in ElementId
         /\ Live(q) \subseteq Live(r) \cup {UpsertedId(r, entry, fresh)}
         /\ \A e \in Live(r) \cap Live(q) :
              /\ q.elements[e].handle = r.elements[e].handle
              /\ r.tree.parent_of[e] # None =>
                   q.tree.parent_of[e] \in {None, r.tree.parent_of[e]}
<1> DEFINE id == r.handle_to_id[entry.handle]
<1>1. /\ r \in Registry /\ entry \in CachedElement /\ entry.handle \in Handle
      /\ \A e \in Live(r) : e \in ElementId /\ e # fresh
  BY DEF Consistent, BuildEntry, CachedElement, Live
<1>2. CASE UpdatesInPlace(r, entry)
  <2>1. q = UpdateElement(r, id, entry) /\ UpsertedId(r, entry, fresh) = id
    BY <1>2 DEF UpsertElement, UpsertedId
  <2>2. /\ id \in Live(r) /\ Rewritten(r, id, q) /\ Consistent(q)
        /\ StableRoots /\ Exact(r) => Exact(q)
    BY <1>2, <2>1, UpdateKeepsAll
  <2> HIDE DEF id
  <2>3. \A e \in Live(r) : q.elements[e].handle = r.elements[e].handle
    BY <1>1, <2>2 DEF Rewritten
  <2> QED
    BY <1>1, <2>1, <2>2, <2>3 DEF Rewritten
<1>3. CASE ~UpdatesInPlace(r, entry)
  <2> DEFINE base == IF Known(r, entry) THEN RemoveElement(r, id) ELSE r
  <2>1. q = InsertElement(base, entry, fresh) /\ UpsertedId(r, entry, fresh) = fresh
    BY <1>3 DEF UpsertElement, UpsertedId
  <2>2. /\ Consistent(base) /\ (Exact(r) => Exact(base))
        /\ base.handle_to_id[entry.handle] = None
        /\ Live(base) \subseteq Live(r)
        /\ \A e \in Live(base) : base.elements[e] = r.elements[e]
        /\ \A e \in ElementId : base.tree.parent_of[e] \in {None, r.tree.parent_of[e]}
        /\ \A e \in Live(base) : base.tree.parent_of[e] = r.tree.parent_of[e]
    <3>1. CASE ~Known(r, entry)
      BY <3>1 DEF Known
    <3>2. CASE Known(r, entry)
      <4>1. id \in Live(r) /\ r.elements[id].handle = entry.handle /\ id \in ElementId
        BY <1>1, <3>2 DEF Consistent, HandleIndex, Known, Live, Registry
      <4>2. base = RemoveElement(r, id)
        BY <3>2
      <4> HIDE DEF id
      <4>3. Consistent(base) /\ (Exact(r) => Exact(base))
        BY <4>1, <4>2, RemoveKeepsAll
      <4>4. /\ Live(base) = Live(r) \ Subtree(r.tree, id)
            /\ \A e \in Live(base) : base.elements[e] = r.elements[e]
        BY <1>1, <4>1, <4>2, RemoveElementLive
      <4>5. base.handle_to_id[entry.handle] = None
        <5>1. id \in Subtree(r.tree, id)
          BY <4>1, SubtreeHasRoot
        <5> QED
          BY <1>1, <4>1, <4>2, <5>1 DEF RemoveElement
      <4>6. base.tree = RemoveSubtree(r.tree, id)
        BY <4>2 DEF RemoveElement
      <4>7. \A e \in ElementId : RemoveSubtree(r.tree, id).parent_of[e]
              = IF e \in Subtree(r.tree, id) THEN None ELSE r.tree.parent_of[e]
        BY DEF RemoveSubtree
      <4> HIDE DEF base
      <4>8. /\ \A e \in ElementId : base.tree.parent_of[e] \in {None, r.tree.parent_of[e]}
            /\ \A e \in Live(base) : base.tree.parent_of[e] = r.tree.parent_of[e]
        BY <1>1, <4>4, <4>6, <4>7
      <4> QED
        BY <4>3, <4>4, <4>5, <4>8
    <3> QED
      BY <3>1, <3>2
  <2> HIDE DEF base
  <2>3. fresh \in ElementId \ Live(base) /\ base \in Registry /\ ParentListsChild(base.tree)
    BY <2>2 DEF Consistent
  <2>4. Consistent(q) /\ (Exact(base) => Exact(q))
    BY <2>1, <2>2, <2>3, InsertKeepsAll
  <2>5. /\ Live(q) = Live(base) \cup {fresh}
        /\ \A e \in ElementId \ {fresh} : q.elements[e] = base.elements[e]
    BY <1>1, <2>1, <2>3, InsertElementFields
  <2>6. \A c \in ElementId : base.tree.parent_of[c] # None =>
          q.tree.parent_of[c] = base.tree.parent_of[c]
    BY <1>1, <2>1, <2>3, InsertKeepsListing
  <2>7. ASSUME NEW e \in Live(r) \cap Live(q)
        PROVE  /\ q.elements[e].handle = r.elements[e].handle
               /\ r.tree.parent_of[e] # None =>
                    q.tree.parent_of[e] \in {None, r.tree.parent_of[e]}
    <3>1. e \in ElementId \ {fresh} /\ e \in Live(base)
      BY <1>1, <2>5
    <3> QED
      BY <2>2, <2>5, <2>6, <3>1
  <2> QED
    BY <2>1, <2>2, <2>3, <2>4, <2>5, <2>7
<1> QED
  BY <1>2, <1>3

----------------------------------------------------------------------------
(***************************************************************************)
(* The inductive invariant.  Listing and heard do not disturb the other    *)
(* parts; the index is what makes an update in place hit the right entry,  *)
(* and Live(reg) \subseteq used what makes a fresh id fresh.               *)
(***************************************************************************)
Inv == Consistent(reg) /\ used \subseteq ElementId /\ Live(reg) \subseteq used

ExactInv == Inv /\ (StableRoots => Exact(reg))

LEMMA InitExactInv == Init => ExactInv
<1> SUFFICES ASSUME Init PROVE ExactInv
  OBVIOUS
<1>1. reg = EmptyRegistry /\ used = {}
  BY DEF Init
<1>2. reg \in Registry
  BY <1>1 DEF EmptyRegistry, Registry, EmptyTree, Tree
<1>3. Live(reg) = {}
  BY <1>1 DEF EmptyRegistry, Live
<1>4. HandleIndex(reg) /\ HeardExactly(reg)
  BY <1>1, <1>3 DEF EmptyRegistry, HandleIndex, HeardExactly
<1>5. ParentListsChild(reg.tree)
  BY <1>1 DEF EmptyRegistry, EmptyTree, ParentListsChild
<1>6. LinksAndQueue(reg)
  BY <1>1 DEF EmptyRegistry, EmptyTree, LinksAndQueue, LinksJoinLive, QueueIsExact
<1> QED
  BY <1>1, <1>2, <1>3, <1>4, <1>5, <1>6 DEF ExactInv, Inv, Consistent, Exact

(***************************************************************************)
(* Every step keeps the invariant and the identity of every element.       *)
(***************************************************************************)
LEMMA StepKeepsExactInv ==
  ASSUME ExactInv, [Next]_vars
  PROVE  ExactInv' /\ (KeepsIdentity \/ UNCHANGED vars)
<1> USE DEF ExactInv, Inv
<1>1. CASE Upsert
  <2>1. PICK entry \in BuildEntry, fresh \in ElementId \ used :
          /\ reg' = UpsertElement(reg, entry, fresh)
          /\ used' = used \cup {UpsertedId(reg, entry, fresh)}
    BY <1>1 DEF Upsert
  <2> DEFINE id == UpsertedId(reg, entry, fresh)
  <2>2. id \in used \/ id = fresh
    <3>1. CASE UpdatesInPlace(reg, entry)
      <4>1. id = reg.handle_to_id[entry.handle] /\ reg.handle_to_id[entry.handle] # None
        BY <3>1 DEF UpsertedId, UpdatesInPlace, Known
      <4>2. entry.handle \in Handle
        BY DEF BuildEntry, CachedElement
      <4>3. reg.handle_to_id[entry.handle] \in Live(reg)
        BY <4>1, <4>2 DEF Consistent, HandleIndex, Live, Registry
      <4> QED
        BY <4>1, <4>3
    <3>2. CASE ~UpdatesInPlace(reg, entry)
      BY <3>2 DEF UpsertedId
    <3> QED
      BY <3>1, <3>2
  <2>3. fresh \in ElementId \ Live(reg)
    OBVIOUS
  <2>4. /\ Consistent(reg') /\ (StableRoots /\ Exact(reg) => Exact(reg'))
        /\ id \in ElementId
        /\ Live(reg') \subseteq Live(reg) \cup {id}
        /\ \A e \in Live(reg) \cap Live(reg') :
             /\ reg'.elements[e].handle = reg.elements[e].handle
             /\ reg.tree.parent_of[e] # None =>
                  reg'.tree.parent_of[e] \in {None, reg.tree.parent_of[e]}
    BY <2>1, <2>3, UpsertKeepsAll
  <2>5. ASSUME NEW e \in used, e \notin Live(reg) PROVE e \notin Live(reg')
    <3>1. ASSUME id \in used PROVE id \in Live(reg)
      <4>1. id # fresh
        BY <3>1
      <4>2. UpdatesInPlace(reg, entry) /\ id = reg.handle_to_id[entry.handle]
        BY <4>1 DEF UpsertedId
      <4>3. entry.handle \in Handle
        BY DEF BuildEntry, CachedElement
      <4> QED
        BY <4>2, <4>3 DEF Consistent, HandleIndex, Live, Registry, UpdatesInPlace, Known
    <3> QED
      BY <2>4, <2>5, <3>1
  <2> HIDE DEF id
  <2>6. ExactInv'
    BY <2>1, <2>4 DEF id, Live
  <2>7. KeepsIdentity
    BY <2>4, <2>5 DEF KeepsIdentity, Live
  <2> QED
    BY <2>6, <2>7
<1>2. CASE Remove
  <2>1. PICK id \in used : reg' = RemoveElement(reg, id) /\ UNCHANGED used
    BY <1>2 DEF Remove
  <2>2. id \in ElementId /\ reg \in Registry
    BY DEF Consistent
  <2>3. Consistent(reg') /\ (Exact(reg) => Exact(reg'))
    BY <2>1, <2>2, RemoveKeepsAll
  <2>4. /\ Live(reg') = Live(reg) \ Subtree(reg.tree, id)
        /\ \A e \in Live(reg') : reg'.elements[e] = reg.elements[e]
    BY <2>1, <2>2, RemoveElementLive
  <2>5. \A e \in ElementId : reg'.tree.parent_of[e] \in {None, reg.tree.parent_of[e]}
    <3>1. reg.tree \in Tree /\ reg'.tree = RemoveSubtree(reg.tree, id)
      BY <2>1, <2>2 DEF RemoveElement, Registry
    <3> QED
      BY <2>2, <3>1, RemoveSubtreeParents
  <2>6. ExactInv'
    BY <2>1, <2>3, <2>4 DEF Live
  <2>7. KeepsIdentity
    BY <2>4, <2>5 DEF KeepsIdentity, Live
  <2> QED
    BY <2>6, <2>7
<1>3. CASE ReplaceChildren
  <2>1. PICK id \in used, ids \in SUBSET used, reordered \in BOOLEAN :
          reg' = SetChildren(reg, id, ids, reordered) /\ UNCHANGED used
    BY <1>3 DEF ReplaceChildren
  <2>2. id \in ElementId /\ ids \in SUBSET ElementId
    OBVIOUS
  <2>3. /\ Consistent(reg') /\ (Exact(reg) => Exact(reg'))
        /\ reg'.elements = reg.elements
        /\ \A c \in ElementId : reg.tree.parent_of[c] # None =>
             reg'.tree.parent_of[c] \in {None, reg.tree.parent_of[c]}
    BY <2>1, <2>2, SetKeepsAll
  <2>4. Live(reg') = Live(reg)
    BY <2>3 DEF Live
  <2>5. ExactInv'
    BY <2>1, <2>3, <2>4 DEF Live
  <2>6. KeepsIdentity
    BY <2>3, <2>4 DEF KeepsIdentity, Live
  <2> QED
    BY <2>5, <2>6
<1>4. CASE Refresh \/ SilentRefresh
  <2>1. PICK id \in used, attrs \in Attributes :
          /\ reg' \in {RefreshElement(reg, id, attrs), RefreshSilently(reg, id, attrs)}
          /\ UNCHANGED used
    BY <1>4 DEF Refresh, SilentRefresh
  <2>2. id \in ElementId
    OBVIOUS
  <2>3. /\ reg' = reg \/ (id \in Live(reg) /\ Rewritten(reg, id, reg'))
        /\ Consistent(reg') /\ (Exact(reg) => Exact(reg'))
    BY <2>1, <2>2, RefreshKeepsAll
  <2>4. /\ Live(reg') = Live(reg) /\ reg'.tree = reg.tree
        /\ \A e \in Live(reg) : reg'.elements[e].handle = reg.elements[e].handle
    BY <2>3 DEF Rewritten, Live
  <2>5. ExactInv'
    BY <2>1, <2>3, <2>4 DEF Live
  <2>6. KeepsIdentity
    BY <2>4 DEF KeepsIdentity, Live
  <2> QED
    BY <2>5, <2>6
<1>5. CASE UNCHANGED vars
  BY <1>5 DEF vars, Live
<1> QED
  BY <1>1, <1>2, <1>3, <1>4, <1>5 DEF Next

LEMMA AlwaysExactInv == Spec => []ExactInv
<1>1. ExactInv /\ [Next]_vars => ExactInv'
  BY StepKeepsExactInv
<1> QED
  BY InitExactInv, <1>1, PTL DEF Spec

(***************************************************************************)
(* The registry is well typed and caches no id that was never handed out.  *)
(***************************************************************************)
THEOREM TypeCorrect == Spec => []TypeOK
<1>1. ExactInv => TypeOK
  BY DEF ExactInv, Inv, Consistent, TypeOK
<1> QED
  BY AlwaysExactInv, <1>1, PTL

(***************************************************************************)
(* The handle index and the element map stay inverse to each other,        *)
(* through updates, cascades and reparenting, whatever the platform says   *)
(* (registry/mod.rs:6, elements.rs:23-91, 123-144).                        *)
(***************************************************************************)
THEOREM IndexesStayInverse == Spec => []IndexesInverse
<1>1. ExactInv => IndexesInverse
  BY DEF ExactInv, Inv, Consistent, IndexesInverse
<1> QED
  BY AlwaysExactInv, <1>1, PTL

(***************************************************************************)
(* Whoever has a parent is listed by it, so no cascade misses it           *)
(* (tree.rs:10-11, 110-132).                                               *)
(***************************************************************************)
THEOREM LinkedChildStaysListed == Spec => []LinkedChildIsListed
<1>1. ExactInv => LinkedChildIsListed
  BY DEF ExactInv, Inv, Consistent, LinkedChildIsListed
<1> QED
  BY AlwaysExactInv, <1>1, PTL

(***************************************************************************)
(* A subscriber that applies every event knows exactly the live elements,  *)
(* and every child of each (elements.rs:51-88, 123-144).                   *)
(***************************************************************************)
THEOREM SubscribersStayInformed == Spec => []SubscriberKnowsElements
<1>1. ExactInv => SubscriberKnowsElements
  BY DEF ExactInv, Inv, Consistent, SubscriberKnowsElements
<1> QED
  BY AlwaysExactInv, <1>1, PTL

(***************************************************************************)
(* If reading a parent's role never fails, links join live elements and    *)
(* the orphan queue is exact: add_child never meets its error branch when  *)
(* a parent arrives (elements.rs:64-88, tree.rs:94-101).                   *)
(***************************************************************************)
THEOREM OrphansStayLinkable ==
  ASSUME StableRoots
  PROVE  Spec => []OrphansLinkable
<1>1. ExactInv => OrphansLinkable
  BY DEF ExactInv, Exact, LinksAndQueue, OrphansLinkable
<1> QED
  BY AlwaysExactInv, <1>1, PTL

(***************************************************************************)
(* An id names one handle for as long as it lives, is never handed out     *)
(* twice, and no call moves a live element to another parent               *)
(* (elements.rs:23-25, tree.rs:9-13).                                      *)
(***************************************************************************)
THEOREM IdentityStaysStable == Spec => IdentityIsStable
<1>1. ExactInv /\ [Next]_vars => [KeepsIdentity]_vars
  BY StepKeepsExactInv DEF vars
<1> QED
  BY AlwaysExactInv, <1>1, PTL DEF Spec, IdentityIsStable

----------------------------------------------------------------------------
\* A set of naturals that is not empty has a least element.
LEMMA Least ==
  ASSUME NEW T \in SUBSET Nat, T # {}
  PROVE  \E x \in T : \A y \in T : x <= y
<1> DEFINE R == {ss \in Nat \X Nat : ss[1] < ss[2]}
<1>1. IsWellFoundedOn(R, Nat)
  BY NatLessThanWellFounded DEF OpToRel
<1>2. PICK x \in T : \A y \in T : <<y, x>> \notin R
  <2> HIDE DEF R
  <2> QED BY <1>1, WFMin
<1>3. \A y \in T : x <= y
  <2> TAKE y \in T
  <2>1. y \in Nat /\ x \in Nat /\ (<<y, x>> \in R <=> y < x)
    OBVIOUS
  <2>2. ~(y < x)
    BY <1>2, <2>1
  <2> QED BY ONLY <2>1, <2>2
<1> QED BY <1>3

----------------------------------------------------------------------------
(***************************************************************************)
(* The graph demo.                                                         *)
(***************************************************************************)
Place == [id : Node, gone : BOOLEAN]
Entry == [id : Node, parent : Nodes!Parent]
Question == [kind : {"at", "retry", "children", "parent", "get"}, node : Place \cup {None}]
Event == [kind : {"added", "changed", "removed"}, id : Node, parent : Nodes!Parent]
Answer == [kind : {"answer"}, to : Question, fallback : BOOLEAN, found : Seq(Entry)]

Drawing == [nodes : UNION {[D -> Nodes!Parent] : D \in SUBSET Node}, links : SUBSET (Node \X Node),
            needsRebuild : BOOLEAN, running : BOOLEAN, refreshed : SUBSET Node]

NodesTyped ==
  /\ IsFiniteSet(DOMAIN elements) /\ elements \in UNION {[D -> Nodes!Parent] : D \in SUBSET Node}
  /\ asked \in Seq(Question) /\ inbox \in Seq(Event \cup Answer)
  /\ graph \in Drawing /\ drawn \in SUBSET Place
  /\ hovered \in Place \cup {None} /\ overlay \in Place \cup {None}

\* A node that is not refreshed has its link.
Linked(g) ==
  \A n \in DOMAIN g.nodes \ g.refreshed :
    g.nodes[n] \in DOMAIN g.nodes => <<g.nodes[n], n>> \in g.links

\* What is drawn lags behind only while a tick will come that draws it.
Shows(g, d) == ~g.running \/ ~g.needsRebuild => d = Nodes!NodesOf(g)

Sound(g, d) == g \in Drawing /\ Linked(g) /\ Shows(g, d)

NodesInv == NodesTyped /\ Sound(graph, drawn) /\ OverlayFollowsPointer

LEMMA DrawingNodes ==
  ASSUME NEW g \in Drawing
  PROVE  /\ DOMAIN g.nodes \in SUBSET Node /\ g.nodes \in [DOMAIN g.nodes -> Nodes!Parent]
         /\ g.links \in SUBSET (Node \X Node) /\ g.needsRebuild \in BOOLEAN /\ g.running \in BOOLEAN
         /\ g.refreshed \in SUBSET Node
         /\ Nodes!NodesOf(g) \in SUBSET Place
<1>1. PICK D \in SUBSET Node : g.nodes \in [D -> Nodes!Parent]
  BY DEF Drawing
<1>2. DOMAIN g.nodes \in SUBSET Node /\ g.nodes \in [DOMAIN g.nodes -> Nodes!Parent]
  BY <1>1
<1>3. \A n \in Node : Nodes!Held(n) \in Place
  BY DEF Nodes!Held, Place
<1>4. Nodes!NodesOf(g) \in SUBSET Place
  BY <1>2, <1>3 DEF Nodes!NodesOf
<1> QED BY <1>2, <1>4 DEF Drawing

\* Updating the links makes the missing ones.
LEMMA UpdateLinksSound ==
  ASSUME NEW g \in Drawing, NEW d, Shows(g, d)
  PROVE  Sound(Nodes!UpdateLinks(g), d)
<1> DEFINE new == {<<g.nodes[n], n>> : n \in {m \in DOMAIN g.nodes : g.nodes[m] \in DOMAIN g.nodes}}
                    \ g.links
           h == Nodes!UpdateLinks(g)
<1>1. h = [g EXCEPT !.links = g.links \cup new, !.needsRebuild = g.needsRebuild \/ new # {}, !.refreshed = {}]
  BY DEF Nodes!UpdateLinks
<1>2. new \in SUBSET (Node \X Node)
  BY DrawingNodes
<1>3. /\ h \in Drawing
      /\ h.nodes = g.nodes /\ h.links = g.links \cup new /\ h.running = g.running /\ h.refreshed = {}
      /\ h.needsRebuild = (g.needsRebuild \/ new # {})
  <2> HIDE DEF new, h
  <2> QED BY <1>1, <1>2, DrawingNodes DEF Drawing
<1>4. Linked(h)
  <2> SUFFICES ASSUME NEW n \in DOMAIN g.nodes, g.nodes[n] \in DOMAIN g.nodes
               PROVE  <<g.nodes[n], n>> \in g.links \cup new
    BY <1>3 DEF Linked
  <2> QED OBVIOUS
<1>5. Shows(h, d)
  <2> HIDE DEF new, h
  <2> QED BY <1>3 DEF Shows, Nodes!NodesOf
<1> QED BY <1>3, <1>4, <1>5 DEF Sound

LEMMA RestartSound ==
  ASSUME NEW g \in Drawing, NEW d, Linked(g), g.needsRebuild \/ Shows(g, d)
  PROVE  Sound(Nodes!RestartSimulation(g), d)
<1> DEFINE h == Nodes!RestartSimulation(g)
<1>1. /\ h \in Drawing /\ h.running = TRUE
      /\ h.nodes = g.nodes /\ h.links = g.links /\ h.needsRebuild = g.needsRebuild
      /\ h.refreshed = g.refreshed
  BY DrawingNodes DEF Nodes!RestartSimulation, Drawing
<1> HIDE DEF h
<1>2. Nodes!NodesOf(h) = Nodes!NodesOf(g)
  BY <1>1 DEF Nodes!NodesOf
<1>3. Linked(h)
  BY <1>1 DEF Linked
<1>4. Shows(h, d)
  BY <1>1, <1>2, DrawingNodes DEF Shows
<1> QED BY <1>1, <1>3, <1>4 DEF Sound, h

\* A node that is known takes the new element, a new one is linked and drawn.
LEMMA AddNodeSound ==
  ASSUME NEW g, NEW d, Sound(g, d), NEW n \in Node, NEW p \in Nodes!Parent
  PROVE  Sound(Nodes!AddNode(g, n, p), d)
<1> USE DEF Sound
<1>1. CASE n \in DOMAIN g.nodes
  <2> DEFINE h == Nodes!AddNode(g, n, p)
  <2>1. h = [g EXCEPT !.nodes[n] = p, !.refreshed = g.refreshed \cup {n}]
    BY <1>1 DEF Nodes!AddNode
  <2>2. /\ DOMAIN h.nodes = DOMAIN g.nodes /\ \A m \in DOMAIN g.nodes : m # n => h.nodes[m] = g.nodes[m]
        /\ h.links = g.links /\ h.running = g.running /\ h.needsRebuild = g.needsRebuild
        /\ h.refreshed = g.refreshed \cup {n}
    BY <2>1, <1>1 DEF Drawing
  <2>3. h \in Drawing
    <3>1. g.nodes \in [DOMAIN g.nodes -> Nodes!Parent] /\ DOMAIN g.nodes \in SUBSET Node
      BY DrawingNodes
    <3>2. [g.nodes EXCEPT ![n] = p] \in [DOMAIN g.nodes -> Nodes!Parent]
      BY <3>1
    <3>3. PICK map : map = [g.nodes EXCEPT ![n] = p]
      OBVIOUS
    <3>4. h = [g EXCEPT !.nodes = map, !.refreshed = g.refreshed \cup {n}]
      BY <2>1, <3>3
    <3>5. map \in UNION {[D -> Nodes!Parent] : D \in SUBSET Node}
      BY <3>1, <3>2, <3>3
    <3>6. g \in Drawing /\ g.refreshed \cup {n} \in SUBSET Node
      BY DrawingNodes
    <3> HIDE DEF h
    <3> QED BY ONLY <3>4, <3>5, <3>6 DEF Drawing
  <2> HIDE DEF h
  <2>4. Linked(h)
    BY <2>2 DEF Linked
  <2>5. Shows(h, d)
    BY <2>2 DEF Shows, Nodes!NodesOf
  <2> QED BY <2>3, <2>4, <2>5 DEF h
<1>2. CASE n \notin DOMAIN g.nodes
  <2> DEFINE k == [g EXCEPT !.nodes = Nodes!With(g.nodes, n, p), !.needsRebuild = TRUE]
             u == Nodes!UpdateLinks(k)
  <2>1. Nodes!AddNode(g, n, p) = Nodes!RestartSimulation(u)
    BY <1>2 DEF Nodes!AddNode
  <2>2. k \in Drawing /\ k.needsRebuild
    <3>1. g.nodes \in [DOMAIN g.nodes -> Nodes!Parent] /\ DOMAIN g.nodes \in SUBSET Node
      BY DrawingNodes
    <3>2. Nodes!With(g.nodes, n, p) \in [DOMAIN g.nodes \cup {n} -> Nodes!Parent]
      BY <3>1 DEF Nodes!With
    <3>3. DOMAIN g.nodes \cup {n} \in SUBSET Node
      BY <3>1
    <3>4. Nodes!With(g.nodes, n, p) \in UNION {[D -> Nodes!Parent] : D \in SUBSET Node}
      BY <3>2, <3>3
    <3> QED BY <3>4, DrawingNodes DEF Drawing
  <2> HIDE DEF k
  <2>3. Sound(u, Nodes!NodesOf(k)) /\ u.needsRebuild
    <3>1. Shows(k, Nodes!NodesOf(k))
      BY DEF Shows
    <3>2. u.needsRebuild
      BY <2>2 DEF Nodes!UpdateLinks, Drawing
    <3> QED BY <2>2, <3>1, <3>2, UpdateLinksSound
  <2> HIDE DEF u
  <2> QED BY <2>1, <2>3, RestartSound
<1> QED BY <1>1, <1>2

\* Adding nodes one after the other.
Adds(f, g, found, k) ==
  f = [i \in 0..k |-> IF i = 0 THEN g ELSE Nodes!AddNode(f[i - 1], found[i].id, found[i].parent)]

LEMMA AddsExist ==
  ASSUME NEW g, NEW found, NEW n \in Nat
  PROVE  \E f : Adds(f, g, found, n)
<1> DEFINE T == {k \in Nat : ~ \E f : Adds(f, g, found, k)}
<1>1. SUFFICES ASSUME T # {} PROVE FALSE
  OBVIOUS
<1>2. PICK k \in T : \A j \in T : k <= j
  <2>1. T \in SUBSET Nat
    OBVIOUS
  <2> HIDE DEF T
  <2> QED BY <1>1, <2>1, Least
<1>3. CASE k = 0
  <2> DEFINE f == [i \in 0..0 |-> g]
  <2>1. f = [i \in 0..0 |-> IF i = 0 THEN g ELSE Nodes!AddNode(f[i - 1], found[i].id, found[i].parent)]
    OBVIOUS
  <2> HIDE DEF f
  <2> QED BY <1>3, <2>1 DEF Adds
<1>4. CASE k # 0
  <2>1. k \in Nat /\ k - 1 \in Nat /\ k - 1 \notin T
    BY <1>2, <1>4
  <2>2. PICK f : Adds(f, g, found, k - 1)
    BY <2>1
  <2> DEFINE h == [i \in 0..k |-> IF i < k THEN f[i]
                                  ELSE Nodes!AddNode(f[k - 1], found[k].id, found[k].parent)]
  <2>3. ASSUME NEW i \in 0..k
        PROVE  h[i] = IF i = 0 THEN g ELSE Nodes!AddNode(h[i - 1], found[i].id, found[i].parent)
    <3>1. CASE i = k
      <4>1. k \in 0..k /\ k - 1 \in 0..k /\ k - 1 < k /\ ~(k < k)
        BY <2>1
      <4>2. h[k] = Nodes!AddNode(f[k - 1], found[k].id, found[k].parent) /\ h[k - 1] = f[k - 1]
        BY <4>1
      <4> HIDE DEF h
      <4> QED BY <3>1, <4>2, <1>4
    <3>2. CASE i < k
      <4>1. i \in 0..k - 1 /\ i \in Nat /\ h[i] = f[i]
        BY <2>1, <3>2
      <4>2. f[i] = IF i = 0 THEN g ELSE Nodes!AddNode(f[i - 1], found[i].id, found[i].parent)
        BY <2>2, <4>1 DEF Adds
      <4>3. i # 0 => h[i - 1] = f[i - 1]
        <5>1. i # 0 => i - 1 \in 0..k /\ i - 1 < k
          BY <2>1, <3>2, <4>1
        <5> QED BY <5>1
      <4> HIDE DEF h
      <4> QED BY <4>1, <4>2, <4>3
    <3> QED BY <2>1, <3>1, <3>2
  <2>4. h = [i \in 0..k |-> h[i]]
    OBVIOUS
  <2> HIDE DEF h
  <2>5. Adds(h, g, found, k)
    BY <2>3, <2>4 DEF Adds
  <2> QED BY <1>2, <2>5
<1> QED BY <1>3, <1>4

LEMMA AddNodesSound ==
  ASSUME NEW g, NEW d, Sound(g, d), NEW found \in Seq(Entry)
  PROVE  Sound(Nodes!AddNodes(g, found), d)
<1> DEFINE n == Len(found)
           f == CHOOSE f : Adds(f, g, found, n)
<1>1. n \in Nat /\ \A i \in 1..n : found[i] \in Entry
  BY LenProperties, ElementOfSeq
<1>2. Nodes!AddNodes(g, found) = f[n]
  BY DEF Nodes!AddNodes, Adds
<1>3. Adds(f, g, found, n)
  BY <1>1, AddsExist
<1> HIDE DEF f
<1> DEFINE T == {i \in 0..n : ~Sound(f[i], d)}
<1>4. ASSUME T # {} PROVE FALSE
  <2>1. PICK i \in T : \A j \in T : i <= j
    <3>1. T \in SUBSET Nat
      BY <1>1
    <3> HIDE DEF T
    <3> QED BY <1>4, <3>1, Least
  <2>2. i \in 0..n /\ i \in Nat /\ ~Sound(f[i], d)
    BY <1>1, <2>1
  <2>3. f[i] = IF i = 0 THEN g ELSE Nodes!AddNode(f[i - 1], found[i].id, found[i].parent)
    BY <1>3, <2>2 DEF Adds
  <2>4. i # 0
    BY <2>2, <2>3
  <2>5. i - 1 \in 0..n /\ ~(i <= i - 1) /\ i \in 1..n
    BY <1>1, <2>2, <2>4
  <2>6. Sound(f[i - 1], d)
    BY <2>1, <2>5
  <2>7. found[i].id \in Node /\ found[i].parent \in Nodes!Parent
    BY <1>1, <2>5 DEF Entry
  <2>8. Sound(Nodes!AddNode(f[i - 1], found[i].id, found[i].parent), d)
    BY <2>6, <2>7, AddNodeSound
  <2> QED BY <2>2, <2>3, <2>4, <2>8
<1>5. n \in 0..n
  BY <1>1
<1> QED BY <1>2, <1>4, <1>5

\* A changed element, an element that is gone.
LEMMA ChangedSound ==
  ASSUME NEW g, NEW d, Sound(g, d), NEW n \in Node, NEW p \in Nodes!Parent
  PROVE  Sound(Nodes!OnElementChanged(g, n, p), d)
<1>1. CASE n \notin DOMAIN g.nodes
  BY <1>1 DEF Nodes!OnElementChanged
<1>2. CASE n \in DOMAIN g.nodes
  <2>1. g \in Drawing /\ Shows(g, d)
    BY DEF Sound
  <2>2. PICK map : map = [g.nodes EXCEPT ![n] = p]
    OBVIOUS
  <2>3. map \in [DOMAIN g.nodes -> Nodes!Parent]
    BY <2>1, <2>2, DrawingNodes
  <2>4. map \in UNION {[D -> Nodes!Parent] : D \in SUBSET Node} /\ DOMAIN map = DOMAIN g.nodes
    BY <2>1, <2>3, DrawingNodes
  <2>5. PICK k : k = [g EXCEPT !.nodes = map]
    OBVIOUS
  <2>6. k \in Drawing /\ k.nodes = map /\ k.running = g.running /\ k.needsRebuild = g.needsRebuild
    BY <2>1, <2>4, <2>5, DrawingNodes DEF Drawing
  <2>7. Shows(k, d)
    BY <2>1, <2>4, <2>6 DEF Shows, Nodes!NodesOf
  <2>8. Nodes!OnElementChanged(g, n, p) = Nodes!UpdateLinks(k)
    BY <1>2, <2>2, <2>5 DEF Nodes!OnElementChanged
  <2> QED BY <2>6, <2>7, <2>8, UpdateLinksSound
<1> QED BY <1>1, <1>2

LEMMA LostNode ==
  ASSUME NEW n \in Node
  PROVE  /\ \A node \in Place : Nodes!Lost(n, node) \in Place
         /\ Nodes!Lost(n, None) = None
         /\ \A m \in Node : m # n => Nodes!Lost(n, Nodes!Held(m)) = Nodes!Held(m)
<1>1. ASSUME NEW m \in Node, m # n PROVE Nodes!Held(m) # Nodes!Held(n)
  <2>1. Nodes!Held(m).id = m /\ Nodes!Held(n).id = n
    BY DEF Nodes!Held
  <2> QED BY <1>1, <2>1
<1>2. Nodes!Held(n) \in Place /\ None \notin Place
  BY NodeAssumption DEF Nodes!Held, Place
<1>3. ASSUME NEW node \in Place PROVE Nodes!Lost(n, node) \in Place
  BY DEF Nodes!Lost, Place
<1> QED BY <1>1, <1>2, <1>3 DEF Nodes!Lost

LEMMA RemovedSound ==
  ASSUME NEW g, NEW d \in SUBSET Place, Sound(g, d), NEW n \in Node
  PROVE  Sound(Nodes!OnElementRemoved(g, n), {Nodes!Lost(n, node) : node \in d})
<1> DEFINE dd == {Nodes!Lost(n, node) : node \in d}
<1>0. g \in Drawing /\ Shows(g, d) /\ Linked(g)
  BY DEF Sound
<1>1. CASE n \notin DOMAIN g.nodes
  <2>1. ASSUME d = Nodes!NodesOf(g) PROVE dd = d
    <3>1. \A node \in d : Nodes!Lost(n, node) = node
      BY <1>0, <1>1, <2>1, LostNode, DrawingNodes DEF Nodes!NodesOf
    <3> QED BY <3>1
  <2>2. Shows(g, dd)
    <3> HIDE DEF dd
    <3> QED BY <1>0, <2>1 DEF Shows
  <2>3. Nodes!OnElementRemoved(g, n) = g
    BY <1>1 DEF Nodes!OnElementRemoved
  <2> QED BY <1>0, <2>2, <2>3 DEF Sound
<1>2. CASE n \in DOMAIN g.nodes
  <2>1. PICK map : map = [m \in DOMAIN g.nodes \ {n} |-> g.nodes[m]]
    OBVIOUS
  <2>2. map \in UNION {[D -> Nodes!Parent] : D \in SUBSET Node}
    <3>1. map \in [DOMAIN g.nodes \ {n} -> Nodes!Parent] /\ DOMAIN g.nodes \ {n} \in SUBSET Node
      BY <1>0, <2>1, DrawingNodes
    <3> QED BY <3>1
  <2>3. PICK links : links = {l \in g.links : n \notin {l[1], l[2]}}
    OBVIOUS
  <2>4. PICK k : k = [g EXCEPT !.nodes = map, !.links = links, !.needsRebuild = TRUE,
                               !.refreshed = g.refreshed \ {n}]
    OBVIOUS
  <2>5. /\ k \in Drawing /\ k.nodes = map /\ k.links = links /\ k.needsRebuild = TRUE
        /\ k.refreshed = g.refreshed \ {n}
    <3>1. links \in SUBSET (Node \X Node) /\ g.refreshed \ {n} \in SUBSET Node
      BY <1>0, <2>3, DrawingNodes
    <3> QED BY <1>0, <2>2, <2>4, <3>1 DEF Drawing
  <2>6. Linked(k)
    <3> SUFFICES ASSUME NEW m \in DOMAIN map \ k.refreshed, map[m] \in DOMAIN map
                 PROVE  <<map[m], m>> \in links
      BY <2>5 DEF Linked
    <3>1. m \in DOMAIN g.nodes \ g.refreshed /\ m # n /\ map[m] = g.nodes[m]
      BY <2>1, <2>5
    <3>2. map[m] \in DOMAIN g.nodes /\ map[m] # n
      BY <2>1
    <3>3. <<g.nodes[m], m>> \in g.links
      BY <1>0, <3>1, <3>2 DEF Linked
    <3> QED BY <2>3, <3>1, <3>2, <3>3
  <2>7. Nodes!OnElementRemoved(g, n) = Nodes!RestartSimulation(k)
    BY <1>2, <2>1, <2>3, <2>4 DEF Nodes!OnElementRemoved
  <2> QED BY <2>5, <2>6, <2>7, RestartSound
<1> QED BY <1>1, <1>2

----------------------------------------------------------------------------
\* The messages on their way.
LEMMA MapSeq ==
  ASSUME NEW S, NEW s \in Seq(S), NEW F, DOMAIN F = DOMAIN s, F = [i \in DOMAIN F |-> F[i]],
         \A i \in DOMAIN s : F[i] \in S
  PROVE  F \in Seq(S)
<1>1. Len(s) \in Nat /\ DOMAIN s = 1..Len(s)
  BY LenProperties
<1>2. F \in [1..Len(s) -> S]
  BY <1>1
<1> QED BY <1>1, <1>2, SeqDef

LEMMA InsertTyped ==
  ASSUME NEW S, NEW s \in Seq(S), NEW i \in 1..Len(s) + 1, NEW x \in S
  PROVE  Nodes!InsertAt(s, i, x) \in Seq(S)
<1>1. Len(s) \in Nat /\ i \in Nat /\ i - 1 \in 0..Len(s)
  BY LenProperties
<1>2. SubSeq(s, 1, i - 1) \in Seq(S)
  BY <1>1, SubSeqProperties
<1>3. SubSeq(s, i, Len(s)) \in Seq(S)
  BY <1>1, SubSeqProperties
<1>4. <<x>> \in Seq(S)
  OBVIOUS
<1> QED BY <1>2, <1>3, <1>4, ConcatProperties DEF Nodes!InsertAt

LEMMA SlotsTyped == ASSUME NodesInv PROVE Nodes!Slots \subseteq 1..Len(inbox) + 1
<1>1. Len(inbox) \in Nat /\ (inbox # <<>> => Len(inbox) # 0)
  BY LenProperties, EmptySeq DEF NodesInv, NodesTyped
<1> QED BY <1>1 DEF Nodes!Slots

LEMMA AnnounceKeeps ==
  ASSUME NodesInv, NEW kind \in {"added", "changed", "removed"}, NEW n \in Node, NEW p \in Nodes!Parent,
         Nodes!Announce(kind, n, p),
         NEW D \in SUBSET Node, IsFiniteSet(D), elements' \in [D -> Nodes!Parent]
  PROVE  NodesInv'
<1>1. PICK i \in Nodes!Slots : inbox' = Nodes!InsertAt(inbox, i, [kind |-> kind, id |-> n, parent |-> p])
  BY DEF Nodes!Announce
<1>2. [kind |-> kind, id |-> n, parent |-> p] \in Event
  BY DEF Event
<1>3. inbox' \in Seq(Event \cup Answer)
  BY <1>1, <1>2, SlotsTyped, InsertTyped DEF NodesInv, NodesTyped
<1>4. UNCHANGED <<asked, graph, drawn, hovered, overlay>>
  BY DEF Nodes!Announce, Nodes!page
<1> QED BY <1>3, <1>4 DEF NodesInv, NodesTyped, OverlayFollowsPointer, Nodes!OverlayFollowsPointer

LEMMA ElementsFinite ==
  ASSUME NodesInv
  PROVE  /\ IsFiniteSet(DOMAIN elements) /\ DOMAIN elements \in SUBSET Node
         /\ elements \in [DOMAIN elements -> Nodes!Parent]
BY DEF NodesInv, NodesTyped

LEMMA AppearKeeps ==
  ASSUME NodesInv, NEW n \in Node, NEW p \in Nodes!Parent, Nodes!Appear(n, p)
  PROVE  NodesInv'
<1>1. Nodes!Announce("added", n, p) /\ elements' = Nodes!With(elements, n, p)
  BY DEF Nodes!Appear
<1>2. elements' \in [DOMAIN elements \cup {n} -> Nodes!Parent]
  BY <1>1, ElementsFinite DEF Nodes!With
<1>3. IsFiniteSet(DOMAIN elements \cup {n}) /\ DOMAIN elements \cup {n} \in SUBSET Node
  BY ElementsFinite, FS_AddElement
<1> QED BY <1>1, <1>2, <1>3, AnnounceKeeps

LEMMA AlterKeeps ==
  ASSUME NodesInv, NEW n \in Node, NEW p \in Nodes!Parent, Nodes!Alter(n, p)
  PROVE  NodesInv'
<1>1. Nodes!Announce("changed", n, p) /\ elements' = [elements EXCEPT ![n] = p]
  BY DEF Nodes!Alter
<1>2. elements' \in [DOMAIN elements -> Nodes!Parent]
  BY <1>1, ElementsFinite
<1> QED BY <1>1, <1>2, ElementsFinite, AnnounceKeeps

LEMMA VanishKeeps ==
  ASSUME NodesInv, NEW n \in Node, Nodes!Vanish(n)
  PROVE  NodesInv'
<1>1. Nodes!Announce("removed", n, None) /\ elements' = [e \in DOMAIN elements \ {n} |-> elements[e]]
  BY DEF Nodes!Vanish
<1>2. elements' \in [DOMAIN elements \ {n} -> Nodes!Parent]
  BY <1>1, ElementsFinite
<1>3. IsFiniteSet(DOMAIN elements \ {n}) /\ DOMAIN elements \ {n} \in SUBSET Node /\ None \in Nodes!Parent
  BY ElementsFinite, FS_RemoveElement DEF Nodes!Parent
<1> QED BY <1>1, <1>2, <1>3, AnnounceKeeps

\* What is read is an element of the server each time.
LEMMA ReadKeeps == ASSUME NodesInv, Nodes!Read PROVE NodesInv'
<1>1. asked # <<>> /\ asked \in Seq(Question) /\ inbox \in Seq(Event \cup Answer)
  BY DEF Nodes!Read, NodesInv, NodesTyped
<1>2. Head(asked) \in Question /\ Tail(asked) \in Seq(Question)
  BY <1>1, HeadTailProperties
<1> DEFINE r == Head(asked)
           found == CASE r.kind \in {"at", "retry"} -> {{e} : e \in DOMAIN elements} \cup {{}}
                      [] r.kind = "children" -> {{e \in DOMAIN elements : elements[e] = r.node.id}}
                      [] r.kind = "parent" -> {{e \in DOMAIN elements : r.node.id \in DOMAIN elements
                                                                      /\ elements[r.node.id] = e}}
                      [] OTHER -> {{r.node.id} \cap DOMAIN elements}
           answer(f, order) == [kind |-> "answer", to |-> r, fallback |-> f,
                found |-> [i \in DOMAIN order |-> [id |-> order[i], parent |-> elements[order[i]]]]]
<1>3. PICK es \in found, f \in BOOLEAN :
        \E order \in Nodes!SetToSeqs(es) : inbox' = Append(inbox, answer(f, order))
  BY DEF Nodes!Read
<1>10. PICK order \in Nodes!SetToSeqs(es) : inbox' = Append(inbox, answer(f, order))
  BY <1>3
<1>4. es \in SUBSET DOMAIN elements
  <2>1. ASSUME r.kind \in {"at", "retry"} PROVE es \in {{e} : e \in DOMAIN elements} \cup {{}}
    BY <1>3, <2>1
  <2>2. ASSUME r.kind = "children" PROVE es \in {{e \in DOMAIN elements : elements[e] = r.node.id}}
    BY <1>3, <2>2
  <2>3. ASSUME r.kind = "parent"
        PROVE  es \in {{e \in DOMAIN elements : r.node.id \in DOMAIN elements /\ elements[r.node.id] = e}}
    BY <1>3, <2>3
  <2>4. ASSUME r.kind = "get" PROVE es \in {{r.node.id} \cap DOMAIN elements}
    BY <1>3, <2>4
  <2>5. r.kind \in {"at", "retry", "children", "parent", "get"}
    BY <1>2 DEF Question
  <2> HIDE DEF found
  <2> QED BY <2>1, <2>2, <2>3, <2>4, <2>5
<1> HIDE DEF found
<1>5. Cardinality(es) \in Nat
  BY <1>4, ElementsFinite, FS_Subset, FS_CardinalityType
<1>6. order \in [1..Cardinality(es) -> es]
  <2>1. Nodes!Cardinality(es) = Cardinality(es)
    BY DEF Nodes!Cardinality, Cardinality
  <2> QED BY <2>1 DEF Nodes!SetToSeqs
<1>7. answer(f, order) \in Answer
  <2> DEFINE entries == [i \in DOMAIN order |-> [id |-> order[i], parent |-> elements[order[i]]]]
  <2>1. ASSUME NEW i \in DOMAIN order PROVE entries[i] \in Entry
    <3>1. order[i] \in DOMAIN elements
      BY <1>4, <1>6
    <3> QED BY <3>1, ElementsFinite DEF Entry
  <2>2. entries \in [1..Cardinality(es) -> Entry]
    BY <1>6, <2>1
  <2>3. entries \in Seq(Entry)
    BY <1>5, <2>2, SeqDef
  <2> HIDE DEF entries
  <2>4. answer(f, order) = [kind |-> "answer", to |-> r, fallback |-> f, found |-> entries]
    BY DEF entries
  <2> QED BY <1>2, <1>3, <2>3, <2>4 DEF Answer
<1> HIDE DEF answer
<1>8. inbox' \in Seq(Event \cup Answer)
  BY <1>1, <1>10, <1>7, AppendProperties
<1>9. asked' = Tail(asked) /\ UNCHANGED <<elements, graph, drawn, hovered, overlay>>
  BY DEF Nodes!Read, Nodes!page
<1> QED BY <1>2, <1>8, <1>9 DEF NodesInv, NodesTyped, OverlayFollowsPointer, Nodes!OverlayFollowsPointer

\* An event is applied to the graph, and to what is held of a removed node.
LEMMA ElementEventKeeps == ASSUME NodesInv, Nodes!ElementEvent PROVE NodesInv'
<1> DEFINE m == Head(inbox)
           lost(node) == IF m.kind = "removed" THEN Nodes!Lost(m.id, node) ELSE node
           ask(r) == [r EXCEPT !.node = lost(r.node)]
           answer(a) == IF a.kind = "answer" THEN [a EXCEPT !.to = ask(a.to)] ELSE a
<1>1. /\ inbox # <<>> /\ inbox \in Seq(Event \cup Answer) /\ asked \in Seq(Question)
      /\ m.kind # "answer"
      /\ drawn \in SUBSET Place /\ Sound(graph, drawn)
  BY DEF Nodes!ElementEvent, NodesInv, NodesTyped
<1>2. m \in Event /\ Tail(inbox) \in Seq(Event \cup Answer)
  BY <1>1, HeadTailProperties DEF Answer
<1>3. m.kind \in {"added", "changed", "removed"} /\ m.id \in Node /\ m.parent \in Nodes!Parent
  BY <1>2 DEF Event
<1>4. /\ graph' = CASE m.kind = "added" -> Nodes!AddNode(graph, m.id, m.parent)
                    [] m.kind = "changed" -> Nodes!OnElementChanged(graph, m.id, m.parent)
                    [] m.kind = "removed" -> Nodes!OnElementRemoved(graph, m.id)
      /\ asked' = [i \in DOMAIN asked |-> ask(asked[i])]
      /\ inbox' = [i \in 1..Len(inbox) - 1 |-> answer(inbox[i + 1])]
      /\ drawn' = {lost(node) : node \in drawn}
      /\ hovered' = lost(hovered) /\ overlay' = lost(overlay)
      /\ UNCHANGED elements
  BY DEF Nodes!ElementEvent
<1>5. /\ \A node \in Place : lost(node) \in Place
      /\ lost(None) = None
  BY <1>3, LostNode
<1>6. Sound(graph', drawn')
  <2>1. CASE m.kind = "removed"
    <3>1. graph' = Nodes!OnElementRemoved(graph, m.id)
      BY <1>4, <2>1
    <3>2. drawn' = {Nodes!Lost(m.id, node) : node \in drawn}
      BY <1>4, <2>1
    <3> HIDE DEF m
    <3> QED BY <1>1, <1>3, <3>1, <3>2, RemovedSound
  <2>2. CASE m.kind = "added"
    <3>1. graph' = Nodes!AddNode(graph, m.id, m.parent) /\ drawn' = drawn
      BY <1>4, <2>2
    <3> HIDE DEF m
    <3> QED BY <1>1, <1>3, <3>1, AddNodeSound
  <2>3. CASE m.kind = "changed"
    <3>1. graph' = Nodes!OnElementChanged(graph, m.id, m.parent) /\ drawn' = drawn
      BY <1>4, <2>3
    <3> HIDE DEF m
    <3> QED BY <1>1, <1>3, <3>1, ChangedSound
  <2> QED BY <1>3, <2>1, <2>2, <2>3
<1> HIDE DEF lost
<1>7. ASSUME NEW r \in Question PROVE ask(r) \in Question
  <2>1. lost(r.node) \in Place \cup {None}
    BY <1>5 DEF Question
  <2> QED BY <2>1 DEF Question
<1> HIDE DEF ask
<1>8. ASSUME NEW a \in Event \cup Answer PROVE answer(a) \in Event \cup Answer
  <2>1. CASE a.kind = "answer"
    <3>1. a \in Answer
      BY <2>1 DEF Event
    <3>2. ask(a.to) \in Question
      BY <1>7, <3>1 DEF Answer
    <3> QED BY <2>1, <3>1, <3>2 DEF Answer
  <2> QED BY <2>1
<1> HIDE DEF answer
<1>9. asked' \in Seq(Question)
  <2>1. \A i \in DOMAIN asked : asked'[i] \in Question
    BY <1>1, <1>4, <1>7, ElementOfSeq
  <2>2. Len(asked) \in Nat /\ DOMAIN asked = 1..Len(asked)
    BY <1>1, LenProperties
  <2>3. asked' \in [1..Len(asked) -> Question]
    BY <1>4, <2>1, <2>2
  <2> QED BY <2>2, <2>3, SeqDef
<1>10. inbox' \in Seq(Event \cup Answer)
  <2>1. Len(inbox) - 1 \in Nat /\ \A i \in 1..Len(inbox) - 1 : inbox[i + 1] \in Event \cup Answer
    <3>1. Len(inbox) \in Nat /\ Len(inbox) # 0
      BY <1>1, LenProperties, EmptySeq
    <3>2. \A i \in 1..Len(inbox) - 1 : i + 1 \in 1..Len(inbox)
      BY <3>1
    <3> QED BY <1>1, <3>1, <3>2, ElementOfSeq
  <2>2. inbox' \in [1..Len(inbox) - 1 -> Event \cup Answer]
    BY <1>4, <1>8, <2>1
  <2> QED BY <2>1, <2>2, SeqDef
<1>11. drawn' \in SUBSET Place /\ hovered' \in Place \cup {None} /\ overlay' \in Place \cup {None}
  BY <1>1, <1>4, <1>5 DEF NodesInv, NodesTyped
<1>12. OverlayFollowsPointer'
  BY <1>4, <1>5 DEF NodesInv, OverlayFollowsPointer, Nodes!OverlayFollowsPointer
<1>13. graph' \in Drawing
  BY <1>6 DEF Sound
<1> QED BY <1>4, <1>6, <1>9, <1>10, <1>11, <1>12, <1>13 DEF NodesInv, NodesTyped

----------------------------------------------------------------------------
\* The answers take their functions further.
LEMMA AnswerTyped ==
  ASSUME NodesInv, NEW kinds, Nodes!Answered(kinds)
  PROVE  /\ Head(inbox) \in Answer /\ Tail(inbox) \in Seq(Event \cup Answer)
         /\ Head(inbox).to.kind \in kinds
<1>1. inbox # <<>> /\ inbox \in Seq(Event \cup Answer) /\ Head(inbox).kind = "answer"
  BY DEF Nodes!Answered, NodesInv, NodesTyped
<1>2. Head(inbox) \in Event \cup Answer /\ Tail(inbox) \in Seq(Event \cup Answer)
  BY <1>1, HeadTailProperties
<1> QED BY <1>1, <1>2 DEF Nodes!Answered, Event

LEMMA AskTyped ==
  ASSUME NodesInv, NEW kind \in {"at", "retry", "children", "parent", "get"}, NEW node \in Place \cup {None},
         Nodes!Ask(kind, node)
  PROVE  asked' \in Seq(Question)
<1>1. [kind |-> kind, node |-> node] \in Question
  BY DEF Question
<1> QED BY <1>1, AppendProperties DEF Nodes!Ask, NodesInv, NodesTyped

LEMMA ElementAtKeeps == ASSUME NodesInv, Nodes!ElementAtAnswer PROVE NodesInv'
<1> DEFINE m == Head(inbox)
<1>1. m \in Answer /\ Tail(inbox) \in Seq(Event \cup Answer)
  BY AnswerTyped DEF Nodes!ElementAtAnswer
<1>2. /\ IF m.fallback THEN Nodes!Ask("retry", None) /\ UNCHANGED graph
         ELSE graph' = Nodes!AddNodes(graph, m.found) /\ UNCHANGED asked
      /\ inbox' = Tail(inbox)
      /\ UNCHANGED <<elements, drawn, hovered, overlay>>
  BY DEF Nodes!ElementAtAnswer
<1>3. asked' \in Seq(Question)
  BY <1>2, AskTyped DEF NodesInv, NodesTyped
<1>4. Sound(graph', drawn)
  <2>1. m.found \in Seq(Entry) /\ Sound(graph, drawn)
    BY <1>1 DEF Answer, NodesInv
  <2>2. Sound(Nodes!AddNodes(graph, m.found), drawn)
    BY <2>1, AddNodesSound
  <2> QED BY <1>2, <2>1, <2>2
<1>5. graph' \in Drawing
  BY <1>4 DEF Sound
<1> QED BY <1>1, <1>2, <1>3, <1>4, <1>5 DEF NodesInv, NodesTyped, OverlayFollowsPointer, Nodes!OverlayFollowsPointer

LEMMA ExpandKeeps == ASSUME NodesInv, Nodes!ExpandAnswer PROVE NodesInv'
<1> DEFINE m == Head(inbox)
           g == Nodes!AddNodes(graph, m.found)
<1>1. m \in Answer /\ Tail(inbox) \in Seq(Event \cup Answer)
  BY AnswerTyped DEF Nodes!ExpandAnswer
<1>2. /\ IF m.to.kind = "children"
         THEN \/ Nodes!Ask("parent", m.to.node) /\ graph' = g
              \/ UNCHANGED asked /\ graph' = Nodes!RestartSimulation(Nodes!UpdateLinks(g))
         ELSE UNCHANGED asked /\ graph' = Nodes!RestartSimulation(Nodes!UpdateLinks(g))
      /\ inbox' = Tail(inbox)
      /\ UNCHANGED <<elements, drawn, hovered, overlay>>
  BY DEF Nodes!ExpandAnswer
<1>3. m.found \in Seq(Entry) /\ m.to \in Question /\ m.to.node \in Place \cup {None} /\ Sound(graph, drawn)
  BY <1>1 DEF Answer, Question, NodesInv
<1>4. Sound(g, drawn)
  BY <1>3, AddNodesSound
<1> HIDE DEF g
<1>5. Sound(Nodes!RestartSimulation(Nodes!UpdateLinks(g)), drawn)
  <2>1. Sound(Nodes!UpdateLinks(g), drawn)
    BY <1>4, UpdateLinksSound DEF Sound
  <2> QED BY <2>1, RestartSound DEF Sound
<1>6. asked' \in Seq(Question)
  BY <1>2, <1>3, AskTyped DEF NodesInv, NodesTyped
<1>7. Sound(graph', drawn)
  BY <1>2, <1>4, <1>5
<1>8. graph' \in Drawing
  BY <1>7 DEF Sound
<1> QED BY <1>1, <1>2, <1>6, <1>7, <1>8 DEF NodesInv, NodesTyped, OverlayFollowsPointer, Nodes!OverlayFollowsPointer

LEMMA HoverAnswerKeeps == ASSUME NodesInv, Nodes!HoverAnswer PROVE NodesInv'
<1> DEFINE m == Head(inbox)
           n == m.to.node.id
<1>1. m \in Answer /\ Tail(inbox) \in Seq(Event \cup Answer)
  BY AnswerTyped DEF Nodes!HoverAnswer
<1>2. /\ graph' = IF m.to.node \in Nodes!NodesOf(graph) /\ m.found # <<>>
                  THEN [graph EXCEPT !.nodes[n] = m.found[1].parent, !.refreshed = graph.refreshed \cup {n}]
                  ELSE graph
      /\ overlay' = IF hovered = m.to.node THEN m.to.node ELSE overlay
      /\ inbox' = Tail(inbox)
      /\ UNCHANGED <<elements, asked, drawn, hovered>>
  BY DEF Nodes!HoverAnswer, Nodes!Reveal
<1>3. Sound(graph, drawn) /\ graph \in Drawing
  BY DEF NodesInv, NodesTyped
<1>4. Sound(graph', drawn)
  <2>1. CASE ~(m.to.node \in Nodes!NodesOf(graph) /\ m.found # <<>>)
    BY <1>2, <1>3, <2>1
  <2>2. CASE m.to.node \in Nodes!NodesOf(graph) /\ m.found # <<>>
    <3>1. n \in DOMAIN graph.nodes
      <4>1. PICK k \in DOMAIN graph.nodes : m.to.node = Nodes!Held(k)
        BY <2>2 DEF Nodes!NodesOf
      <4>2. m.to.node.id = k
        BY <4>1 DEF Nodes!Held
      <4> QED BY <4>2
    <3>2. m.found[1].parent \in Nodes!Parent
      <4>1. m.found \in Seq(Entry)
        BY <1>1 DEF Answer
      <4>2. m.found[1] \in Entry
        BY <4>1, <2>2, LenProperties, EmptySeq, ElementOfSeq
      <4> QED BY <4>2 DEF Entry
    <3>3. graph' = Nodes!AddNode(graph, n, m.found[1].parent)
      BY <1>2, <2>2, <3>1 DEF Nodes!AddNode
    <3>4. n \in Node
      BY <1>3, <3>1, DrawingNodes
    <3> HIDE DEF n, m
    <3> QED BY <1>3, <3>2, <3>3, <3>4, AddNodeSound
  <2> QED BY <2>1, <2>2
<1>5. graph' \in Drawing
  BY <1>4 DEF Sound
<1>6. OverlayFollowsPointer' /\ overlay' \in Place \cup {None}
  BY <1>2 DEF NodesInv, NodesTyped, OverlayFollowsPointer, Nodes!OverlayFollowsPointer
<1> QED BY <1>1, <1>2, <1>4, <1>5, <1>6 DEF NodesInv, NodesTyped

----------------------------------------------------------------------------
\* The user clicks, points and drags; the simulation ticks.
LEMMA ClickBackgroundKeeps == ASSUME NodesInv, Nodes!ClickBackground PROVE NodesInv'
<1>1. asked' \in Seq(Question) /\ UNCHANGED <<elements, inbox, graph, drawn, hovered, overlay>>
  BY AskTyped DEF Nodes!ClickBackground, Nodes!page
<1> QED BY <1>1 DEF NodesInv, NodesTyped, OverlayFollowsPointer, Nodes!OverlayFollowsPointer

LEMMA ClickNodeKeeps == ASSUME NodesInv, NEW node \in drawn, Nodes!ClickNode(node) PROVE NodesInv'
<1>1. node \in Place
  BY DEF NodesInv, NodesTyped
<1>2. asked' \in Seq(Question) /\ UNCHANGED <<elements, inbox, graph, drawn, hovered, overlay>>
  BY <1>1, AskTyped DEF Nodes!ClickNode, Nodes!page
<1> QED BY <1>2 DEF NodesInv, NodesTyped, OverlayFollowsPointer, Nodes!OverlayFollowsPointer

LEMMA HoverEnterKeeps == ASSUME NodesInv, NEW node \in drawn, Nodes!OnNodeHoverEnter(node) PROVE NodesInv'
<1>1. node \in Place
  BY DEF NodesInv, NodesTyped
<1>2. asked' \in Seq(Question)
  BY <1>1, AskTyped DEF Nodes!OnNodeHoverEnter
<1> QED BY <1>1, <1>2 DEF Nodes!OnNodeHoverEnter, NodesInv, NodesTyped, OverlayFollowsPointer, Nodes!OverlayFollowsPointer

LEMMA HoverLeaveKeeps == ASSUME NodesInv, Nodes!OnNodeHoverLeave PROVE NodesInv'
BY DEF Nodes!OnNodeHoverLeave, NodesInv, NodesTyped, OverlayFollowsPointer, Nodes!OverlayFollowsPointer

LEMMA DragKeeps == ASSUME NodesInv, NEW node, Nodes!Drag(node) PROVE NodesInv'
<1>1. graph' = Nodes!RestartSimulation(graph) /\ UNCHANGED <<elements, asked, inbox, drawn, hovered, overlay>>
  BY DEF Nodes!Drag
<1>2. Sound(graph', drawn)
  BY <1>1, RestartSound DEF NodesInv, Sound
<1>3. graph' \in Drawing
  BY <1>2 DEF Sound
<1> QED BY <1>1, <1>2, <1>3 DEF NodesInv, NodesTyped, OverlayFollowsPointer, Nodes!OverlayFollowsPointer

\* A tick draws what is in the graph, if that is not drawn already.
LEMMA TickKeeps == ASSUME NodesInv, Nodes!Tick PROVE NodesInv'
<1>1. PICK runs \in BOOLEAN : graph' = [graph EXCEPT !.needsRebuild = FALSE, !.running = runs]
  BY DEF Nodes!Tick
<1>2. drawn' = Nodes!Render(graph) /\ UNCHANGED <<elements, asked, inbox, hovered, overlay>>
  BY DEF Nodes!Tick
<1>3. graph \in Drawing /\ Linked(graph) /\ Shows(graph, drawn)
  BY DEF NodesInv, Sound
<1>4. /\ graph' \in Drawing /\ graph'.nodes = graph.nodes /\ graph'.links = graph.links
      /\ graph'.refreshed = graph.refreshed
  BY <1>1, <1>3, DrawingNodes DEF Drawing
<1>5. drawn' = Nodes!NodesOf(graph)
  BY <1>2, <1>3, DrawingNodes DEF Nodes!Render, Shows
<1>6. Nodes!NodesOf(graph') = Nodes!NodesOf(graph)
  BY <1>4 DEF Nodes!NodesOf
<1>7. Sound(graph', drawn')
  BY <1>3, <1>4, <1>5, <1>6 DEF Sound, Linked, Shows
<1>8. drawn' \in SUBSET Place
  BY <1>3, <1>5, DrawingNodes
<1> QED BY <1>2, <1>4, <1>7, <1>8 DEF NodesInv, NodesTyped, OverlayFollowsPointer, Nodes!OverlayFollowsPointer

LEMMA NodesStart == Nodes!Init => NodesInv
<1> SUFFICES ASSUME Nodes!Init PROVE NodesInv
  OBVIOUS
<1>1. /\ elements = <<>> /\ asked = <<>> /\ inbox = <<>> /\ drawn = {} /\ hovered = None /\ overlay = None
      /\ graph = [nodes |-> <<>>, links |-> {}, needsRebuild |-> FALSE, running |-> TRUE, refreshed |-> {}]
  BY DEF Nodes!Init
<1>2. DOMAIN <<>> = {} /\ <<>> \in [{} -> Nodes!Parent]
  OBVIOUS
<1>3. <<>> \in UNION {[D -> Nodes!Parent] : D \in SUBSET Node}
  BY <1>2
<1>4. graph \in Drawing
  BY <1>1, <1>3 DEF Drawing
<1>5. Nodes!NodesOf(graph) = {}
  BY <1>1, <1>2 DEF Nodes!NodesOf
<1>6. Sound(graph, drawn)
  BY <1>1, <1>2, <1>4, <1>5 DEF Sound, Linked, Shows
<1>7. <<>> \in Seq(Question) /\ <<>> \in Seq(Event \cup Answer)
  BY EmptySeq
<1>8. IsFiniteSet({})
  BY FS_EmptySet
<1> QED BY <1>1, <1>2, <1>3, <1>4, <1>6, <1>7, <1>8
        DEF NodesInv, NodesTyped, OverlayFollowsPointer, Nodes!OverlayFollowsPointer

LEMMA NodesStepKeeps == NodesInv /\ [Nodes!Next]_(Nodes!vars) => NodesInv'
<1> SUFFICES ASSUME NodesInv, [Nodes!Next]_(Nodes!vars) PROVE NodesInv'
  OBVIOUS
<1>1. CASE UNCHANGED Nodes!vars
  BY <1>1 DEF NodesInv, NodesTyped, Sound, Linked, Shows, Nodes!NodesOf, OverlayFollowsPointer,
              Nodes!OverlayFollowsPointer, Nodes!vars
<1>2. ASSUME NEW n \in Node, NEW p \in Nodes!Parent, Nodes!Appear(n, p) \/ Nodes!Alter(n, p) PROVE NodesInv'
  BY <1>2, AppearKeeps, AlterKeeps
<1>3. ASSUME NEW n \in Node, Nodes!Vanish(n) PROVE NodesInv'
  BY <1>3, VanishKeeps
<1>4. ASSUME NEW node \in drawn, Nodes!ClickNode(node) \/ Nodes!OnNodeHoverEnter(node) \/ Nodes!Drag(node)
      PROVE  NodesInv'
  BY <1>4, ClickNodeKeeps, HoverEnterKeeps, DragKeeps
<1>5. \/ UNCHANGED Nodes!vars
      \/ \E n \in Node : \E p \in Nodes!Parent : Nodes!Appear(n, p) \/ Nodes!Alter(n, p)
      \/ \E n \in Node : Nodes!Vanish(n)
      \/ Nodes!Read \/ Nodes!ElementEvent \/ Nodes!ElementAtAnswer \/ Nodes!ExpandAnswer
      \/ Nodes!HoverAnswer \/ Nodes!ClickBackground \/ Nodes!OnNodeHoverLeave \/ Nodes!Tick
      \/ \E node \in drawn : Nodes!ClickNode(node) \/ Nodes!OnNodeHoverEnter(node) \/ Nodes!Drag(node)
  BY DEF Nodes!Next
<1> QED BY <1>1, <1>2, <1>3, <1>4, <1>5, ReadKeeps, ElementEventKeeps, ElementAtKeeps, ExpandKeeps,
           HoverAnswerKeeps, ClickBackgroundKeeps, HoverLeaveKeeps, TickKeeps

LEMMA NodesInvariant == Nodes!Spec => []NodesInv
BY NodesStart, NodesStepKeeps, PTL DEF Nodes!Spec

\* However events and answers mix, no child waits for a parent that is in the graph already: only
\* an answer that gave a known node a new element leaves it without its link, until the next update.
THEOREM ChildrenAreLinked == Nodes!Spec => []LinkedUnlessRefreshed
<1>1. NodesInv => LinkedUnlessRefreshed
  BY DEF NodesInv, Sound, Linked, LinkedUnlessRefreshed, Nodes!LinkedUnlessRefreshed
<1> QED BY <1>1, NodesInvariant, PTL

\* The simulation never comes to rest over an old drawing.
THEOREM RestIsDrawn == Nodes!Spec => []RestShowsNodes
<1>1. NodesInv => RestShowsNodes
  BY DEF NodesInv, Sound, Shows, RestShowsNodes, Nodes!RestShowsNodes
<1> QED BY <1>1, NodesInvariant, PTL

\* A late answer shows its node's bounds only while the pointer is still there.
THEOREM OverlayIsHovered == Nodes!Spec => []OverlayFollowsPointer
<1>1. NodesInv => OverlayFollowsPointer
  BY DEF NodesInv
<1> QED BY <1>1, NodesInvariant, PTL
=============================================================================
