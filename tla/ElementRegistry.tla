-------------------------- MODULE ElementRegistry --------------------------
(***************************************************************************)
(* The element half of the Registry: the cache of accessibility elements,  *)
(* its handle index, its orphan queue and the events it emits              *)
(* (crates/allio/src/core/registry/{elements,mod}.rs).                     *)
(*                                                                         *)
(* Every method of the code takes &mut self under one write lock, so a     *)
(* method is a function from registry to registry and an action is one     *)
(* call of it.  The arguments are what the callers in queries.rs,          *)
(* handlers.rs and observation.rs can hand over, stale ids included.       *)
(***************************************************************************)
EXTENDS ElementTree

CONSTANTS Handle,        \* AXUIElement handles, compared with CFEqual
          RootHandle,    \* the handles whose parent is the application
          WindowId,
          Value,         \* the values of an attribute
          StableRoots    \* TRUE: reading the role of a parent never fails

(***************************************************************************)
(* Attributes are split the way Registry::refresh_element looks at them:   *)
(* "shown" stands for value, label, bounds, focused, selected, expanded;   *)
(* "rest" for role, description, disabled, actions and the others.         *)
(***************************************************************************)
Attributes == [shown : Value, rest : Value]

CachedElement == [handle : Handle, parent_handle : Handle \cup {None},
                  is_root : BOOLEAN, window_id : WindowId, attrs : Attributes]

Element == [parent_id : ElementId \cup {None}, children : SUBSET ElementId,
            is_root : BOOLEAN, window_id : WindowId, attrs : Attributes]

ASSUME RegistryAssumption ==
  /\ None \notin Handle \cup CachedElement \cup Element
  /\ RootHandle \subseteq Handle
  /\ StableRoots \in BOOLEAN

(***************************************************************************)
(* reg.heard is what a subscriber holds that has applied every event       *)
(* emitted so far, in order: it is updated at each emit and nowhere else.  *)
(***************************************************************************)
Registry == [elements : [ElementId -> CachedElement \cup {None}],
             tree : Tree,
             handle_to_id : [Handle -> ElementId \cup {None}],
             waiting : [Handle -> SUBSET ElementId],
             heard : [ElementId -> Element \cup {None}]]

EmptyRegistry == [elements |-> [e \in ElementId |-> None],
                  tree |-> EmptyTree,
                  handle_to_id |-> [h \in Handle |-> None],
                  waiting |-> [h \in Handle |-> {}],
                  heard |-> [e \in ElementId |-> None]]

Live(r) == {id \in ElementId : r.elements[id] # None}

\* build_element
BuildElement(r, id) ==
  LET e == r.elements[id]
  IN  [parent_id |-> IF e.is_root THEN None ELSE r.tree.parent_of[id],
       children |-> r.tree.children_of[id],
       is_root |-> e.is_root, window_id |-> e.window_id, attrs |-> e.attrs]

\* emit_element_changed and emit_element_added: nothing for a dead id
EmitElement(r, ids) ==
  [r EXCEPT !.heard = [id \in ElementId |->
     IF id \in ids \cap Live(r) THEN BuildElement(r, id) ELSE r.heard[id]]]

\* The PartialEq of CachedElement: neither handle is compared
SameElement(e, f) ==
  e.is_root = f.is_root /\ e.window_id = f.window_id /\ e.attrs = f.attrs

UpdateElement(r, id, entry) ==
  LET old == r.elements[id]
      updated == [r EXCEPT !.elements[id] = [entry EXCEPT !.handle = old.handle]]
  IN  IF SameElement(old, entry) THEN updated ELSE EmitElement(updated, {id})

(***************************************************************************)
(* remove_element: the subtree leaves the tree, then remove_element_internal*)
(* runs for each of its elements that is cached.                           *)
(***************************************************************************)
RemoveElement(r, root) ==
  LET gone == Subtree(r.tree, root)
      dead == gone \cap Live(r)
      freed == {r.elements[id].handle : id \in dead}
  IN  [elements |-> [id \in ElementId |-> IF id \in gone THEN None ELSE r.elements[id]],
       tree |-> RemoveSubtree(r.tree, root),
       handle_to_id |-> [h \in Handle |->
                           IF h \in freed THEN None ELSE r.handle_to_id[h]],
       waiting |-> [h \in Handle |->
                      IF h \in freed THEN {}
                      ELSE r.waiting[h] \ {id \in dead : r.elements[id].parent_handle = h}],
       heard |-> [id \in ElementId |-> IF id \in dead THEN None ELSE r.heard[id]]]

(***************************************************************************)
(* upsert_element, second half: index the new element, link it under its   *)
(* parent or queue it for the parent's arrival, then adopt the elements    *)
(* queued for this one.                                                    *)
(***************************************************************************)
IndexElement(r, entry, id) ==
  [r EXCEPT !.handle_to_id[entry.handle] = id, !.elements[id] = entry]

LinkOrQueue(r, entry, id) ==
  LET ph == entry.parent_handle
  IN  IF entry.is_root \/ ph = None THEN r
      ELSE IF r.handle_to_id[ph] # None
           THEN LET parent == r.handle_to_id[ph]
                IN  EmitElement([r EXCEPT !.tree = TreeAddChild(r.tree, parent, id)], {parent})
           ELSE [r EXCEPT !.waiting[ph] = @ \cup {id}]

\* Fault: the queue is read with get() instead of remove()
AdoptOrphansKeepingQueue(r, entry, id) ==
  EmitElement([r EXCEPT !.tree = TreeAddChildren(r.tree, id, r.waiting[entry.handle])],
              r.waiting[entry.handle])

AdoptOrphans(r, entry, id) ==
  LET orphans == r.waiting[entry.handle]
  IN  EmitElement([r EXCEPT !.tree = TreeAddChildren(r.tree, id, orphans),
                            !.waiting[entry.handle] = {}], orphans)

\* Fault: the element is announced before it adopts its orphans
InsertElementEarlyEmit(r, entry, id) ==
  AdoptOrphans(EmitElement(LinkOrQueue(IndexElement(r, entry, id), entry, id), {id}), entry, id)

InsertElement(r, entry, id) ==
  EmitElement(AdoptOrphans(LinkOrQueue(IndexElement(r, entry, id), entry, id), entry, id), {id})

\* upsert_element, first half: is this a known handle under another parent?
ParentChanged(r, entry) ==
  LET cached == r.elements[r.handle_to_id[entry.handle]]
  IN  /\ ~entry.is_root
      /\ cached.parent_handle # None
      /\ cached.parent_handle # entry.parent_handle

Known(r, entry) == r.handle_to_id[entry.handle] # None

UpdatesInPlace(r, entry) == Known(r, entry) /\ ~ParentChanged(r, entry)

\* Fault: a reparented element is recreated without destroying the old one
UpsertElementKeepingOld(r, entry, fresh) ==
  IF UpdatesInPlace(r, entry)
  THEN UpdateElement(r, r.handle_to_id[entry.handle], entry)
  ELSE InsertElement(r, entry, fresh)

UpsertElement(r, entry, fresh) ==
  IF UpdatesInPlace(r, entry)
  THEN UpdateElement(r, r.handle_to_id[entry.handle], entry)
  ELSE InsertElement(IF Known(r, entry)
                     THEN RemoveElement(r, r.handle_to_id[entry.handle]) ELSE r,
                     entry, fresh)

\* Fault: the caller of a recreation is given the id that was destroyed
UpsertedIdStale(r, entry, fresh) ==
  IF Known(r, entry) THEN r.handle_to_id[entry.handle] ELSE fresh

\* The id upsert_element returns
UpsertedId(r, entry, fresh) ==
  IF UpdatesInPlace(r, entry) THEN r.handle_to_id[entry.handle] ELSE fresh

(***************************************************************************)
(* set_children.  "reordered": the list holds the known children in        *)
(* another order, which the code's comparison of two Vecs sees.            *)
(***************************************************************************)
SetChildren(r, id, ids, reordered) ==
  LET valid == ids \cap Live(r)
      claimed(h) == {c \in valid : r.elements[c].parent_handle = h}
  IN  IF \/ r.elements[id] = None
         \/ valid = r.tree.children_of[id] /\ ~reordered
      THEN r
      ELSE EmitElement([r EXCEPT !.waiting = [h \in Handle |-> r.waiting[h] \ claimed(h)],
                                 !.tree = TreeSetChildren(r.tree, id, valid)], {id})

\* Registry::refresh_element: every attribute is written, six are compared
RefreshElement(r, id, attrs) ==
  LET refreshed == [r EXCEPT !.elements[id].attrs = attrs]
  IN  IF r.elements[id] = None THEN r
      ELSE IF attrs.shown = r.elements[id].attrs.shown THEN refreshed
           ELSE EmitElement(refreshed, {id})

\* The write of Allio::refresh_element: the entry is refreshed, no event
RefreshSilently(r, id, attrs) ==
  IF r.elements[id] = None THEN r ELSE [r EXCEPT !.elements[id].attrs = attrs]

----------------------------------------------------------------------------
VARIABLES reg,     \* the Registry
          used     \* the ids ElementId::new has handed out to the cache

vars == <<reg, used>>

(***************************************************************************)
(* What build_entry_from_handle can produce: a root stores no parent.      *)
(* When the parent's role cannot be read (fetch_attributes then returns    *)
(* its default) a root is taken for a child of the application element.    *)
(***************************************************************************)
BuildEntry ==
  {e \in CachedElement :
     /\ e.is_root => e.parent_handle = None
     /\ e.parent_handle # e.handle
     /\ StableRoots => (e.is_root <=> e.handle \in RootHandle)}

Init == reg = EmptyRegistry /\ used = {}

\* The last step of upsert_from_handle and of a sweep's discovery
Upsert ==
  \E entry \in BuildEntry, fresh \in ElementId \ used :
     /\ reg' = UpsertElement(reg, entry, fresh)
     /\ used' = used \cup {UpsertedId(reg, entry, fresh)}

\* A destruction notice or a sweep; its id may be long dead
Remove == \E id \in used : reg' = RemoveElement(reg, id) /\ UNCHANGED used

\* The last step of fetch_children and of a sweep
ReplaceChildren ==
  \E id \in used : \E ids \in SUBSET (used \ {id}), reordered \in BOOLEAN :
     /\ reordered => \E a, b \in ids : a # b
     /\ reg' = SetChildren(reg, id, ids, reordered)
     /\ UNCHANGED used

\* A sweep found the attributes of an element
Refresh ==
  \E id \in used, attrs \in Attributes :
     reg' = RefreshElement(reg, id, attrs) /\ UNCHANGED used

\* A change notice, or get() with a recency
SilentRefresh ==
  \E id \in used, attrs \in Attributes :
     reg' = RefreshSilently(reg, id, attrs) /\ UNCHANGED used

Next == Upsert \/ Remove \/ ReplaceChildren \/ Refresh \/ SilentRefresh

Spec == Init /\ [][Next]_vars

----------------------------------------------------------------------------
\* Every part of the registry has its type, and no cached id is unissued.
TypeOK == reg \in Registry /\ used \subseteq ElementId /\ Live(reg) \subseteq used

(***************************************************************************)
(* handle_to_id and elements are inverse to each other: no handle leads to *)
(* a dead or a foreign element, no live element is unreachable by handle   *)
(* ("Indexes are always updated", registry/mod.rs:6).  A reparented        *)
(* element is destroyed and recreated under the same handle, which is      *)
(* where this could break.                                                 *)
(***************************************************************************)
HandleIndex(r) ==
  /\ \A h \in Handle : r.handle_to_id[h] # None =>
        /\ r.elements[r.handle_to_id[h]] # None
        /\ r.elements[r.handle_to_id[h]].handle = h
  /\ \A id \in Live(r) : r.handle_to_id[r.elements[id].handle] = id

IndexesInverse == HandleIndex(reg)

(***************************************************************************)
(* The half of "Bidirectional consistency" that holds: whoever has a       *)
(* parent is listed by that parent, so a cascade from an ancestor always   *)
(* reaches it (tree.rs:10-11, 110-132).                                    *)
(***************************************************************************)
LinkedChildIsListed == ParentListsChild(reg.tree)

(***************************************************************************)
(* Links join live elements only, and every orphan in the queue is live,   *)
(* unlinked, and queued under the parent handle it still claims, a handle  *)
(* that is not cached.  Hence add_child never meets its "this is a bug"    *)
(* branch (tree.rs:94-101) when a parent arrives.                          *)
(***************************************************************************)
LinksJoinLive(r) ==
  \A c \in ElementId : r.tree.parent_of[c] # None => {c, r.tree.parent_of[c]} \subseteq Live(r)

QueueIsExact(r) ==
  \A h \in Handle : \A id \in r.waiting[h] :
     /\ id \in Live(r)
     /\ r.elements[id].parent_handle = h
     /\ r.tree.parent_of[id] = None
     /\ r.handle_to_id[h] = None

OrphansLinkable == LinksJoinLive(reg) /\ QueueIsExact(reg)

(***************************************************************************)
(* A subscriber knows exactly the live elements, and never misses a child  *)
(* of one: what it can have wrong are children that are gone.              *)
(***************************************************************************)
HeardExactly(r) ==
  /\ \A id \in ElementId : r.heard[id] # None <=> id \in Live(r)
  /\ \A id \in Live(r) : r.tree.children_of[id] \subseteq r.heard[id].children

SubscriberKnowsElements == HeardExactly(reg)

(***************************************************************************)
(* An id names one handle for as long as it lives and is never given out   *)
(* again; and no call moves a live element from one parent to another in   *)
(* one step: a reparented element comes back under a new id                *)
(* (elements.rs:23-25, tree.rs:9-13).                                      *)
(***************************************************************************)
KeepsIdentity ==
  \A id \in ElementId :
     /\ id \in Live(reg) /\ id \in Live(reg)' =>
          /\ reg'.elements[id].handle = reg.elements[id].handle
          /\ reg.tree.parent_of[id] # None =>
               reg'.tree.parent_of[id] \in {None, reg.tree.parent_of[id]}
     /\ id \in used /\ id \notin Live(reg) => id \notin Live(reg)'

IdentityIsStable == [][KeepsIdentity]_vars

(***************************************************************************)
(* "Events are always emitted" (registry/mod.rs:7): what a subscriber      *)
(* holds of a live element is what build_element would report.             *)
(***************************************************************************)
HeardElements == \A id \in Live(reg) : reg.heard[id] = BuildElement(reg, id)
============================================================================
