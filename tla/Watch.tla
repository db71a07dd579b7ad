------------------------------- MODULE Watch -------------------------------
(***************************************************************************)
(* The life of a watch: the handle that owns an element's notifications    *)
(* (crates/allio/src/core/{subscriptions,handlers}.rs,                     *)
(* platform/macos/{notifications,observer}.rs).                            *)
(*                                                                         *)
(* A watch is kept in the element's cache entry, taken out under the lock, *)
(* changed with calls of the operating system and no lock, and put back    *)
(* under the lock.  A task is any thread that does so: an RPC worker, a    *)
(* query, the main run loop handling a focus change.  Steps are cut where  *)
(* the lock is free.                                                       *)
(*                                                                         *)
(* The accessibility API keeps one registration per observer, element and  *)
(* notification and refuses a second one; all elements are of one process, *)
(* whose observer stays.  Every element here is one whose                  *)
(* role has a notification to watch ("value"); the others return early     *)
(* from watch().                                                           *)
(***************************************************************************)
CONSTANTS Handle, Task,
          ElementId,   \* element and context ids come from counters; here one
          Context,     \* that nothing mentions any more is the next new one
          None,
          OsMayFail,   \* TRUE: add_notification may fail for no visible reason
          Sweeps       \* TRUE: elements are also discovered by sweeps

Notif == {"destroyed", "value"}

WatchHandle == [handle : Handle, context : Context, notifs : SUBSET Notif]

\* What the cache keeps of an element.
Entry == [handle : Handle, watch : WatchHandle \cup {None}]

\* None stands for the absence of a thing; an element is no task.
ASSUME WatchAssumption ==
  /\ None \notin ElementId \cup Handle \cup Context \cup WatchHandle \cup Entry
  /\ Task \cap ElementId = {}

VARIABLES
  elements,    \* the cache: each element's handle and watch slot
  contexts,    \* OBSERVER_CONTEXTS: the element each context stands for
  registered,  \* the operating system: the context of each registration
  task,        \* the tasks inside ensure_watched, watch or unwatch
  callback,    \* the notification callback on the main run loop
  asked        \* the live elements whose last watch or unwatch was a watch
               \* that has returned

vars == <<elements, contexts, registered, task, callback, asked>>

Live == {e \in ElementId : elements[e] # None}
LiveWith(h) == {e \in Live : elements[e].handle = h}

Idle == [at |-> "idle", element |-> None, watch |-> None]
Quiet == [at |-> "idle", context |-> None, element |-> None]

Init ==
  /\ elements = [e \in ElementId |-> None]
  /\ contexts = [c \in Context |-> None]
  /\ registered = [h \in Handle |-> [n \in Notif |-> None]]
  /\ task = [t \in Task |-> Idle]
  /\ callback = Quiet
  /\ asked = {}

----------------------------------------------------------------------------
(***************************************************************************)
(* Drop of WatchHandleInner, for a set of watches: each takes back the     *)
(* registrations it believes to own, by element and notification, and      *)
(* frees its context.                                                      *)
(***************************************************************************)
\* Fault: a dropped watch forgets its registrations in the operating system
ForgottenBy(ws) == registered

UnregisteredBy(ws) ==
  [h \in Handle |-> [n \in Notif |->
     IF \E w \in ws : w.handle = h /\ n \in w.notifs THEN None ELSE registered[h][n]]]

\* Fault: a dropped watch leaves its context in the registry
KeptBy(ws) == contexts

FreedBy(ws) ==
  [c \in Context |-> IF \E w \in ws : w.context = c THEN None ELSE contexts[c]]

\* remove_element: the entries go, and with each the watch in its slot
WatchesIn(gone) == {elements[e].watch : e \in gone} \ {None}

Without(gone) == [e \in ElementId |-> IF e \in gone THEN None ELSE elements[e]]

\* upsert_from_handle of a handle that is cached: updated in place, watch and all
UpsertKnown(t, e) ==
  /\ task[t].at = "idle" /\ e \in Live
  /\ task' = [task EXCEPT ![t] = [Idle EXCEPT !.at = "ensure", !.element = e]]
  /\ UNCHANGED <<elements, contexts, registered, callback, asked>>

NewEntry(h) == [handle |-> h, watch |-> None]

NewElement(e) ==
  /\ e \notin Live
  /\ callback.element # e
  /\ \A c \in Context : contexts[c] # e
  /\ \A t \in Task : task[t].element # e

UpsertNew(t, e, h) ==
  /\ task[t].at = "idle" /\ NewElement(e) /\ LiveWith(h) = {}
  /\ elements' = [elements EXCEPT ![e] = NewEntry(h)]
  /\ task' = [task EXCEPT ![t] = [Idle EXCEPT !.at = "ensure", !.element = e]]
  /\ UNCHANGED <<contexts, registered, callback, asked>>

\* upsert_from_handle of an element under a new parent: destroyed with whatever
\* is below it, and recreated
Reparent(t, e, fresh) ==
  /\ task[t].at = "idle" /\ e \in Live /\ NewElement(fresh)
  /\ \E below \in SUBSET (Live \ {e}) :
       LET gone == below \cup {e}
       IN  /\ elements' = [Without(gone) EXCEPT ![fresh] = NewEntry(elements[e].handle)]
           /\ registered' = UnregisteredBy(WatchesIn(gone))
           /\ contexts' = FreedBy(WatchesIn(gone))
           /\ asked' = asked \ gone
  /\ task' = [task EXCEPT ![t] = [Idle EXCEPT !.at = "ensure", !.element = fresh]]
  /\ UNCHANGED callback

\* A sweep caches what it discovers with upsert_element alone
SweepDiscovers(e, h) ==
  /\ Sweeps
  /\ NewElement(e) /\ LiveWith(h) = {}
  /\ elements' = [elements EXCEPT ![e] = NewEntry(h)]
  /\ UNCHANGED <<contexts, registered, task, callback, asked>>

----------------------------------------------------------------------------
\* ensure_watched: is there an element that needs a watch?
EnsureReads(t) ==
  LET e == task[t].element
  IN  /\ task[t].at = "ensure"
      /\ task' = [task EXCEPT ![t] = IF e \in Live /\ elements[e].watch = None
                                     THEN [@ EXCEPT !.at = "create", !.watch = elements[e].handle]
                                     ELSE Idle]
      /\ UNCHANGED <<elements, contexts, registered, callback, asked>>

NewContext(c) ==
  /\ contexts[c] = None
  /\ callback.context # c
  /\ \A h \in Handle, n \in Notif : registered[h][n] # c

\* Fault: a refused registration still makes a watch
RegistersAnyway(h, n) == TRUE

\* add_notification answers Success
Registers(h, n) == registered[h][n] = None

\* create_watch: no watch without its registration
EnsureCreates(t) ==
  LET h == task[t].watch
  IN  /\ task[t].at = "create"
      /\ \E c \in Context :
           /\ NewContext(c)
           /\ Registers(h, "destroyed")
           /\ contexts' = [contexts EXCEPT ![c] = task[t].element]
           /\ registered' = [registered EXCEPT ![h]["destroyed"] = c]
           /\ task' = [task EXCEPT ![t].at = "put",
                         ![t].watch = [handle |-> h, context |-> c, notifs |-> {"destroyed"}]]
      /\ UNCHANGED <<elements, callback, asked>>

\* ... which fails when the notification is registered already, and for other
\* reasons: the process is not cached, or the element is gone
EnsureFails(t) ==
  /\ task[t].at = "create"
  /\ OsMayFail \/ ~Registers(task[t].watch, "destroyed")
  /\ task' = [task EXCEPT ![t] = Idle]
  /\ UNCHANGED <<elements, contexts, registered, callback, asked>>

----------------------------------------------------------------------------
\* Fault: the watch is borrowed without being taken out of the cache
Borrowed(e) == elements

TakenFrom(e) == [elements EXCEPT ![e].watch = None]

\* watch(), step 1; without a watch to add to it answers Ok
WatchTakes(t, e) ==
  /\ task[t].at = "idle" /\ e \in Live
  /\ elements' = TakenFrom(e)
  /\ IF elements[e].watch = None
     THEN asked' = asked \cup {e} /\ UNCHANGED task
     ELSE /\ task' = [task EXCEPT ![t] = [at |-> "add", element |-> e, watch |-> elements[e].watch]]
          /\ UNCHANGED asked
  /\ UNCHANGED <<contexts, registered, callback>>

\* watch(), step 2: add
WatchAdds(t) ==
  LET w == task[t].watch
  IN  /\ task[t].at = "add"
      /\ \/ /\ "value" \notin w.notifs /\ Registers(w.handle, "value")
            /\ registered' = [registered EXCEPT ![w.handle]["value"] = w.context]
            /\ task' = [task EXCEPT ![t].at = "putwatched", ![t].watch.notifs = @ \cup {"value"}]
         \/ /\ OsMayFail \/ "value" \in w.notifs \/ ~Registers(w.handle, "value")
            /\ task' = [task EXCEPT ![t].at = "putwatched"]
            /\ UNCHANGED registered
      /\ UNCHANGED <<elements, contexts, callback, asked>>

\* unwatch(), step 1
UnwatchTakes(t, e) ==
  /\ task[t].at = "idle" /\ e \in Live
  /\ elements' = TakenFrom(e)
  /\ asked' = asked \ {e}
  /\ task' = IF elements[e].watch = None THEN task
             ELSE [task EXCEPT ![t] = [at |-> "remove", element |-> e, watch |-> elements[e].watch]]
  /\ UNCHANGED <<contexts, registered, callback>>

\* unwatch(), step 2: remove
UnwatchRemoves(t) ==
  LET w == task[t].watch
  IN  /\ task[t].at = "remove"
      /\ registered' = UnregisteredBy({[w EXCEPT !.notifs = @ \cap {"value"}]})
      /\ task' = [task EXCEPT ![t].at = "put", ![t].watch.notifs = @ \ {"value"}]
      /\ UNCHANGED <<elements, contexts, callback, asked>>

\* Step 3: set_element_watch; the watch is dropped if its element is gone, and
\* replaces, hence drops, a watch that took its place
PutBack(t) ==
  LET e == task[t].element
      w == task[t].watch
      dropped == IF e \in Live THEN {elements[e].watch} \ {None} ELSE {w}
  IN  /\ task[t].at \in {"put", "putwatched"}
      /\ elements' = IF e \in Live THEN [elements EXCEPT ![e].watch = w] ELSE elements
      /\ registered' = UnregisteredBy(dropped)
      /\ contexts' = FreedBy(dropped)
      /\ asked' = IF task[t].at = "putwatched" /\ e \in Live THEN asked \cup {e} ELSE asked
      /\ task' = [task EXCEPT ![t] = Idle]
      /\ UNCHANGED callback

----------------------------------------------------------------------------
\* The operating system reports an element's destruction
Notified ==
  /\ callback.at = "idle"
  /\ \E h \in Handle :
       /\ registered[h]["destroyed"] # None
       /\ callback' = [Quiet EXCEPT !.at = "lookup", !.context = registered[h]["destroyed"]]
  /\ UNCHANGED <<elements, contexts, registered, task, asked>>

(***************************************************************************)
(* lookup_context.  If the watch was dropped after the callback started,   *)
(* the pointer is to freed memory, which is unchanged or holds another     *)
(* context's id by now.                                                    *)
(***************************************************************************)
LooksUp ==
  LET c == callback.context
      inUse == {contexts[d] : d \in Context} \ {None}
  IN  /\ callback.at = "lookup"
      /\ \E e \in IF contexts[c] # None THEN {contexts[c]} ELSE inUse \cup {None} :
           callback' = IF e = None THEN Quiet ELSE [Quiet EXCEPT !.at = "handle", !.element = e]
      /\ UNCHANGED <<elements, contexts, registered, task, asked>>

\* handle_element_destroyed: remove_element, with whatever is below it
Handles ==
  LET e == callback.element
  IN  /\ callback.at = "handle"
      /\ \E below \in SUBSET (Live \ {e}) :
           LET gone == IF e \in Live THEN below \cup {e} ELSE {}
           IN  /\ elements' = Without(gone)
               /\ registered' = UnregisteredBy(WatchesIn(gone))
               /\ contexts' = FreedBy(WatchesIn(gone))
               /\ asked' = asked \ gone
      /\ callback' = Quiet
      /\ UNCHANGED task

TaskStep(t) ==
  \/ \E e \in ElementId : UpsertKnown(t, e) \/ WatchTakes(t, e) \/ UnwatchTakes(t, e)
  \/ \E e \in ElementId, h \in Handle : UpsertNew(t, e, h)
  \/ \E e, fresh \in ElementId : Reparent(t, e, fresh)
  \/ EnsureReads(t) \/ EnsureCreates(t) \/ EnsureFails(t)
  \/ WatchAdds(t) \/ UnwatchRemoves(t) \/ PutBack(t)

Next ==
  \/ \E t \in Task : TaskStep(t)
  \/ \E e \in ElementId, h \in Handle : SweepDiscovers(e, h)
  \/ Notified \/ LooksUp \/ Handles

Spec == Init /\ [][Next]_vars

----------------------------------------------------------------------------
\* Where a watch can be: in a slot of the cache or in a task's hands.
Holding(t) == task[t].at \in {"add", "remove", "put", "putwatched"}

WatchOf(x) ==
  IF x \in Task THEN IF Holding(x) THEN task[x].watch ELSE None
  ELSE IF elements[x] # None THEN elements[x].watch ELSE None

Watches == {WatchOf(x) : x \in ElementId \cup Task} \ {None}

(***************************************************************************)
(* A handle has at most one watch, in the cache or in flight, whichever    *)
(* tasks take, create, put back or drop watches of it, and though the      *)
(* element may die and come back under another id meanwhile.  So putting a *)
(* watch back never replaces another one (subscriptions.rs:46-47).         *)
(***************************************************************************)
OneWatchPerHandle ==
  \A x, y \in ElementId \cup Task :
    x # y /\ WatchOf(x) # None /\ WatchOf(y) # None => WatchOf(x).handle # WatchOf(y).handle

(***************************************************************************)
(* The operating system's registrations are exactly those the watches      *)
(* believe to own: none leaks when a watch is dropped and none is taken    *)
(* away by the drop of another (notifications.rs:28, 82-96).               *)
(***************************************************************************)
RegistrationsOwned ==
  \A h \in Handle, n \in Notif, c \in Context :
    registered[h][n] = c <=> \E w \in Watches : w.handle = h /\ w.context = c /\ n \in w.notifs

(***************************************************************************)
(* Contexts live exactly as long as their watches, and the watch in an     *)
(* element's slot reports to that element, under that element's handle.    *)
(***************************************************************************)
ContextsOwned ==
  /\ {c \in Context : contexts[c] # None} = {w.context : w \in Watches}
  /\ \A e \in Live : elements[e].watch # None =>
       /\ contexts[elements[e].watch.context] = e
       /\ elements[e].watch.handle = elements[e].handle

Quiescent == callback = Quiet /\ \A t \in Task : task[t] = Idle

(***************************************************************************)
(* "This is ALWAYS subscribed for all registered elements"                 *)
(* (a11y/notification.rs:21): once every call has returned, each live      *)
(* element has its destruction registered.                                 *)
(***************************************************************************)
AlwaysSubscribed ==
  Quiescent => \A e \in Live : registered[elements[e].handle]["destroyed"] # None

(***************************************************************************)
(* "Watch an element for change notifications" (subscriptions.rs:12): once *)
(* every call has returned, a live element that was watched, and not       *)
(* unwatched since, has its value notification registered.                 *)
(***************************************************************************)
WatchTakesEffect ==
  Quiescent => \A e \in asked : registered[elements[e].handle]["value"] # None
=============================================================================
