----------------------------- MODULE WindowSync -----------------------------
(***************************************************************************)
(* The poll thread that keeps the window cache in step with the screen     *)
(* (crates/allio/src/polling.rs, core/sync.rs), the window and process     *)
(* half of the Registry (core/registry/{windows,processes}.rs), and the    *)
(* clients that ask for a window's root element meanwhile                  *)
(* (core/queries.rs, window_root).                                         *)
(*                                                                         *)
(* One poll is five steps, cut where the code holds no lock.  Titles,      *)
(* bounds and the mouse are abstracted: bounds decide only whether a       *)
(* window is shown (place) and which accessibility handle it matches.      *)
(* Elements are those window_root caches: roots, none below another.       *)
(***************************************************************************)
EXTENDS Integers, Sequences, FiniteSets

CONSTANTS WindowId, ProcessId, Handle, ElementId, Client,
          None,
          Owner,       \* the process of each window
          Excluded,    \* the process whose windows are not tracked, or None
          Matches,     \* the handles that match a window's bounds
          Screens,     \* what the window server may show, front to back
          Unobservable \* the processes whose observer may fail to be created

Place == {"shown", "fullscreen", "offscreen"}

Screen == Seq([id : WindowId, place : Place, focused : BOOLEAN, ax : BOOLEAN])

ASSUME SyncAssumption ==
  /\ IsFiniteSet(WindowId)
  /\ Owner \in [WindowId -> ProcessId]
  /\ Matches \in [WindowId -> SUBSET Handle]
  /\ Unobservable \subseteq ProcessId
  /\ Screens \subseteq Screen
  /\ \A s \in Screens : \A i, j \in DOMAIN s : s[i].id = s[j].id => i = j

VARIABLES
  screen,      \* the window server's list
  windows,     \* Registry.windows
  z_order,     \* Registry.z_order
  by_handle,   \* Registry.window_handle_to_id
  processes,   \* the keys of Registry.processes
  focused,     \* Registry.focused_window
  elements,    \* Registry.elements
  issued,      \* the element ids handed out
  heard,       \* the windows a subscriber knows that applied every event
  refused,     \* the processes whose latest ensure_process failed
  poll,        \* the poll thread: where it is and what it carries
  client       \* the clients inside window_root

registry == <<windows, z_order, by_handle, processes, focused, elements, issued>>
vars == <<screen, registry, heard, refused, poll, client>>

MaxZ == Cardinality(WindowId) - 1
Info == [z_index : 0..MaxZ, focused : BOOLEAN]
CachedWindow == [info : Info, handle : Handle \cup {None}, root : ElementId \cup {None}]
CachedElement == [handle : Handle, window_id : WindowId]

ASSUME NoneAssumption ==
  \A S \in {WindowId, Handle, ElementId, Info, CachedWindow, CachedElement} : None \notin S

Cached == {w \in WindowId : windows[w] # None}

----------------------------------------------------------------------------
(***************************************************************************)
(* filter_windows.  z_index numbers the unfiltered list from the front.    *)
(***************************************************************************)
\* Fault: the excluded process is not left out
TrackedAll(s) == {i \in DOMAIN s : s[i].place = "shown"}

Tracked(s) == {i \in DOMAIN s : Owner[s[i].id] # Excluded /\ s[i].place = "shown"}

Polled(s) ==
  [w \in WindowId |->
     IF \E i \in Tracked(s) : s[i].id = w
     THEN LET i == CHOOSE j \in Tracked(s) : s[j].id = w
          IN  [z_index |-> i - 1, focused |-> s[i].focused]
     ELSE None]

\* compute_offset misses the overlay, or has_offscreen_windows
SkipRemoval(s) ==
  \/ Excluded # None /\ \A i \in DOMAIN s : Owner[s[i].id] # Excluded
  \/ \E i \in DOMAIN s : s[i].place = "offscreen"

\* Fault: the focus is looked up before filtering
FocusUnfiltered(s) ==
  IF \E i \in DOMAIN s : s[i].focused
  THEN LET i == CHOOSE j \in DOMAIN s : s[j].focused IN s[i].id ELSE None

Focus(s) ==
  LET lit == {i \in Tracked(s) : s[i].focused}
  IN  IF lit = {} THEN None
      ELSE LET i == CHOOSE j \in lit : \A k \in lit : j <= k IN s[i].id

----------------------------------------------------------------------------
(***************************************************************************)
(* update_z_order: a stable sort of a HashMap's values by z_index.  The    *)
(* map's iteration order decides between equals, so every order that is    *)
(* sorted by z_index is possible.                                          *)
(***************************************************************************)
FrontToBack(ws) ==
  LET D == {w \in WindowId : ws[w] # None}
  IN  {o \in [1..Cardinality(D) -> D] :
         \A i, j \in 1..Cardinality(D) :
           i < j => o[i] # o[j] /\ ws[o[i]].info.z_index <= ws[o[j]].info.z_index}

\* Fault: a window that only moved is not sorted in
NeedsSortingOnAdd(old, new) ==
  {w \in WindowId : old[w] # None} # {w \in WindowId : new[w] # None}

NeedsSorting(old, new) ==
  \E w \in WindowId :
    \/ (old[w] = None) # (new[w] = None)
    \/ /\ old[w] # None
       /\ new[w] # None
       /\ old[w].info.z_index # new[w].info.z_index

\* remove_window for every window of gone
WithoutWindows(gone) == [w \in WindowId |-> IF w \in gone THEN None ELSE windows[w]]

\* Fault: the index keeps the handle of a removed window
IndexKept(gone) == by_handle

IndexWithout(gone) ==
  LET freed == {windows[w].handle : w \in gone}
  IN  [h \in Handle |-> IF h \in freed THEN None ELSE by_handle[h]]

ElementsWithout(gone) ==
  [e \in ElementId |->
     IF elements[e] # None /\ elements[e].window_id \in gone THEN None ELSE elements[e]]

ProcessesWithout(gone) ==
  {p \in processes : \/ \A w \in gone : Owner[w] # p
                     \/ \E w \in Cached \ gone : Owner[w] = p}

\* Fault: a window that only changed its focus is taken for unchanged
WithPolledMoves(ws, polled, handles) ==
  [w \in WindowId |->
     IF polled[w] = None THEN ws[w]
     ELSE IF ws[w] = None
          THEN [info |-> polled[w], handle |-> handles[w], root |-> None]
          ELSE [ws[w] EXCEPT !.info = IF @.z_index = polled[w].z_index THEN @ ELSE polled[w],
                             !.handle = IF handles[w] # None THEN handles[w] ELSE @]]

\* upsert_window, or update_window and set_window_handle, for every polled window
WithPolled(ws, polled, handles) ==
  [w \in WindowId |->
     IF polled[w] = None THEN ws[w]
     ELSE IF ws[w] = None
          THEN [info |-> polled[w], handle |-> handles[w], root |-> None]
          ELSE [ws[w] EXCEPT !.info = polled[w],
                             !.handle = IF handles[w] # None THEN handles[w] ELSE @]]

\* The list is worked off front to back: of two windows with one handle the last wins
IndexWith(index, polled, handles) ==
  [h \in Handle |->
     LET takers == {w \in WindowId : handles[w] = h}
     IN  IF takers = {} THEN index[h]
         ELSE CHOOSE w \in takers : \A v \in takers : polled[v].z_index <= polled[w].z_index]

\* Fault: only processes unknown before the poll are looked at
FreshUnknown(polled, ws) ==
  {Owner[w] : w \in {v \in WindowId : polled[v] # None /\ ws[v] = None}} \ processes

Fresh(polled, ws) ==
  {Owner[w] : w \in {v \in WindowId : polled[v] # None /\ ws[v] = None}}

\* Fault: a window that only changed its focus is not announced
AnnounceMoves(new) ==
  [w \in WindowId |->
     IF new[w] = None THEN None
     ELSE IF heard[w] = None \/ heard[w].z_index # new[w].info.z_index THEN new[w].info
     ELSE heard[w]]

\* WindowRemoved, WindowAdded, and WindowChanged for an info that differs
Announce(new) ==
  [w \in WindowId |->
     IF new[w] = None THEN None
     ELSE IF windows[w] = None \/ windows[w].info # new[w].info THEN new[w].info
     ELSE heard[w]]

----------------------------------------------------------------------------
NoInfo == [w \in WindowId |-> None]
NoHandles == [w \in WindowId |-> None]
Resting == [at |-> "idle", polled |-> NoInfo, skip |-> FALSE, focus |-> None,
            handles |-> NoHandles, fresh |-> {}]
Away == [at |-> "idle", window |-> None, handle |-> None, element |-> None]

Init ==
  /\ screen \in Screens
  /\ windows = [w \in WindowId |-> None]
  /\ z_order = <<>>
  /\ by_handle = [h \in Handle |-> None]
  /\ processes = {}
  /\ focused = None
  /\ elements = [e \in ElementId |-> None]
  /\ issued = {}
  /\ heard = NoInfo
  /\ refused = {}
  /\ poll = Resting
  /\ client = [c \in Client |-> Away]

\* Windows open, close, move and hide whenever they like
ScreenChanges ==
  /\ screen' \in Screens \ {screen}
  /\ UNCHANGED <<registry, heard, refused, poll, client>>

\* poll_windows
FetchWindows ==
  /\ poll.at = "idle"
  /\ poll' = [Resting EXCEPT !.at = "handles", !.polled = Polled(screen),
                             !.skip = SkipRemoval(screen), !.focus = Focus(screen)]
  /\ UNCHANGED <<screen, registry, heard, refused, client>>

\* Fault: a window is asked for its handle only when it is new
NeedingHandleOnce(polled) == {w \in WindowId : polled[w] # None /\ windows[w] = None}

NeedingHandle(polled) ==
  {w \in WindowId : polled[w] # None /\ (windows[w] = None \/ windows[w].handle = None)}

\* sync_windows up to its write: the window may be gone from the screen by now
FetchHandles ==
  /\ poll.at = "handles"
  /\ \E handles \in [WindowId -> Handle \cup {None}] :
       /\ \A w \in WindowId :
            IF /\ w \in NeedingHandle(poll.polled)
               /\ \E i \in DOMAIN screen : screen[i].id = w /\ screen[i].ax
            THEN handles[w] \in Matches[w] ELSE handles[w] = None
       /\ poll' = [poll EXCEPT !.at = "write", !.handles = handles]
  /\ UNCHANGED <<screen, registry, heard, refused, client>>

\* The write of sync_windows
WriteWindows ==
  LET gone == IF poll.skip THEN {} ELSE {w \in Cached : poll.polled[w] = None}
      kept == WithoutWindows(gone)
      fresh == Fresh(poll.polled, kept)
  IN  /\ poll.at = "write"
      /\ windows' = WithPolled(kept, poll.polled, poll.handles)
      /\ by_handle' = IndexWith(IndexWithout(gone), poll.polled, poll.handles)
      /\ IF NeedsSorting(windows, windows') THEN z_order' \in FrontToBack(windows')
                                            ELSE UNCHANGED z_order
      /\ elements' = ElementsWithout(gone)
      /\ processes' = ProcessesWithout(gone)
      /\ heard' = Announce(windows')
      /\ refused' = refused \ fresh
      /\ poll' = [Resting EXCEPT !.at = IF fresh = {} THEN "focus" ELSE "processes",
                                 !.fresh = fresh, !.focus = poll.focus]
      /\ UNCHANGED <<screen, focused, issued, client>>

ProcessDone(p) ==
  poll' = [poll EXCEPT !.at = IF @ = "processes" /\ poll.fresh = {p} THEN "focus" ELSE @,
                       !.fresh = @ \ {p}]

\* ensure_process: known already, or observed now
ObserveProcess(p) ==
  /\ poll.at = "processes" /\ p \in poll.fresh
  /\ processes' = processes \cup {p}
  /\ ProcessDone(p)
  /\ UNCHANGED <<screen, windows, z_order, by_handle, focused, elements, issued, heard, refused, client>>

\* ensure_process fails to create an observer: logged, and left at that
ProcessRefused(p) ==
  /\ poll.at = "processes" /\ p \in poll.fresh
  /\ p \in Unobservable \ processes
  /\ refused' = refused \cup {p}
  /\ ProcessDone(p)
  /\ UNCHANGED <<screen, registry, heard, client>>

\* sync_focused_window
SyncFocus ==
  /\ poll.at = "focus"
  /\ focused' = poll.focus
  /\ poll' = Resting
  /\ UNCHANGED <<screen, windows, z_order, by_handle, processes, elements, issued, heard, refused, client>>

----------------------------------------------------------------------------
HasLiveRoot(w) == windows[w].root # None /\ elements[windows[w].root] # None

\* window_root, first half: no cached root, so the handle is read from the OS next
AskRoot(c, w) ==
  /\ client[c].at = "idle"
  /\ windows[w] # None /\ windows[w].handle # None
  /\ ~HasLiveRoot(w)
  /\ client' = [client EXCEPT ![c] = [Away EXCEPT !.at = "upsert", !.window = w,
                                                  !.handle = windows[w].handle]]
  /\ UNCHANGED <<screen, registry, heard, refused, poll>>

\* upsert_from_handle: a known handle is updated in place
UpsertRoot(c) ==
  LET entry == [handle |-> client[c].handle, window_id |-> client[c].window]
      known == {e \in ElementId : elements[e] # None /\ elements[e].handle = entry.handle}
  IN  /\ client[c].at = "upsert"
      /\ \E e \in IF known # {} THEN known ELSE ElementId \ issued :
           /\ elements' = [elements EXCEPT ![e] = entry]
           /\ issued' = issued \cup {e}
           /\ client' = [client EXCEPT ![c].at = "root", ![c].element = e]
      /\ UNCHANGED <<screen, windows, z_order, by_handle, processes, focused, heard, refused, poll>>

\* set_window_root, if the window is still there
SetRoot(c) ==
  LET w == client[c].window
  IN  /\ client[c].at = "root"
      /\ windows' = IF windows[w] = None THEN windows
                    ELSE [windows EXCEPT ![w].root = client[c].element]
      /\ client' = [client EXCEPT ![c] = Away]
      /\ UNCHANGED <<screen, z_order, by_handle, processes, focused, elements, issued, heard, refused, poll>>

\* remove_element, on a destruction notice
RootDestroyed(e) ==
  /\ elements[e] # None
  /\ elements' = [elements EXCEPT ![e] = None]
  /\ UNCHANGED <<screen, windows, z_order, by_handle, processes, focused, issued, heard, refused, poll, client>>

PollStep ==
  \/ FetchWindows \/ FetchHandles \/ WriteWindows \/ SyncFocus
  \/ \E p \in ProcessId : ObserveProcess(p) \/ ProcessRefused(p)

ClientStep ==
  \/ \E c \in Client, w \in WindowId : AskRoot(c, w)
  \/ \E c \in Client : UpsertRoot(c) \/ SetRoot(c)
  \/ \E e \in ElementId : RootDestroyed(e)

Next == ScreenChanges \/ PollStep \/ ClientStep

Spec == Init /\ [][Next]_vars

(***************************************************************************)
(* The poll thread loops until it is told to stop, and every call it makes *)
(* of the operating system returns.  An observer that can be created is    *)
(* not refused for ever.  Nothing is assumed of the screen or the clients. *)
(***************************************************************************)
FairSpec ==
  /\ Spec
  /\ WF_vars(PollStep)
  /\ \A p \in ProcessId : SF_vars(ObserveProcess(p))

----------------------------------------------------------------------------
\* Every variable has its type, and no window of the excluded process is cached.
TypeOK ==
  /\ screen \in Screens
  /\ windows \in [WindowId -> CachedWindow \cup {None}]
  /\ z_order \in Seq(WindowId)
  /\ by_handle \in [Handle -> WindowId \cup {None}]
  /\ processes \subseteq ProcessId /\ refused \subseteq ProcessId
  /\ focused \in WindowId \cup {None}
  /\ elements \in [ElementId -> CachedElement \cup {None}]
  /\ issued \subseteq ElementId
  /\ heard \in [WindowId -> Info \cup {None}]
  /\ poll \in [at : {"idle", "handles", "write", "processes", "focus"},
               polled : [WindowId -> Info \cup {None}], skip : BOOLEAN,
               focus : WindowId \cup {None},
               handles : [WindowId -> Handle \cup {None}], fresh : SUBSET ProcessId]
  /\ client \in [Client -> [at : {"idle", "upsert", "root"}, window : WindowId \cup {None},
                            handle : Handle \cup {None}, element : ElementId \cup {None}]]
  /\ \A w \in Cached : Owner[w] # Excluded

(***************************************************************************)
(* z_order lists the cached windows, each once, front to back by the z     *)
(* index they have now, though it is recomputed only when a window comes,  *)
(* goes or moves; window_at_point relies on it (registry/mod.rs:434-446).  *)
(***************************************************************************)
ZOrderIsFrontToBack == z_order \in FrontToBack(windows)

(***************************************************************************)
(* No observer outlives the windows of its process, and between polls      *)
(* every cached window has its process, unless the observer was refused    *)
(* (windows.rs:85-89, sync.rs:74-78).  A poll may drop the last window of  *)
(* a process and bring another of the same process.                        *)
(***************************************************************************)
ProcessesMatchWindows ==
  /\ processes \subseteq {Owner[w] : w \in Cached}
  /\ poll.at \notin {"processes"} => \A w \in Cached : Owner[w] \in processes \cup refused

(***************************************************************************)
(* window_handle_to_id is the inverse of the handles in windows: each      *)
(* leads to the window that has it and each window is found by its own     *)
(* ("Indexes are always updated", registry/mod.rs:6).                      *)
(***************************************************************************)
IndexNamesOwners ==
  \A h \in Handle : by_handle[h] # None =>
    by_handle[h] \in Cached /\ windows[by_handle[h]].handle = h

WindowsAreIndexed ==
  \A w \in Cached : windows[w].handle # None => by_handle[windows[w].handle] = w

WindowIndexInverse == IndexNamesOwners /\ WindowsAreIndexed

(***************************************************************************)
(* Between polls the focused window is a cached one that is marked as      *)
(* focused (polling.rs:214-217): the focus is taken from the list that was *)
(* written, after it was written.                                          *)
(***************************************************************************)
FocusIsCached ==
  poll.at \in {"idle", "handles"} /\ focused # None =>
    focused \in Cached /\ windows[focused].info.focused

\* A subscriber that applied every window event holds the cached infos.
SubscriberKnowsWindows ==
  \A w \in WindowId : heard[w] = IF windows[w] = None THEN None ELSE windows[w].info

(***************************************************************************)
(* Once the screen stays as it is, the cache comes to agree with it: the   *)
(* same windows with the same z index and focus, save that an unreliable   *)
(* screen (overlay missing, window offscreen) removes nothing.             *)
(***************************************************************************)
Agrees(s) ==
  /\ \A w \in WindowId :
       IF Polled(s)[w] # None THEN w \in Cached /\ windows[w].info = Polled(s)[w]
       ELSE SkipRemoval(s) \/ w \notin Cached
  /\ focused = Focus(s)

CatchesUp == \A s \in Screens : <>[](screen = s) => <>[]Agrees(s)

(***************************************************************************)
(* "retrying for windows that had None" (sync.rs:65): a window that stays  *)
(* on the screen with a readable accessibility element ends up with a      *)
(* handle, whatever failed before.                                         *)
(***************************************************************************)
Readable(w) == \E i \in Tracked(screen) : screen[i].id = w /\ screen[i].ax

HandleIsRetried ==
  \A w \in WindowId : <>[]Readable(w) => <>(w \in Cached /\ windows[w].handle # None)

(***************************************************************************)
(* "Remove a window and all its elements" (windows.rs:64): no element is   *)
(* cached for a window that is not.                                        *)
(***************************************************************************)
ElementsInCachedWindows ==
  \A e \in ElementId : elements[e] # None => elements[e].window_id \in Cached
=============================================================================
