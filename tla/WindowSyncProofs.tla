--------------------------- MODULE WindowSyncProofs ---------------------------
(***************************************************************************)
(* The window cache after every step of a poll, for any windows, processes *)
(* and screens, and any number of clients.                                 *)
(*                                                                         *)
(* A poll carries what it read over four steps without the lock, so each   *)
(* property needs what the poll carries to be said: the focus is one of    *)
(* the polled windows until they are written and a cached one after, the   *)
(* fresh processes are those that are not yet looked at, the handles were  *)
(* read for windows that have none.  Clients change roots and elements     *)
(* meanwhile, which none of this mentions.                                 *)
(***************************************************************************)
EXTENDS WindowSync, FiniteSetTheorems, SequenceTheorems, WellFoundedInduction, TLAPS

LEMMA NoneIsNone ==
  /\ None \notin WindowId /\ None \notin Handle /\ None \notin ElementId
  /\ None \notin Info /\ None \notin CachedWindow /\ None \notin CachedElement
BY NoneAssumption

\* A set of naturals that is not empty has a least element.
LEMMA Least ==
  ASSUME NEW T \in SUBSET Nat, T # {}
  PROVE  \E x \in T : \A y \in T : x <= y
<1> DEFINE R == {ss \in Nat \X Nat : ss[1] < ss[2]}
<1>1. IsWellFoundedOn(R, Nat)
  BY NatLessThanWellFounded DEF OpToRel
<1>2. PICK x \in T : \A y \in T : <<y, x>> \notin R
  <2> HIDE DEF R
  <2> QED BY <1>1, WFMin
<1>3. \A y \in T : x <= y
  <2> TAKE y \in T
  <2>1. y \in Nat /\ x \in Nat /\ (<<y, x>> \in R <=> y < x)
    OBVIOUS
  <2>2. ~(y < x)
    BY <1>2, <2>1
  <2> QED BY ONLY <2>1, <2>2
<1> QED BY <1>3

----------------------------------------------------------------------------
Shown == [id : WindowId, place : Place, focused : BOOLEAN, ax : BOOLEAN]

\* A screen lists each window once, so it is no longer than there are windows.
LEMMA ScreenTyped ==
  ASSUME NEW s \in Screens
  PROVE  /\ DOMAIN s = 1..Len(s) /\ Len(s) \in Nat
         /\ \A i \in 1..Len(s) : s[i] \in Shown /\ i - 1 \in 0..MaxZ
         /\ \A i, j \in 1..Len(s) : s[i].id = s[j].id => i = j
<1>1. /\ s \in Seq(Shown) /\ IsFiniteSet(WindowId)
      /\ \A i, j \in DOMAIN s : s[i].id = s[j].id => i = j
  BY SyncAssumption DEF Screen, Shown
<1>2. Len(s) \in Nat /\ DOMAIN s = 1..Len(s) /\ \A i \in 1..Len(s) : s[i] \in Shown
  BY <1>1, LenProperties, ElementOfSeq
<1>3. Cardinality(WindowId) \in Nat
  BY <1>1, FS_CardinalityType
<1>4. Len(s) <= Cardinality(WindowId)
  <2> DEFINE f == [i \in 1..Len(s) |-> s[i].id]
  <2>1. f \in [1..Len(s) -> WindowId]
    BY <1>2 DEF Shown
  <2>2. ~ \E x, y \in 1..Len(s) : x # y /\ f[x] = f[y]
    BY <1>1, <1>2
  <2>3. IsFiniteSet(1..Len(s)) /\ Cardinality(1..Len(s)) = Len(s)
    <3>1. 1 \in Int /\ Len(s) \in Int
      BY <1>2
    <3>2. /\ IsFiniteSet(1..Len(s))
          /\ Cardinality(1..Len(s)) = IF 1 > Len(s) THEN 0 ELSE Len(s) - 1 + 1
      BY <3>1, FS_Interval
    <3> QED BY <1>2, <3>2
  <2> HIDE DEF f
  <2>4. ~ (Cardinality(WindowId) < Cardinality(1..Len(s)))
    BY <1>1, <2>1, <2>2, <2>3, FS_PigeonHole
  <2> QED BY <1>2, <1>3, <2>3, <2>4
<1>5. ASSUME NEW i \in 1..Len(s) PROVE i - 1 \in 0..MaxZ
  <2>1. i \in Nat /\ i >= 1 /\ i <= Cardinality(WindowId)
    BY <1>2, <1>3, <1>4
  <2> QED BY <1>3, <2>1 DEF MaxZ
<1> QED BY <1>1, <1>2, <1>5

\* What is polled of a tracked place is its own index and focus.
LEMMA PolledTyped ==
  ASSUME NEW s \in Screens
  PROVE  /\ Polled(s) \in [WindowId -> Info \cup {None}]
         /\ \A w \in WindowId : Polled(s)[w] # None => Owner[w] # Excluded
         /\ \A i \in Tracked(s) :
              s[i].id \in WindowId /\ Polled(s)[s[i].id] = [z_index |-> i - 1, focused |-> s[i].focused]
<1>1. Tracked(s) \subseteq 1..Len(s)
  BY ScreenTyped DEF Tracked
<1>2. ASSUME NEW i \in Tracked(s)
      PROVE  /\ s[i].id \in WindowId /\ i - 1 \in 0..MaxZ /\ s[i].focused \in BOOLEAN
             /\ Owner[s[i].id] # Excluded
             /\ (CHOOSE j \in Tracked(s) : s[j].id = s[i].id) = i
  <2>1. i \in 1..Len(s) /\ s[i] \in Shown /\ i - 1 \in 0..MaxZ
    BY <1>1, ScreenTyped
  <2>2. \A j \in Tracked(s) : s[j].id = s[i].id => j = i
    BY <1>1, <2>1, ScreenTyped
  <2>3. Owner[s[i].id] # Excluded
    BY DEF Tracked
  <2> QED BY <2>1, <2>2, <2>3 DEF Shown
<1>3. ASSUME NEW i \in Tracked(s)
      PROVE  Polled(s)[s[i].id] = [z_index |-> i - 1, focused |-> s[i].focused]
  BY <1>2, <1>3 DEF Polled
<1>4. ASSUME NEW w \in WindowId, ~ \E i \in Tracked(s) : s[i].id = w PROVE Polled(s)[w] = None
  BY <1>4 DEF Polled
<1>5. ASSUME NEW i \in Tracked(s) PROVE [z_index |-> i - 1, focused |-> s[i].focused] \in Info
  BY <1>2 DEF Info
<1>6. ASSUME NEW w \in WindowId
      PROVE  Polled(s)[w] \in Info \cup {None} /\ (Polled(s)[w] # None => Owner[w] # Excluded)
  <2>1. CASE \E i \in Tracked(s) : s[i].id = w
    <3>1. PICK i \in Tracked(s) : s[i].id = w
      BY <2>1
    <3>2. Polled(s)[w] = [z_index |-> i - 1, focused |-> s[i].focused]
      BY <3>1, <1>3
    <3>3. Polled(s)[w] \in Info
      BY <3>2, <1>5
    <3> QED BY <3>1, <3>3, <1>2
  <2>2. CASE ~ \E i \in Tracked(s) : s[i].id = w
    BY <2>2, <1>4
  <2> QED BY <2>1, <2>2
<1>7. Polled(s) \in [WindowId -> Info \cup {None}]
  <2>1. Polled(s) = [w \in WindowId |-> Polled(s)[w]]
    BY DEF Polled
  <2> QED BY <1>6, <2>1
<1> QED BY <1>2, <1>3, <1>6, <1>7

\* The focus is a polled window that is marked as focused.
LEMMA FocusIsPolled ==
  ASSUME NEW s \in Screens, Focus(s) # None
  PROVE  Focus(s) \in WindowId /\ Polled(s)[Focus(s)] \in Info /\ Polled(s)[Focus(s)].focused
<1> DEFINE lit == {i \in Tracked(s) : s[i].focused}
           i == CHOOSE j \in lit : \A k \in lit : j <= k
<1>1. lit # {} /\ Focus(s) = s[i].id
  BY DEF Focus
<1>2. lit \in SUBSET Nat
  BY ScreenTyped DEF Tracked
<1>3. i \in lit
  <2> HIDE DEF lit
  <2>1. \E j \in lit : \A k \in lit : j <= k
    BY <1>1, <1>2, Least
  <2> QED BY <2>1
<1>4. i \in Tracked(s) /\ s[i].focused
  BY <1>3
<1> HIDE DEF i, lit
<1>5. /\ s[i].id \in WindowId /\ Polled(s)[s[i].id] = [z_index |-> i - 1, focused |-> s[i].focused]
      /\ Polled(s)[s[i].id] \in Info \cup {None}
  BY <1>4, PolledTyped
<1>6. Polled(s)[s[i].id].focused
  BY <1>4, <1>5
<1>7. i - 1 \in 0..MaxZ /\ s[i].focused \in BOOLEAN
  BY <1>4, ScreenTyped DEF Tracked, Shown
<1> QED BY <1>1, <1>5, <1>6, <1>7 DEF Info

----------------------------------------------------------------------------
PollState ==
  [at : {"idle", "handles", "write", "processes", "focus"},
   polled : [WindowId -> Info \cup {None}], skip : BOOLEAN,
   focus : WindowId \cup {None},
   handles : [WindowId -> Handle \cup {None}], fresh : SUBSET ProcessId]

ClientState ==
  [at : {"idle", "upsert", "root"}, window : WindowId \cup {None},
   handle : Handle \cup {None}, element : ElementId \cup {None}]

\* The polled windows are tracked, and the focus will be, or is, one that is cached.
FocusCarried ==
  /\ \A w \in WindowId : poll.polled[w] # None => Owner[w] # Excluded
  /\ poll.at \in {"handles", "write"} /\ poll.focus # None =>
       poll.polled[poll.focus] # None /\ poll.polled[poll.focus].focused
  /\ poll.at \in {"processes", "focus"} /\ poll.focus # None =>
       poll.focus \in Cached /\ windows[poll.focus].info.focused

\* Only polled windows were asked for their handle.
HandlesCarried ==
  poll.at = "write" => \A w \in WindowId : poll.handles[w] # None => poll.polled[w] # None

\* Who has no process is still to be looked at.
FreshCarried ==
  /\ poll.at # "processes" => poll.fresh = {}
  /\ poll.fresh \subseteq {Owner[w] : w \in Cached}
  /\ \A w \in Cached : Owner[w] \in processes \cup refused \cup poll.fresh

\* A client that goes on has what it needs.
Asked ==
  \A c \in Client :
    /\ client[c].at # "idle" => client[c].window \in WindowId
    /\ client[c].at = "upsert" => client[c].handle \in Handle
    /\ client[c].at = "root" => client[c].element \in ElementId

Agreement ==
  /\ ZOrderIsFrontToBack /\ ProcessesMatchWindows /\ FocusIsCached /\ SubscriberKnowsWindows
  /\ FocusCarried /\ FreshCarried /\ HandlesCarried

IInv == TypeOK /\ Agreement /\ Asked

\* Everything but the roots of the windows is as it was.
OnlyRoots ==
  /\ \A w \in WindowId :
       /\ (windows'[w] = None) = (windows[w] = None)
       /\ windows[w] # None => windows'[w].info = windows[w].info /\ windows'[w].handle = windows[w].handle
  /\ UNCHANGED <<z_order, by_handle, processes, focused, heard, refused, poll>>

LEMMA SameOrder ==
  ASSUME NEW ws, NEW us,
         \A w \in WindowId : /\ (us[w] = None) = (ws[w] = None)
                             /\ ws[w] # None => us[w].info.z_index = ws[w].info.z_index
  PROVE  FrontToBack(us) = FrontToBack(ws)
<1> DEFINE D(v) == {w \in WindowId : v[w] # None}
<1>1. D(us) = D(ws) /\ \A w \in D(ws) : us[w].info.z_index = ws[w].info.z_index
  OBVIOUS
<1>2. FrontToBack(us) = {o \in [1..Cardinality(D(us)) -> D(us)] :
         \A i, j \in 1..Cardinality(D(us)) :
           i < j => o[i] # o[j] /\ us[o[i]].info.z_index <= us[o[j]].info.z_index}
  BY DEF FrontToBack
<1>3. FrontToBack(ws) = {o \in [1..Cardinality(D(ws)) -> D(ws)] :
         \A i, j \in 1..Cardinality(D(ws)) :
           i < j => o[i] # o[j] /\ ws[o[i]].info.z_index <= ws[o[j]].info.z_index}
  BY DEF FrontToBack
<1> HIDE DEF D
<1>4. ASSUME NEW o \in [1..Cardinality(D(ws)) -> D(ws)], NEW i \in 1..Cardinality(D(ws))
      PROVE  us[o[i]].info.z_index = ws[o[i]].info.z_index
  BY <1>1, <1>4
<1> QED BY <1>1, <1>2, <1>3, <1>4

LEMMA OnlyRootsKeeps == ASSUME Agreement, OnlyRoots PROVE Agreement'
<1>1. Cached' = Cached
  BY DEF OnlyRoots, Cached
<1>2. \A w \in Cached : windows'[w].info = windows[w].info
  BY DEF OnlyRoots, Cached
<1>3. UNCHANGED <<z_order, processes, focused, heard, refused, poll>>
  BY DEF OnlyRoots
<1>4. ZOrderIsFrontToBack'
  <2>1. FrontToBack(windows') = FrontToBack(windows)
    BY SameOrder DEF OnlyRoots
  <2> QED BY <1>3, <2>1 DEF Agreement, ZOrderIsFrontToBack
<1>5. ProcessesMatchWindows' /\ FreshCarried'
  BY <1>1, <1>3 DEF Agreement, ProcessesMatchWindows, FreshCarried
<1>6. FocusIsCached' /\ FocusCarried' /\ HandlesCarried'
  BY <1>1, <1>2, <1>3 DEF Agreement, FocusIsCached, FocusCarried, HandlesCarried
<1>7. SubscriberKnowsWindows'
  BY <1>3 DEF Agreement, SubscriberKnowsWindows, OnlyRoots
<1> QED BY <1>4, <1>5, <1>6, <1>7 DEF Agreement

LEMMA InitHolds == Init => IInv
<1> SUFFICES ASSUME Init PROVE IInv
  OBVIOUS
<1>1. Cached = {}
  BY DEF Init, Cached
<1>2. poll \in PollState /\ poll = Resting
  BY DEF Init, Resting, NoInfo, NoHandles, PollState
<1>3. client \in [Client -> ClientState] /\ \A c \in Client : client[c].at = "idle"
  BY DEF Init, Away, ClientState
<1>4. z_order = <<>> /\ <<>> \in Seq(WindowId)
  BY EmptySeq DEF Init
<1>5. TypeOK
  BY <1>1, <1>2, <1>3, <1>4 DEF Init, TypeOK, PollState, ClientState, NoInfo
<1>6. ZOrderIsFrontToBack
  <2>1. FrontToBack(windows) = {o \in [1..Cardinality({}) -> {}] :
          \A i, j \in 1..Cardinality({}) :
            i < j => o[i] # o[j] /\ windows[o[i]].info.z_index <= windows[o[j]].info.z_index}
    BY <1>1 DEF FrontToBack, Cached
  <2>2. Cardinality({}) = 0
    BY FS_EmptySet
  <2>3. <<>> \in [1..0 -> {}]
    BY EmptySeq, LenProperties
  <2> QED BY <1>4, <2>1, <2>2, <2>3 DEF ZOrderIsFrontToBack
<1>7. ProcessesMatchWindows /\ FreshCarried
  BY <1>1, <1>2 DEF Init, ProcessesMatchWindows, FreshCarried, Resting
<1>8. FocusIsCached /\ SubscriberKnowsWindows
  BY DEF Init, FocusIsCached, SubscriberKnowsWindows, NoInfo
<1>9. FocusCarried /\ HandlesCarried
  BY <1>2 DEF FocusCarried, HandlesCarried, Resting, NoInfo
<1> QED BY <1>3, <1>5, <1>6, <1>7, <1>8, <1>9 DEF IInv, Agreement, Asked

----------------------------------------------------------------------------
\* The clients, the screen and the operating system.
LEMMA ScreenChangesKeeps == ASSUME IInv, ScreenChanges PROVE IInv'
<1>1. OnlyRoots /\ UNCHANGED <<windows, elements, issued, client>> /\ screen' \in Screens
  BY DEF ScreenChanges, OnlyRoots, registry
<1>2. TypeOK'
  BY <1>1 DEF IInv, TypeOK, OnlyRoots, Cached
<1> QED BY <1>1, <1>2, OnlyRootsKeeps DEF IInv, Asked

LEMMA AskRootKeeps ==
  ASSUME IInv, NEW c \in Client, NEW w \in WindowId, AskRoot(c, w)
  PROVE  IInv'
<1>1. OnlyRoots /\ UNCHANGED <<screen, windows, elements, issued>>
  BY DEF AskRoot, OnlyRoots, registry
<1>2. windows[w].handle \in Handle
  BY DEF AskRoot, IInv, TypeOK, CachedWindow
<1>3. /\ client \in [Client -> ClientState]
      /\ client' = [client EXCEPT ![c] = [Away EXCEPT !.at = "upsert", !.window = w,
                                                     !.handle = windows[w].handle]]
  BY DEF AskRoot, IInv, TypeOK, ClientState
<1>4. PICK new : new = [Away EXCEPT !.at = "upsert", !.window = w, !.handle = windows[w].handle]
  OBVIOUS
<1>5. new \in ClientState /\ new.at = "upsert" /\ new.window = w /\ new.handle = windows[w].handle
  BY <1>2, <1>4 DEF Away, ClientState
<1>6. client' \in [Client -> ClientState]
  BY <1>3, <1>4, <1>5
<1>7. Asked'
  BY <1>2, <1>3, <1>4, <1>5 DEF IInv, Asked
<1>8. TypeOK'
  BY <1>1, <1>6 DEF IInv, TypeOK, ClientState, OnlyRoots, Cached
<1> QED BY <1>1, <1>7, <1>8, OnlyRootsKeeps DEF IInv

LEMMA UpsertRootKeeps == ASSUME IInv, NEW c \in Client, UpsertRoot(c) PROVE IInv'
<1> DEFINE entry == [handle |-> client[c].handle, window_id |-> client[c].window]
<1>1. PICK e \in ElementId :
        /\ elements' = [elements EXCEPT ![e] = entry] /\ issued' = issued \cup {e}
        /\ client' = [client EXCEPT ![c].at = "root", ![c].element = e]
  BY DEF UpsertRoot
<1>2. /\ client[c].at = "upsert" /\ OnlyRoots /\ UNCHANGED <<screen, windows>>
      /\ client \in [Client -> ClientState] /\ Asked
  BY DEF UpsertRoot, OnlyRoots, IInv, TypeOK, ClientState
<1>3. entry \in CachedElement
  BY <1>2 DEF Asked, CachedElement
<1>4. client' \in [Client -> ClientState]
  BY <1>1, <1>2 DEF ClientState
<1>5. Asked'
  BY <1>1, <1>2 DEF Asked, ClientState
<1>6. TypeOK'
  <2>1. elements' \in [ElementId -> CachedElement \cup {None}] /\ issued' \subseteq ElementId
    BY <1>1, <1>3 DEF IInv, TypeOK
  <2> QED BY <1>2, <1>4, <2>1 DEF IInv, TypeOK, ClientState, OnlyRoots, Cached
<1> QED BY <1>2, <1>5, <1>6, OnlyRootsKeeps DEF IInv

LEMMA SetRootKeeps == ASSUME IInv, NEW c \in Client, SetRoot(c) PROVE IInv'
<1> DEFINE w == client[c].window
<1>1. /\ client[c].at = "root" /\ w \in WindowId /\ client[c].element \in ElementId
      /\ windows \in [WindowId -> CachedWindow \cup {None}] /\ client \in [Client -> ClientState]
  BY DEF SetRoot, IInv, Asked, TypeOK, ClientState
<1>2. /\ windows' = IF windows[w] = None THEN windows
                    ELSE [windows EXCEPT ![w].root = client[c].element]
      /\ client' = [client EXCEPT ![c] = Away]
      /\ UNCHANGED <<screen, z_order, by_handle, processes, focused, elements, issued, heard, refused, poll>>
  BY DEF SetRoot
<1>3. windows' \in [WindowId -> CachedWindow \cup {None}] /\ OnlyRoots
  <2>1. CASE windows[w] = None
    BY <1>1, <1>2, <2>1 DEF OnlyRoots
  <2>2. CASE windows[w] # None
    <3>1. windows[w] \in CachedWindow
      BY <1>1, <2>2
    <3>2. PICK new : new = [windows[w] EXCEPT !.root = client[c].element]
      OBVIOUS
    <3>3. new \in CachedWindow /\ new.info = windows[w].info /\ new.handle = windows[w].handle
      BY <1>1, <3>1, <3>2 DEF CachedWindow
    <3>4. windows' = [windows EXCEPT ![w] = new]
      BY <1>1, <1>2, <2>2, <3>2
    <3>5. new # None
      BY <3>3, NoneIsNone
    <3> QED BY <1>1, <1>2, <2>2, <3>3, <3>4, <3>5 DEF OnlyRoots
  <2> QED BY <2>1, <2>2
<1>4. client' \in [Client -> ClientState]
  BY <1>1, <1>2 DEF Away, ClientState
<1>5. Asked'
  BY <1>1, <1>2 DEF Asked, Away, IInv
<1>6. TypeOK'
  <2>1. Cached' = Cached
    BY <1>3 DEF OnlyRoots, Cached
  <2> QED BY <1>2, <1>3, <1>4, <2>1 DEF IInv, TypeOK, ClientState
<1> QED BY <1>3, <1>5, <1>6, OnlyRootsKeeps DEF IInv

LEMMA RootDestroyedKeeps ==
  ASSUME IInv, NEW e \in ElementId, RootDestroyed(e)
  PROVE  IInv'
<1>1. /\ OnlyRoots /\ UNCHANGED <<screen, windows, issued, client>>
      /\ elements' \in [ElementId -> CachedElement \cup {None}]
  BY DEF RootDestroyed, OnlyRoots, IInv, TypeOK
<1>2. TypeOK'
  BY <1>1 DEF IInv, TypeOK, OnlyRoots, Cached
<1> QED BY <1>1, <1>2, OnlyRootsKeeps DEF IInv, Asked

----------------------------------------------------------------------------
\* The steps of a poll that leave the windows alone.
LEMMA FetchWindowsKeeps == ASSUME IInv, FetchWindows PROVE IInv'
<1>1. /\ poll.at = "idle" /\ screen \in Screens
      /\ UNCHANGED <<screen, registry, heard, refused, client>>
      /\ poll' = [Resting EXCEPT !.at = "handles", !.polled = Polled(screen),
                                 !.skip = SkipRemoval(screen), !.focus = Focus(screen)]
  BY DEF IInv, TypeOK, FetchWindows
<1>2. /\ poll'.at = "handles" /\ poll'.polled = Polled(screen) /\ poll'.focus = Focus(screen)
      /\ poll'.fresh = {} /\ poll'.handles = NoHandles /\ poll'.skip = SkipRemoval(screen)
      /\ poll' = [at |-> poll'.at, polled |-> poll'.polled, skip |-> poll'.skip,
                  focus |-> poll'.focus, handles |-> poll'.handles, fresh |-> poll'.fresh]
  BY <1>1 DEF Resting
<1>3. /\ Polled(screen) \in [WindowId -> Info \cup {None}] /\ SkipRemoval(screen) \in BOOLEAN
      /\ \A w \in WindowId : Polled(screen)[w] # None => Owner[w] # Excluded
  BY <1>1, PolledTyped DEF SkipRemoval
<1>4. /\ Focus(screen) \in WindowId \cup {None}
      /\ Focus(screen) # None =>
           Polled(screen)[Focus(screen)] # None /\ Polled(screen)[Focus(screen)].focused
  BY <1>1, FocusIsPolled, NoneIsNone
<1>5. poll' \in PollState
  BY <1>2, <1>3, <1>4 DEF PollState, NoHandles
<1>6. Cached' = Cached /\ FrontToBack(windows)' = FrontToBack(windows)
  BY <1>1 DEF registry, Cached, FrontToBack
<1>7. TypeOK'
  BY <1>1, <1>5, <1>6 DEF IInv, TypeOK, registry, PollState
<1>8. ZOrderIsFrontToBack' /\ ProcessesMatchWindows' /\ SubscriberKnowsWindows' /\ FreshCarried'
  BY <1>1, <1>2, <1>6
     DEF IInv, Agreement, ZOrderIsFrontToBack, ProcessesMatchWindows, SubscriberKnowsWindows, FreshCarried, registry
<1>9. FocusIsCached'
  BY <1>1, <1>2, <1>6 DEF IInv, Agreement, FocusIsCached, registry
<1>10. FocusCarried' /\ HandlesCarried'
  BY <1>2, <1>3, <1>4 DEF FocusCarried, HandlesCarried
<1> QED BY <1>1, <1>7, <1>8, <1>9, <1>10 DEF IInv, Agreement, Asked

LEMMA FetchHandlesKeeps == ASSUME IInv, FetchHandles PROVE IInv'
<1>1. PICK handles \in [WindowId -> Handle \cup {None}] :
        /\ poll' = [poll EXCEPT !.at = "write", !.handles = handles]
        /\ \A w \in WindowId : w \notin NeedingHandle(poll.polled) => handles[w] = None
  BY DEF FetchHandles
<1>2. poll.at = "handles" /\ poll \in PollState /\ UNCHANGED <<screen, registry, heard, refused, client>>
  BY DEF FetchHandles, IInv, TypeOK, PollState
<1>3. /\ poll' \in PollState /\ poll'.at = "write" /\ poll'.polled = poll.polled
      /\ poll'.focus = poll.focus /\ poll'.fresh = poll.fresh
  BY <1>1, <1>2 DEF PollState
<1>4. Cached' = Cached /\ FrontToBack(windows)' = FrontToBack(windows)
  BY <1>2 DEF registry, Cached, FrontToBack
<1>5. TypeOK'
  BY <1>2, <1>3, <1>4 DEF IInv, TypeOK, registry, PollState
<1>6. ZOrderIsFrontToBack' /\ ProcessesMatchWindows' /\ SubscriberKnowsWindows' /\ FreshCarried'
  BY <1>2, <1>3, <1>4
     DEF IInv, Agreement, ZOrderIsFrontToBack, ProcessesMatchWindows, SubscriberKnowsWindows, FreshCarried, registry
<1>7. FocusIsCached' /\ FocusCarried'
  BY <1>2, <1>3, <1>4 DEF IInv, Agreement, FocusIsCached, FocusCarried
<1>8. HandlesCarried'
  BY <1>1, <1>2, <1>3 DEF HandlesCarried, NeedingHandle, PollState
<1> QED BY <1>2, <1>5, <1>6, <1>7, <1>8 DEF IInv, Agreement, Asked

LEMMA ProcessKeeps ==
  ASSUME IInv, NEW p \in ProcessId, ObserveProcess(p) \/ ProcessRefused(p)
  PROVE  IInv'
<1>1. /\ poll.at = "processes" /\ p \in poll.fresh /\ poll \in PollState /\ ProcessDone(p)
      /\ UNCHANGED <<screen, windows, z_order, by_handle, focused, elements, issued, heard, client>>
      /\ \/ processes' = processes \cup {p} /\ refused' = refused
         \/ processes' = processes /\ refused' = refused \cup {p}
  BY DEF ObserveProcess, ProcessRefused, IInv, TypeOK, PollState, registry
<1>2. /\ poll' \in PollState /\ poll'.at \in {"processes", "focus"} /\ poll'.polled = poll.polled
      /\ poll'.focus = poll.focus /\ poll'.fresh = poll.fresh \ {p}
      /\ poll'.at # "processes" => poll.fresh = {p}
  <2>1. poll' = [poll EXCEPT !.at = IF poll.at = "processes" /\ poll.fresh = {p} THEN "focus" ELSE poll.at,
                             !.fresh = poll.fresh \ {p}]
    BY <1>1 DEF ProcessDone, PollState
  <2> QED BY <1>1, <2>1 DEF PollState
<1>3. Cached' = Cached /\ FrontToBack(windows)' = FrontToBack(windows)
  BY <1>1 DEF Cached, FrontToBack
<1>4. processes' \subseteq ProcessId /\ refused' \subseteq ProcessId
  BY <1>1 DEF IInv, TypeOK
<1>5. TypeOK'
  BY <1>1, <1>2, <1>3, <1>4 DEF IInv, TypeOK, PollState
<1>6. ZOrderIsFrontToBack' /\ SubscriberKnowsWindows'
  BY <1>1, <1>3 DEF IInv, Agreement, ZOrderIsFrontToBack, SubscriberKnowsWindows
<1>7. FocusIsCached' /\ FocusCarried' /\ HandlesCarried'
  BY <1>1, <1>2, <1>3 DEF IInv, Agreement, FocusIsCached, FocusCarried, HandlesCarried
<1>8. FreshCarried'
  BY <1>1, <1>2, <1>3 DEF IInv, Agreement, FreshCarried
<1>9. ProcessesMatchWindows'
  BY <1>1, <1>2, <1>3, <1>8 DEF IInv, Agreement, FreshCarried, ProcessesMatchWindows
<1> QED BY <1>1, <1>5, <1>6, <1>7, <1>8, <1>9 DEF IInv, Agreement, Asked

LEMMA SyncFocusKeeps == ASSUME IInv, SyncFocus PROVE IInv'
<1>1. /\ poll.at = "focus" /\ focused' = poll.focus /\ poll' = Resting /\ poll \in PollState
      /\ UNCHANGED <<screen, windows, z_order, by_handle, processes, elements, issued, heard, refused, client>>
  BY DEF SyncFocus, IInv, TypeOK, PollState
<1>2. /\ poll' \in PollState /\ poll'.at = "idle" /\ poll'.polled = NoInfo /\ poll'.fresh = {}
      /\ poll'.focus = None
  BY <1>1 DEF Resting, PollState, NoInfo, NoHandles
<1>3. Cached' = Cached /\ FrontToBack(windows)' = FrontToBack(windows)
  BY <1>1 DEF Cached, FrontToBack
<1>4. TypeOK'
  BY <1>1, <1>2, <1>3 DEF IInv, TypeOK, PollState
<1>5. ZOrderIsFrontToBack' /\ SubscriberKnowsWindows' /\ ProcessesMatchWindows' /\ FreshCarried'
  BY <1>1, <1>2, <1>3
     DEF IInv, Agreement, ZOrderIsFrontToBack, SubscriberKnowsWindows, ProcessesMatchWindows, FreshCarried
<1>6. FocusIsCached'
  BY <1>1, <1>2, <1>3 DEF IInv, Agreement, FocusIsCached, FocusCarried
<1>7. FocusCarried' /\ HandlesCarried'
  BY <1>2 DEF FocusCarried, HandlesCarried, NoInfo
<1> QED BY <1>1, <1>4, <1>5, <1>6, <1>7 DEF IInv, Agreement, Asked

----------------------------------------------------------------------------
\* The write of a poll: what becomes of each window.
Gone == IF poll.skip THEN {} ELSE {w \in Cached : poll.polled[w] = None}

LEMMA Written ==
  ASSUME TypeOK, WriteWindows
  PROVE  /\ windows' \in [WindowId -> CachedWindow \cup {None}]
         /\ \A w \in WindowId :
              /\ poll.polled[w] # None =>
                   /\ windows'[w] \in CachedWindow /\ windows'[w].info = poll.polled[w]
                   /\ windows'[w].handle = IF poll.handles[w] # None \/ windows[w] = None
                                           THEN poll.handles[w] ELSE windows[w].handle
              /\ poll.polled[w] = None => windows'[w] = IF w \in Gone THEN None ELSE windows[w]
         /\ Cached' = {w \in WindowId : poll.polled[w] # None} \cup (Cached \ Gone)
         /\ Gone \subseteq Cached
<1>1. /\ windows' = WithPolled(WithoutWindows(Gone), poll.polled, poll.handles)
      /\ windows \in [WindowId -> CachedWindow \cup {None}] /\ poll \in PollState
  BY DEF WriteWindows, Gone, TypeOK, PollState
<1>2. \A w \in WindowId : poll.polled[w] \in Info \cup {None} /\ poll.handles[w] \in Handle \cup {None}
  BY <1>1 DEF PollState
<1>3. ASSUME NEW w \in WindowId, poll.polled[w] = None
      PROVE  windows'[w] = IF w \in Gone THEN None ELSE windows[w]
  BY <1>1, <1>3 DEF WithPolled, WithoutWindows
<1>4. ASSUME NEW w \in WindowId, poll.polled[w] # None
      PROVE  /\ windows'[w] \in CachedWindow /\ windows'[w].info = poll.polled[w]
             /\ windows'[w].handle = IF poll.handles[w] # None \/ windows[w] = None
                                     THEN poll.handles[w] ELSE windows[w].handle
  <2>1. w \notin Gone
    BY <1>4 DEF Gone
  <2>2. CASE windows[w] = None
    <3>1. windows'[w] = [info |-> poll.polled[w], handle |-> poll.handles[w], root |-> None]
      BY <1>1, <1>4, <2>1, <2>2 DEF WithPolled, WithoutWindows
    <3> QED BY <1>2, <1>4, <2>2, <3>1 DEF CachedWindow
  <2>3. CASE windows[w] # None
    <3>1. windows[w] \in CachedWindow
      BY <1>1, <2>3
    <3>2. PICK hh : hh = IF poll.handles[w] # None THEN poll.handles[w] ELSE windows[w].handle
      OBVIOUS
    <3>3. windows'[w] = [windows[w] EXCEPT !.info = poll.polled[w], !.handle = hh]
      BY <1>1, <1>4, <2>1, <2>3, <3>1, <3>2 DEF WithPolled, WithoutWindows, CachedWindow
    <3>4. hh \in Handle \cup {None}
      BY <1>2, <3>1, <3>2 DEF CachedWindow
    <3> QED BY <1>2, <1>4, <2>3, <3>1, <3>2, <3>3, <3>4 DEF CachedWindow
  <2> QED BY <2>2, <2>3
<1>5. ASSUME NEW w \in WindowId
      PROVE  /\ windows'[w] \in CachedWindow \cup {None}
             /\ windows'[w] # None <=> poll.polled[w] # None \/ w \in Cached \ Gone
  <2>1. CASE poll.polled[w] # None
    BY <1>4, <2>1, NoneIsNone
  <2>2. CASE poll.polled[w] = None
    BY <1>1, <1>3, <2>2 DEF Cached
  <2> QED BY <2>1, <2>2
<1>6. windows' = [w \in WindowId |-> windows'[w]]
  BY <1>1 DEF WithPolled
<1>7. windows' \in [WindowId -> CachedWindow \cup {None}]
  BY <1>5, <1>6
<1>8. Cached' = {w \in WindowId : poll.polled[w] # None} \cup (Cached \ Gone)
  BY <1>5 DEF Cached
<1> QED BY <1>3, <1>4, <1>7, <1>8 DEF Gone

\* Of the windows that took one handle, one is the last.
LEMMA TakerExists ==
  ASSUME poll \in PollState, HandlesCarried, poll.at = "write", NEW h \in Handle,
         {w \in WindowId : poll.handles[w] = h} # {}
  PROVE  LET takers == {w \in WindowId : poll.handles[w] = h}
             taker  == CHOOSE w \in takers :
                         \A v \in takers : poll.polled[v].z_index <= poll.polled[w].z_index
         IN  taker \in takers
<1> DEFINE takers == {w \in WindowId : poll.handles[w] = h}
           z(w) == poll.polled[w].z_index
           D == {n \in Nat : \E w \in takers : n = MaxZ - z(w)}
<1>1. MaxZ \in Int
  BY SyncAssumption, FS_CardinalityType DEF MaxZ
<1>2. \A w \in takers : z(w) \in Int /\ MaxZ - z(w) \in D
  <2> TAKE w \in takers
  <2>1. poll.polled[w] \in Info
    BY NoneIsNone DEF HandlesCarried, PollState
  <2>2. z(w) \in 0..MaxZ
    BY <2>1 DEF Info
  <2> QED BY <1>1, <2>2
<1>3. D \in SUBSET Nat /\ D # {}
  BY <1>2
<1>4. PICK n \in D : \A m \in D : n <= m
  <2> HIDE DEF D
  <2> QED BY <1>3, Least
<1>5. PICK w \in takers : n = MaxZ - z(w)
  BY <1>4
<1>6. \A v \in takers : z(v) <= z(w)
  <2> TAKE v \in takers
  <2>1. n <= MaxZ - z(v) /\ z(v) \in Int /\ z(w) \in Int
    BY <1>2, <1>4
  <2> QED BY ONLY <1>1, <1>5, <2>1
<1> HIDE DEF takers, z
<1>7. \E x \in takers : \A v \in takers : z(v) <= z(x)
  BY <1>5, <1>6
<1>8. (CHOOSE x \in takers : \A v \in takers : z(v) <= z(x)) \in takers
  BY <1>7
<1> QED BY <1>8 DEF takers, z

LEMMA WriteTyped == ASSUME IInv, WriteWindows PROVE TypeOK'
<1> DEFINE fresh == Fresh(poll.polled, WithoutWindows(Gone))
<1>1. /\ TypeOK /\ poll \in PollState /\ HandlesCarried /\ FocusCarried /\ poll.at = "write"
      /\ UNCHANGED <<screen, focused, issued, client>>
      /\ by_handle' = IndexWith(IndexWithout(Gone), poll.polled, poll.handles)
      /\ IF NeedsSorting(windows, windows') THEN z_order' \in FrontToBack(windows')
                                            ELSE UNCHANGED z_order
      /\ elements' = ElementsWithout(Gone) /\ processes' = ProcessesWithout(Gone)
      /\ heard' = Announce(windows') /\ refused' = refused \ fresh
      /\ poll' = [Resting EXCEPT !.at = IF fresh = {} THEN "focus" ELSE "processes",
                                 !.fresh = fresh, !.focus = poll.focus]
  BY DEF IInv, Agreement, TypeOK, PollState, WriteWindows, Gone
<1>2. fresh \subseteq ProcessId
  BY SyncAssumption DEF Fresh
<1>3. poll' \in PollState
  <2>1. PICK at : at = IF fresh = {} THEN "focus" ELSE "processes"
    OBVIOUS
  <2>2. poll' = [at |-> at, polled |-> NoInfo, skip |-> FALSE, focus |-> poll.focus,
                 handles |-> NoHandles, fresh |-> fresh]
    BY <1>1, <2>1 DEF Resting
  <2>3. poll.focus \in WindowId \cup {None}
    BY <1>1 DEF PollState
  <2> HIDE DEF fresh
  <2> QED BY <1>2, <2>1, <2>2, <2>3 DEF PollState, NoInfo, NoHandles
<1> HIDE DEF fresh
<1>4. windows' \in [WindowId -> CachedWindow \cup {None}]
  BY <1>1, Written
<1>5. by_handle' \in [Handle -> WindowId \cup {None}]
  <2> DEFINE index == IndexWithout(Gone)
             takers(h) == {w \in WindowId : poll.handles[w] = h}
             taker(h) == CHOOSE w \in takers(h) :
                           \A v \in takers(h) : poll.polled[v].z_index <= poll.polled[w].z_index
  <2>1. index \in [Handle -> WindowId \cup {None}]
    BY <1>1 DEF IndexWithout, TypeOK
  <2>2. \A h \in Handle : takers(h) # {} => taker(h) \in WindowId
    BY <1>1, TakerExists
  <2>3. by_handle' = [h \in Handle |-> IF takers(h) = {} THEN index[h] ELSE taker(h)]
    BY <1>1 DEF IndexWith
  <2> HIDE DEF index, takers, taker
  <2> QED BY <2>1, <2>2, <2>3
<1>6. z_order' \in Seq(WindowId)
  <2>1. CASE NeedsSorting(windows, windows')
    <3> DEFINE D == {w \in WindowId : windows'[w] # None}
    <3>1. z_order' \in [1..Cardinality(D) -> D]
      BY <1>1, <2>1 DEF FrontToBack
    <3>2. Cardinality(D) \in Nat
      BY SyncAssumption, FS_Subset, FS_CardinalityType
    <3> HIDE DEF D
    <3>3. z_order' \in Seq(D)
      BY <3>1, <3>2
    <3>4. D \subseteq WindowId
      BY DEF D
    <3> QED BY <3>3, <3>4, SeqMonotonic
  <2>2. CASE ~NeedsSorting(windows, windows')
    BY <1>1, <2>2 DEF TypeOK
  <2> QED BY <2>1, <2>2
<1>7. elements' \in [ElementId -> CachedElement \cup {None}]
  BY <1>1 DEF TypeOK, ElementsWithout
<1>8. processes' \subseteq ProcessId /\ refused' \subseteq ProcessId
  BY <1>1 DEF TypeOK, ProcessesWithout
<1>9. heard' \in [WindowId -> Info \cup {None}]
  BY <1>1, <1>4 DEF TypeOK, Announce, CachedWindow
<1>10. \A w \in Cached' : Owner[w] # Excluded
  <2>1. \A w \in Cached : Owner[w] # Excluded
    BY <1>1 DEF TypeOK
  <2> QED BY <1>1, <2>1, Written DEF FocusCarried
<1> QED BY <1>1, <1>3, <1>4, <1>5, <1>6, <1>7, <1>8, <1>9, <1>10 DEF TypeOK, PollState

LEMMA WriteAgrees == ASSUME IInv, WriteWindows PROVE Agreement'
<1> DEFINE fresh == Fresh(poll.polled, WithoutWindows(Gone))
<1>1. /\ TypeOK /\ poll \in PollState /\ FocusCarried /\ FreshCarried /\ poll.at = "write"
      /\ ZOrderIsFrontToBack /\ ProcessesMatchWindows /\ SubscriberKnowsWindows
      /\ IF NeedsSorting(windows, windows') THEN z_order' \in FrontToBack(windows')
                                            ELSE UNCHANGED z_order
      /\ processes' = ProcessesWithout(Gone)
      /\ heard' = Announce(windows') /\ refused' = refused \ fresh
      /\ poll' = [Resting EXCEPT !.at = IF fresh = {} THEN "focus" ELSE "processes",
                                 !.fresh = fresh, !.focus = poll.focus]
  BY DEF IInv, Agreement, TypeOK, PollState, WriteWindows, Gone
<1>2. /\ poll'.at = (IF fresh = {} THEN "focus" ELSE "processes") /\ poll'.fresh = fresh
      /\ poll'.focus = poll.focus /\ poll'.polled = NoInfo
  <2> HIDE DEF fresh
  <2> QED BY <1>1 DEF Resting
<1>3. /\ Cached' = {w \in WindowId : poll.polled[w] # None} \cup (Cached \ Gone)
      /\ Gone \subseteq Cached /\ Cached \subseteq WindowId
  BY <1>1, Written DEF Cached
<1>4. ASSUME NEW p PROVE p \in fresh <=> \E w \in Cached' \ (Cached \ Gone) : Owner[w] = p
  <2>1. \A w \in WindowId : WithoutWindows(Gone)[w] = None <=> w \notin Cached \ Gone
    BY DEF WithoutWindows, Cached
  <2> QED BY <1>3, <2>1 DEF Fresh
<1> HIDE DEF fresh
<1>5. ZOrderIsFrontToBack'
  <2>1. CASE NeedsSorting(windows, windows')
    BY <1>1, <2>1 DEF ZOrderIsFrontToBack
  <2>2. CASE ~NeedsSorting(windows, windows')
    <3>1. \A w \in WindowId : /\ (windows'[w] = None) = (windows[w] = None)
                              /\ windows[w] # None => windows'[w].info.z_index = windows[w].info.z_index
      BY <2>2 DEF NeedsSorting
    <3>2. FrontToBack(windows') = FrontToBack(windows)
      BY <3>1, SameOrder
    <3> QED BY <1>1, <2>2, <3>2 DEF ZOrderIsFrontToBack
  <2> QED BY <2>1, <2>2
<1>6. SubscriberKnowsWindows'
  BY <1>1 DEF SubscriberKnowsWindows, Announce
<1>7. FocusIsCached' /\ HandlesCarried'
  BY <1>2 DEF FocusIsCached, HandlesCarried
<1>8. FocusCarried'
  <2>1. ASSUME poll.focus # None
        PROVE  poll.focus \in Cached' /\ windows'[poll.focus].info.focused
    <3>1. poll.polled[poll.focus] # None /\ poll.polled[poll.focus].focused /\ poll.focus \in WindowId
      BY <1>1, <2>1 DEF FocusCarried, PollState
    <3> QED BY <1>1, <1>3, <3>1, Written
  <2> QED BY <1>2, <2>1 DEF FocusCarried, NoInfo
<1>9. /\ processes' \subseteq {Owner[w] : w \in Cached \ Gone}
      /\ \A w \in Cached \ Gone : Owner[w] \in processes => Owner[w] \in processes'
  BY <1>1 DEF ProcessesMatchWindows, ProcessesWithout
<1>10. FreshCarried'
  <2>1. fresh \subseteq {Owner[w] : w \in Cached'}
    BY <1>4
  <2>2. ASSUME NEW w \in Cached' PROVE Owner[w] \in processes' \cup refused' \cup fresh
    <3>1. CASE w \in Cached \ Gone
      <4>1. Owner[w] \in processes \cup refused
        BY <1>1, <3>1 DEF FreshCarried
      <4> QED BY <1>1, <1>9, <3>1, <4>1
    <3>2. CASE w \notin Cached \ Gone
      BY <1>4, <2>2, <3>2
    <3> QED BY <3>1, <3>2
  <2> QED BY <1>2, <2>1, <2>2 DEF FreshCarried
<1>11. ProcessesMatchWindows'
  <2>1. processes' \subseteq {Owner[w] : w \in Cached'}
    BY <1>3, <1>9
  <2>2. poll'.at # "processes" => poll'.fresh = {}
    BY <1>2
  <2> QED BY <1>10, <2>1, <2>2 DEF ProcessesMatchWindows, FreshCarried
<1> QED BY <1>5, <1>6, <1>7, <1>8, <1>10, <1>11 DEF Agreement

LEMMA NextHolds == IInv /\ [Next]_vars => IInv'
<1> SUFFICES ASSUME IInv, [Next]_vars PROVE IInv'
  OBVIOUS
<1>1. CASE ScreenChanges
  BY <1>1, ScreenChangesKeeps
<1>2. CASE WriteWindows
  <2>1. Asked'
    BY <1>2 DEF IInv, Asked, WriteWindows
  <2> QED BY <1>2, <2>1, WriteTyped, WriteAgrees DEF IInv
<1>3. CASE FetchWindows \/ FetchHandles \/ SyncFocus
  BY <1>3, FetchWindowsKeeps, FetchHandlesKeeps, SyncFocusKeeps
<1>4. ASSUME NEW p \in ProcessId, ObserveProcess(p) \/ ProcessRefused(p) PROVE IInv'
  BY <1>4, ProcessKeeps
<1>5. CASE ClientStep
  BY <1>5, AskRootKeeps, UpsertRootKeeps, SetRootKeeps, RootDestroyedKeeps DEF ClientStep
<1>6. CASE UNCHANGED vars
  <2>1. OnlyRoots /\ UNCHANGED <<screen, windows, elements, issued, client>>
    BY <1>6 DEF vars, registry, OnlyRoots
  <2>2. TypeOK'
    BY <2>1 DEF IInv, TypeOK, OnlyRoots, Cached
  <2> QED BY <2>1, <2>2, OnlyRootsKeeps DEF IInv, Asked
<1> QED BY <1>1, <1>2, <1>3, <1>4, <1>5, <1>6 DEF Next, PollStep

LEMMA Invariance == Spec => []IInv
BY InitHolds, NextHolds, PTL DEF Spec

\* Every variable has its type, and no window of the excluded process is cached, whatever a
\* screen lists: it is no longer than there are windows (polling.rs:101-126).
THEOREM TypesKept == Spec => []TypeOK
<1>1. IInv => TypeOK
  BY DEF IInv
<1> QED BY <1>1, Invariance, PTL

\* z_order is sorted by the z indexes the windows have now, though a poll that only changes a
\* window's focus does not sort it again (windows.rs:39-59, 93-97).
THEOREM ZOrderStaysSorted == Spec => []ZOrderIsFrontToBack
<1>1. IInv => ZOrderIsFrontToBack
  BY DEF IInv, Agreement
<1> QED BY <1>1, Invariance, PTL

\* Observers live as long as the windows of their processes (windows.rs:85-89, sync.rs:74-78).
THEOREM ProcessesFollowWindows == Spec => []ProcessesMatchWindows
<1>1. IInv => ProcessesMatchWindows
  BY DEF IInv, Agreement
<1> QED BY <1>1, Invariance, PTL

\* The focus set last is that of the windows written before it (polling.rs:214-217).
THEOREM FocusStaysCached == Spec => []FocusIsCached
<1>1. IInv => FocusIsCached
  BY DEF IInv, Agreement
<1> QED BY <1>1, Invariance, PTL

\* A subscriber that applied every window event holds the cached infos (windows.rs:40-61).
THEOREM SubscribersKnowWindows == Spec => []SubscriberKnowsWindows
<1>1. IInv => SubscriberKnowsWindows
  BY DEF IInv, Agreement
<1> QED BY <1>1, Invariance, PTL

----------------------------------------------------------------------------
(***************************************************************************)
(* The handle index.  A handle is read without the lock, for a window that *)
(* had none; nothing but the poll's own write gives it one until then.  If *)
(* no two windows match the same handle, nobody else can hold it either.   *)
(***************************************************************************)
DistinctMatches == \A v, w \in WindowId : v # w => Matches[v] \cap Matches[w] = {}

HandlesMatch ==
  /\ \A w \in Cached : windows[w].handle # None => windows[w].handle \in Matches[w]
  /\ poll.at = "write" => \A w \in WindowId :
       poll.handles[w] # None =>
         /\ poll.handles[w] \in Matches[w] /\ poll.polled[w] # None
         /\ windows[w] = None \/ windows[w].handle = None

IndexInv == HandlesMatch /\ WindowIndexInverse

\* Only the write of a poll changes handles and index, and only a fetch what is carried to it.
LEMMA HandlesStay ==
  ASSUME TypeOK, IndexInv, UNCHANGED by_handle,
         \A w \in WindowId :
           /\ (windows'[w] = None) = (windows[w] = None)
           /\ windows[w] # None => windows'[w].handle = windows[w].handle,
         poll'.at # "write" \/ poll' = poll
  PROVE  IndexInv'
<1>1. Cached' = Cached /\ Cached \subseteq WindowId
  BY DEF Cached
<1>2. \A w \in Cached : windows'[w].handle = windows[w].handle
  BY DEF Cached
<1>3. HandlesMatch'
  BY <1>1, <1>2 DEF IndexInv, HandlesMatch, Cached
<1>4. IndexNamesOwners'
  BY <1>1, <1>2 DEF IndexInv, WindowIndexInverse, IndexNamesOwners
<1>5. WindowsAreIndexed'
  BY <1>1, <1>2 DEF IndexInv, WindowIndexInverse, WindowsAreIndexed
<1> QED BY <1>3, <1>4, <1>5 DEF IndexInv, WindowIndexInverse

LEMMA FetchHandlesMatch == ASSUME TypeOK, IndexInv, FetchHandles PROVE IndexInv'
<1>1. PICK handles \in [WindowId -> Handle \cup {None}] :
        /\ \A w \in WindowId :
             IF /\ w \in NeedingHandle(poll.polled)
                /\ \E i \in DOMAIN screen : screen[i].id = w /\ screen[i].ax
             THEN handles[w] \in Matches[w] ELSE handles[w] = None
        /\ poll' = [poll EXCEPT !.at = "write", !.handles = handles]
  BY DEF FetchHandles
<1>2. UNCHANGED <<windows, by_handle>> /\ poll \in PollState
  BY DEF FetchHandles, registry, TypeOK, PollState
<1>3. poll'.handles = handles /\ poll'.polled = poll.polled
  BY <1>1, <1>2 DEF PollState
<1>4. HandlesMatch'
  BY <1>1, <1>2, <1>3 DEF IndexInv, HandlesMatch, NeedingHandle, Cached
<1>5. WindowIndexInverse'
  BY <1>2 DEF IndexInv, WindowIndexInverse, IndexNamesOwners, WindowsAreIndexed, Cached
<1> QED BY <1>4, <1>5 DEF IndexInv

LEMMA WriteIndexes ==
  ASSUME DistinctMatches, IInv, IndexInv, WriteWindows
  PROVE  IndexInv'
<1> DEFINE takers(h) == {w \in WindowId : poll.handles[w] = h}
           taker(h) == CHOOSE w \in takers(h) :
                         \A v \in takers(h) : poll.polled[v].z_index <= poll.polled[w].z_index
<1>1. /\ TypeOK /\ poll \in PollState /\ HandlesMatch /\ HandlesCarried /\ poll.at = "write"
      /\ IndexNamesOwners /\ WindowsAreIndexed
      /\ by_handle' = IndexWith(IndexWithout(Gone), poll.polled, poll.handles)
  BY DEF IInv, Agreement, IndexInv, WindowIndexInverse, TypeOK, PollState, WriteWindows, Gone
<1>2. /\ Cached' = {w \in WindowId : poll.polled[w] # None} \cup (Cached \ Gone)
      /\ Gone \subseteq Cached /\ Cached \subseteq WindowId
      /\ \A w \in Gone : poll.polled[w] = None
  BY <1>1, Written DEF Cached, Gone
<1>3. ASSUME NEW w \in WindowId, poll.handles[w] # None
      PROVE  /\ poll.handles[w] \in Matches[w] /\ w \in Cached' /\ w \notin Gone
             /\ windows'[w].handle = poll.handles[w]
             /\ windows[w] = None \/ windows[w].handle = None
  <2>1. poll.polled[w] # None
    BY <1>1, <1>3 DEF HandlesMatch
  <2> QED BY <1>1, <1>2, <1>3, <2>1, Written DEF HandlesMatch
<1>4. ASSUME NEW w \in Cached', poll.handles[w] = None, windows'[w].handle # None
      PROVE  w \in Cached \ Gone /\ windows'[w].handle = windows[w].handle
  <2>1. CASE poll.polled[w] # None
    <3>1. windows'[w].handle = IF poll.handles[w] # None \/ windows[w] = None
                               THEN poll.handles[w] ELSE windows[w].handle
      BY <1>1, <1>2, <2>1, Written
    <3>2. windows[w] # None
      BY <1>4, <3>1
    <3> QED BY <1>2, <1>4, <2>1, <3>1, <3>2 DEF Cached
  <2>2. CASE poll.polled[w] = None
    <3>1. w \in Cached \ Gone
      BY <1>2, <2>2
    <3> QED BY <1>1, <1>2, <2>2, <3>1, Written
  <2> QED BY <2>1, <2>2
<1>5. ASSUME NEW w \in Cached \ Gone, poll.handles[w] = None, windows[w].handle # None
      PROVE  w \in Cached' /\ windows'[w].handle = windows[w].handle
  <2>1. w \in WindowId /\ windows[w] # None /\ w \in Cached'
    BY <1>2 DEF Cached
  <2>2. CASE poll.polled[w] # None
    BY <1>1, <1>5, <2>1, <2>2, Written
  <2>3. CASE poll.polled[w] = None
    BY <1>1, <1>5, <2>1, <2>3, Written
  <2> QED BY <2>1, <2>2, <2>3
<1>6. HandlesMatch'
  <2>1. poll'.at # "write"
    BY DEF WriteWindows, Resting
  <2>2. ASSUME NEW w \in Cached', windows'[w].handle # None PROVE windows'[w].handle \in Matches[w]
    <3>1. CASE poll.handles[w] # None
      BY <1>2, <1>3, <2>2, <3>1
    <3>2. CASE poll.handles[w] = None
      BY <1>1, <1>4, <2>2, <3>2 DEF HandlesMatch
    <3> QED BY <3>1, <3>2
  <2> QED BY <2>1, <2>2 DEF HandlesMatch
\* A handle that is taken has one taker, and otherwise keeps its owner, if that is not gone.
<1>7. ASSUME NEW h \in Handle
      PROVE  /\ \A w \in takers(h) : by_handle'[h] = w
             /\ takers(h) = {} => by_handle'[h] = IF \E w \in Gone : windows[w].handle = h
                                                  THEN None ELSE by_handle[h]
  <2>1. by_handle'[h] = IF takers(h) = {} THEN IndexWithout(Gone)[h] ELSE taker(h)
    BY <1>1 DEF IndexWith
  <2>2. IndexWithout(Gone)[h] = IF \E w \in Gone : windows[w].handle = h THEN None ELSE by_handle[h]
    BY DEF IndexWithout
  <2>3. takers(h) # {} => taker(h) \in takers(h)
    BY <1>1, TakerExists
  <2>4. \A v, w \in takers(h) : v = w
    <3> TAKE v, w \in takers(h)
    <3>1. h \in Matches[v] /\ h \in Matches[w]
      BY <1>3, NoneIsNone
    <3> QED BY <3>1 DEF DistinctMatches
  <2> HIDE DEF takers, taker
  <2> QED BY <2>1, <2>2, <2>3, <2>4
<1>8. IndexNamesOwners'
  <2>1. ASSUME NEW h \in Handle, by_handle'[h] # None
        PROVE  by_handle'[h] \in Cached' /\ windows'[by_handle'[h]].handle = h
    <3>1. CASE takers(h) # {}
      <4>1. PICK w \in takers(h) : by_handle'[h] = w
        BY <1>7, <3>1
      <4>2. w \in WindowId /\ poll.handles[w] = h
        BY <4>1
      <4> QED BY <1>3, <4>1, <4>2, NoneIsNone
    <3>2. CASE takers(h) = {}
      <4> DEFINE v == by_handle[h]
      <4>1. by_handle'[h] = v /\ v # None /\ \A w \in Gone : windows[w].handle # h
        BY <1>7, <2>1, <3>2
      <4>2. v \in Cached /\ windows[v].handle = h
        BY <1>1, <4>1 DEF IndexNamesOwners
      <4>3. v \in Cached \ Gone /\ v \in WindowId /\ h # None
        BY <1>2, <4>1, <4>2, NoneIsNone
      <4>4. poll.handles[v] = None
        BY <1>3, <4>2, <4>3 DEF Cached
      <4> QED BY <1>5, <4>1, <4>2, <4>3, <4>4
    <3> QED BY <3>1, <3>2
  <2> QED BY <2>1 DEF IndexNamesOwners
<1>9. WindowsAreIndexed'
  <2>1. ASSUME NEW w \in Cached', windows'[w].handle # None
        PROVE  by_handle'[windows'[w].handle] = w
    <3> DEFINE h == windows'[w].handle
    <3>1. w \in WindowId /\ h \in Handle
      BY <1>1, <1>2, <2>1, Written DEF Cached, CachedWindow
    <3>2. CASE poll.handles[w] # None
      <4>1. w \in takers(h)
        BY <1>3, <3>1, <3>2
      <4> QED BY <1>7, <3>1, <4>1
    <3>3. CASE poll.handles[w] = None
      <4>1. w \in Cached \ Gone /\ h = windows[w].handle /\ by_handle[h] = w /\ h \in Matches[w]
        BY <1>1, <1>4, <2>1, <3>3 DEF WindowsAreIndexed, HandlesMatch
      <4>2. takers(h) = {}
        <5> SUFFICES ASSUME NEW v \in WindowId, poll.handles[v] = h PROVE FALSE
          OBVIOUS
        <5>1. h \in Matches[v] /\ v # w
          BY <1>3, <2>1, <3>3
        <5> QED BY <3>1, <4>1, <5>1 DEF DistinctMatches
      <4>3. ~ \E v \in Gone : windows[v].handle = h
        <5> SUFFICES ASSUME NEW v \in Gone, windows[v].handle = h PROVE FALSE
          OBVIOUS
        <5>1. v \in Cached /\ v \in WindowId /\ v # w /\ h \in Matches[v]
          BY <1>1, <1>2, <2>1, <4>1 DEF HandlesMatch
        <5> QED BY <3>1, <4>1, <5>1 DEF DistinctMatches
      <4> HIDE DEF takers, h
      <4> QED BY <1>7, <3>1, <4>1, <4>2, <4>3 DEF h
    <3> QED BY <3>2, <3>3
  <2> QED BY <2>1 DEF WindowsAreIndexed
<1> QED BY <1>6, <1>8, <1>9 DEF IndexInv, WindowIndexInverse

LEMMA IndexStep ==
  ASSUME DistinctMatches, IInv, IndexInv, [Next]_vars
  PROVE  IndexInv'
<1>0. TypeOK
  BY DEF IInv
<1>1. CASE WriteWindows
  BY <1>1, WriteIndexes
<1>2. CASE FetchHandles
  BY <1>0, <1>2, FetchHandlesMatch
<1>3. CASE FetchWindows \/ SyncFocus
  <2>1. UNCHANGED <<windows, by_handle>> /\ poll'.at # "write"
    <3>1. CASE FetchWindows
      <4>1. poll'.at = "handles"
        BY <3>1 DEF FetchWindows, Resting
      <4> QED BY <3>1, <4>1 DEF FetchWindows, registry
    <3>2. CASE SyncFocus
      BY <3>2 DEF SyncFocus, Resting
    <3> QED BY <1>3, <3>1, <3>2
  <2> QED BY <1>0, <2>1, HandlesStay
<1>4. ASSUME NEW p \in ProcessId, ObserveProcess(p) \/ ProcessRefused(p) PROVE IndexInv'
  <2>1. UNCHANGED <<windows, by_handle>> /\ ProcessDone(p) /\ poll.at = "processes" /\ poll \in PollState
    BY <1>0, <1>4 DEF ObserveProcess, ProcessRefused, registry, TypeOK, PollState
  <2>2. poll'.at \in {"processes", "focus"}
    BY <2>1 DEF ProcessDone, PollState
  <2> QED BY <1>0, <2>1, <2>2, HandlesStay
<1>5. CASE ScreenChanges \/ UNCHANGED vars
  BY <1>0, <1>5, HandlesStay DEF ScreenChanges, vars, registry
<1>6. CASE ClientStep
  <2>1. ASSUME NEW c \in Client, NEW w \in WindowId, AskRoot(c, w) PROVE IndexInv'
    BY <1>0, <2>1, HandlesStay DEF AskRoot, registry
  <2>2. ASSUME NEW c \in Client, UpsertRoot(c) PROVE IndexInv'
    BY <1>0, <2>2, HandlesStay DEF UpsertRoot
  <2>3. ASSUME NEW e \in ElementId, RootDestroyed(e) PROVE IndexInv'
    BY <1>0, <2>3, HandlesStay DEF RootDestroyed
  <2>4. ASSUME NEW c \in Client, SetRoot(c) PROVE IndexInv'
    <3> DEFINE w == client[c].window
    <3>1. /\ w \in WindowId /\ windows \in [WindowId -> CachedWindow \cup {None}]
          /\ UNCHANGED <<by_handle, poll>>
          /\ windows' = IF windows[w] = None THEN windows
                        ELSE [windows EXCEPT ![w].root = client[c].element]
      BY <1>0, <2>4 DEF SetRoot, IInv, Asked, TypeOK
    <3>2. CASE windows[w] = None
      BY <1>0, <3>1, <3>2, HandlesStay
    <3>3. CASE windows[w] # None
      <4>1. windows[w] \in CachedWindow
        BY <3>1, <3>3
      <4>2. PICK new : new = [windows[w] EXCEPT !.root = client[c].element]
        OBVIOUS
      <4>3. new.handle = windows[w].handle /\ new = [info |-> windows[w].info,
              handle |-> windows[w].handle, root |-> client[c].element]
        BY <4>1, <4>2 DEF CachedWindow
      <4>4. client[c].element \in ElementId
        BY <2>4 DEF SetRoot, IInv, Asked
      <4>5. new \in CachedWindow
        BY <4>1, <4>3, <4>4 DEF CachedWindow
      <4>6. windows' = [windows EXCEPT ![w] = new] /\ new # None
        BY <3>1, <3>3, <4>2, <4>5, NoneIsNone
      <4>7. \A v \in WindowId :
              /\ (windows'[v] = None) = (windows[v] = None)
              /\ windows[v] # None => windows'[v].handle = windows[v].handle
        BY <3>1, <3>3, <4>3, <4>6
      <4> QED BY <1>0, <3>1, <4>7, HandlesStay
    <3> QED BY <3>2, <3>3
  <2> QED BY <1>6, <2>1, <2>2, <2>3, <2>4 DEF ClientStep
<1> QED BY <1>1, <1>2, <1>3, <1>4, <1>5, <1>6 DEF Next, PollStep

(***************************************************************************)
(* "Indexes are always updated" (registry/mod.rs:6), if no accessibility   *)
(* element matches two windows by bounds: the index is the inverse of the  *)
(* windows' handles, though handles are read without the lock.             *)
(***************************************************************************)
THEOREM WindowIndexStaysInverse ==
  ASSUME DistinctMatches
  PROVE  Spec => []WindowIndexInverse
<1>1. Init => IndexInv
  BY DEF Init, IndexInv, HandlesMatch, WindowIndexInverse, IndexNamesOwners, WindowsAreIndexed,
         Cached, Resting
<1>2. IInv /\ IndexInv /\ [Next]_vars => IndexInv'
  BY IndexStep
<1>3. IndexInv => WindowIndexInverse
  BY DEF IndexInv
<1> QED BY <1>1, <1>2, <1>3, Invariance, PTL DEF Spec
=============================================================================
