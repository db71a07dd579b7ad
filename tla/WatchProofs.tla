----------------------------- MODULE WatchProofs -----------------------------
(***************************************************************************)
(* The life of watches, for any elements, handles, contexts and tasks: a   *)
(* handle has at most one watch, the registrations of the operating system *)
(* are those the watches own, and contexts live as long as their watches.  *)
(*                                                                         *)
(* A step moves a watch between a slot and a task, drops some, makes one   *)
(* or changes the notifications of one.  What the set of watches has to do *)
(* with the operating system and the context registry (Sound) is therefore *)
(* kept apart from who has which watch (OwnWatch, OwnElement).             *)
(***************************************************************************)
EXTENDS Watch, TLAPS

At == {"idle", "ensure", "create", "put", "putwatched", "add", "remove"}

Holder == ElementId \cup Task

\* Types, and what a task has in hand at each of its steps.
Typed ==
  /\ elements \in [ElementId -> Entry \cup {None}]
  /\ contexts \in [Context -> ElementId \cup {None}]
  /\ registered \in [Handle -> [Notif -> Context \cup {None}]]
  /\ task \in [Task -> [at : At, element : ElementId \cup {None},
                        watch : Handle \cup WatchHandle \cup {None}]]
  /\ \A t \in Task :
       /\ Holding(t) => task[t].watch \in WatchHandle
       /\ task[t].at = "create" => task[t].watch \in Handle
       /\ task[t].at # "idle" => task[t].element \in ElementId

\* A set of watches against the registrations and contexts there are: each watch has the
\* destruction registered, which is what keeps a second one for its handle away.
Sound(watches, reg, ctx) ==
  /\ watches \subseteq WatchHandle
  /\ \A w \in watches : "destroyed" \in w.notifs
  /\ \A v, w \in watches : v # w => v.handle # w.handle /\ v.context # w.context
  /\ \A h \in Handle, n \in Notif, c \in Context :
       reg[h][n] = c <=> \E w \in watches : w.handle = h /\ w.context = c /\ n \in w.notifs
  /\ \A c \in Context : ctx[c] # None <=> \E w \in watches : w.context = c

\* No two have the same watch.
OwnWatch == \A x, y \in Holder : x # y /\ WatchOf(x) # None => WatchOf(x) # WatchOf(y)

\* The element a holder's watch is for.
ElementOf(x) == IF x \in Task THEN task[x].element ELSE x

\* Wherever it is, a watch reports to its element, and has the element's handle as long as
\* that lives; so has the watch a task is about to make.
OwnElement ==
  /\ \A x \in Holder : WatchOf(x) # None =>
       /\ contexts[WatchOf(x).context] = ElementOf(x)
       /\ ElementOf(x) \in Live => WatchOf(x).handle = elements[ElementOf(x)].handle
  /\ \A t \in Task : task[t].at = "create" /\ task[t].element \in Live =>
       task[t].watch = elements[task[t].element].handle

IInv == Typed /\ Sound(Watches, registered, contexts) /\ OwnWatch /\ OwnElement

----------------------------------------------------------------------------
\* What the invariant says of the properties.
LEMMA InvariantImplies == IInv => OneWatchPerHandle /\ RegistrationsOwned /\ ContextsOwned
<1> SUFFICES ASSUME IInv PROVE OneWatchPerHandle /\ RegistrationsOwned /\ ContextsOwned
  OBVIOUS
<1>1. \A x \in Holder : WatchOf(x) # None => WatchOf(x) \in Watches
  BY DEF Watches, Holder
<1>2. OneWatchPerHandle
  BY <1>1 DEF OneWatchPerHandle, IInv, Sound, OwnWatch, Holder
<1>3. RegistrationsOwned
  BY DEF RegistrationsOwned, IInv, Sound
<1>4. \A e \in Live : e \notin Task /\ e \in Holder /\ WatchOf(e) = elements[e].watch /\ ElementOf(e) = e
  BY WatchAssumption DEF Live, WatchOf, ElementOf, Holder
<1>5. ContextsOwned
  <2>1. {c \in Context : contexts[c] # None} = {w.context : w \in Watches}
    BY DEF IInv, Sound, WatchHandle
  <2>2. ASSUME NEW e \in Live, elements[e].watch # None
        PROVE  contexts[elements[e].watch.context] = e /\ elements[e].watch.handle = elements[e].handle
    BY <1>4, <2>2 DEF IInv, OwnElement
  <2> QED BY <2>1, <2>2 DEF ContextsOwned
<1> QED BY <1>2, <1>3, <1>5

\* Some watches are dropped.
LEMMA DropIsSound ==
  ASSUME NEW watches, NEW ws \in SUBSET watches, Typed, Sound(watches, registered, contexts)
  PROVE  Sound(watches \ ws, UnregisteredBy(ws), FreedBy(ws))
<1> DEFINE reg == UnregisteredBy(ws)
           ctx == FreedBy(ws)
<1>1. \A h \in Handle, n \in Notif :
        reg[h][n] = IF \E w \in ws : w.handle = h /\ n \in w.notifs THEN None ELSE registered[h][n]
  BY DEF UnregisteredBy
<1>2. \A c \in Context : ctx[c] = IF \E w \in ws : w.context = c THEN None ELSE contexts[c]
  BY DEF FreedBy
<1> HIDE DEF reg, ctx
<1>3. ASSUME NEW h \in Handle, NEW n \in Notif, NEW c \in Context
      PROVE  reg[h][n] = c <=> \E w \in watches \ ws : w.handle = h /\ w.context = c /\ n \in w.notifs
  BY <1>1, WatchAssumption DEF Sound
<1>4. ASSUME NEW c \in Context
      PROVE  ctx[c] # None <=> \E w \in watches \ ws : w.context = c
  BY <1>2 DEF Sound
<1>5. Sound(watches \ ws, reg, ctx)
  BY <1>3, <1>4 DEF Sound
<1> QED BY <1>5 DEF reg, ctx

\* A watch is made of a free registration and a new context.
LEMMA MakeIsSound ==
  ASSUME Typed, NEW watches, Sound(watches, registered, contexts),
         NEW h \in Handle, NEW c \in Context, NEW e \in ElementId,
         NewContext(c), Registers(h, "destroyed")
  PROVE  /\ Sound(watches \cup {[handle |-> h, context |-> c, notifs |-> {"destroyed"}]},
                  [registered EXCEPT ![h]["destroyed"] = c], [contexts EXCEPT ![c] = e])
         /\ \A w \in watches : w.handle # h /\ w.context # c
<1> PICK new : new = [handle |-> h, context |-> c, notifs |-> {"destroyed"}]
  OBVIOUS
<1> DEFINE reg == [registered EXCEPT ![h]["destroyed"] = c]
           ctx == [contexts EXCEPT ![c] = e]
<1>1. new \in WatchHandle /\ new.handle = h /\ new.context = c /\ new.notifs = {"destroyed"}
  BY DEF WatchHandle, Notif
<1>2. \A w \in watches : w.handle # h /\ w.context # c
  <2> SUFFICES ASSUME NEW w \in watches PROVE w.handle # h /\ w.context # c
    OBVIOUS
  <2>1. w \in WatchHandle /\ "destroyed" \in w.notifs /\ w.handle \in Handle /\ w.context \in Context
    BY DEF Sound, WatchHandle
  <2>2. registered[w.handle]["destroyed"] = w.context
    BY <2>1 DEF Sound, Notif
  <2> QED BY <2>1, <2>2, WatchAssumption DEF NewContext, Registers, Sound
<1>3. \A k \in Handle, n \in Notif :
        reg[k][n] = IF k = h /\ n = "destroyed" THEN c ELSE registered[k][n]
  BY DEF Typed, Notif
<1>4. \A d \in Context : ctx[d] = IF d = c THEN e ELSE contexts[d]
  BY DEF Typed
<1> HIDE DEF reg, ctx
<1>5. ASSUME NEW k \in Handle, NEW n \in Notif, NEW d \in Context
      PROVE  reg[k][n] = d <=>
               \E w \in watches \cup {new} : w.handle = k /\ w.context = d /\ n \in w.notifs
  <2>1. CASE k = h /\ n = "destroyed"
    BY <1>1, <1>2, <1>3, <2>1
  <2>2. CASE ~(k = h /\ n = "destroyed")
    BY <1>1, <1>3, <2>2 DEF Sound
  <2> QED BY <2>1, <2>2
<1>6. ASSUME NEW d \in Context
      PROVE  ctx[d] # None <=> \E w \in watches \cup {new} : w.context = d
  BY <1>1, <1>4, WatchAssumption DEF Sound
<1>7. Sound(watches \cup {new}, reg, ctx)
  <2>1. watches \cup {new} \subseteq WatchHandle /\ \A w \in watches \cup {new} : "destroyed" \in w.notifs
    BY <1>1 DEF Sound
  <2>2. \A v, w \in watches : v # w => v.handle # w.handle /\ v.context # w.context
    BY DEF Sound
  <2>3. \A v, w \in watches \cup {new} : v # w => v.handle # w.handle /\ v.context # w.context
    BY <1>1, <1>2, <2>2
  <2> QED BY <1>5, <1>6, <2>1, <2>3 DEF Sound
<1> QED BY <1>2, <1>7 DEF reg, ctx

\* A watch gets one more notification, or one less.
LEMMA AddIsSound ==
  ASSUME Typed, NEW watches, Sound(watches, registered, contexts), NEW w \in watches,
         Registers(w.handle, "value")
  PROVE  Sound((watches \ {w}) \cup {[w EXCEPT !.notifs = @ \cup {"value"}]},
               [registered EXCEPT ![w.handle]["value"] = w.context], contexts)
<1> PICK new : new = [w EXCEPT !.notifs = @ \cup {"value"}]
  OBVIOUS
<1> DEFINE reg == [registered EXCEPT ![w.handle]["value"] = w.context]
<1>1. /\ new \in WatchHandle /\ new.handle = w.handle /\ new.context = w.context
      /\ new.notifs = w.notifs \cup {"value"}
  BY DEF WatchHandle, Notif, Sound
<1>2. w.handle \in Handle /\ w.context \in Context
  BY DEF Sound, WatchHandle
<1>3. \A k \in Handle, n \in Notif :
        reg[k][n] = IF k = w.handle /\ n = "value" THEN w.context ELSE registered[k][n]
  BY <1>2 DEF Typed, Notif
<1> HIDE DEF reg
<1>4. \A v \in watches \ {w} : v.handle # w.handle /\ v.context # w.context
  BY DEF Sound
<1>5. ASSUME NEW k \in Handle, NEW n \in Notif, NEW d \in Context
      PROVE  reg[k][n] = d <=>
               \E v \in (watches \ {w}) \cup {new} : v.handle = k /\ v.context = d /\ n \in v.notifs
  <2>1. CASE k = w.handle /\ n = "value"
    BY <1>1, <1>2, <1>3, <1>4, <2>1
  <2>2. CASE ~(k = w.handle /\ n = "value")
    <3>1. registered[k][n] = d <=> \E v \in watches : v.handle = k /\ v.context = d /\ n \in v.notifs
      BY DEF Sound
    <3>2. k = w.handle => (n \in new.notifs <=> n \in w.notifs)
      BY <1>1, <2>2
    <3>3. reg[k][n] = registered[k][n]
      BY <1>3, <2>2
    <3>4. new.handle = w.handle /\ new.context = w.context
      BY <1>1
    <3> QED BY <3>1, <3>2, <3>3, <3>4
  <2> QED BY <2>1, <2>2
<1>6. ASSUME NEW d \in Context
      PROVE  contexts[d] # None <=> \E v \in (watches \ {w}) \cup {new} : v.context = d
  <2>1. contexts[d] # None <=> \E v \in watches : v.context = d
    BY DEF Sound
  <2> QED BY <1>1, <2>1
<1>7. Sound((watches \ {w}) \cup {new}, reg, contexts)
  <2>1. /\ (watches \ {w}) \cup {new} \subseteq WatchHandle
        /\ \A v \in (watches \ {w}) \cup {new} : "destroyed" \in v.notifs
    BY <1>1 DEF Sound
  <2>2. \A u, v \in watches : u # v => u.handle # v.handle /\ u.context # v.context
    BY DEF Sound
  <2>3. \A u, v \in (watches \ {w}) \cup {new} : u # v => u.handle # v.handle /\ u.context # v.context
    <3>1. \A v \in watches \ {w} : new.handle # v.handle /\ new.context # v.context
      BY <1>1, <1>4
    <3> QED BY <2>2, <3>1
  <2> QED BY <1>5, <1>6, <2>1, <2>3 DEF Sound
<1> QED BY <1>7 DEF reg

LEMMA RemoveIsSound ==
  ASSUME Typed, NEW watches, Sound(watches, registered, contexts), NEW w \in watches
  PROVE  Sound((watches \ {w}) \cup {[w EXCEPT !.notifs = @ \ {"value"}]},
               UnregisteredBy({[w EXCEPT !.notifs = @ \cap {"value"}]}), contexts)
<1> PICK new : new = [w EXCEPT !.notifs = @ \ {"value"}]
  OBVIOUS
<1> PICK old : old = [w EXCEPT !.notifs = @ \cap {"value"}]
  OBVIOUS
<1> DEFINE reg == UnregisteredBy({old})
<1>1. /\ new \in WatchHandle /\ new.handle = w.handle /\ new.context = w.context
      /\ new.notifs = w.notifs \ {"value"}
      /\ old.handle = w.handle /\ old.notifs = w.notifs \cap {"value"}
  BY DEF WatchHandle, Notif, Sound
<1>2. w.handle \in Handle /\ w.context \in Context
  BY DEF Sound, WatchHandle
<1>3. \A k \in Handle, n \in Notif :
        reg[k][n] = IF k = w.handle /\ n = "value" /\ n \in w.notifs THEN None ELSE registered[k][n]
  BY <1>1 DEF UnregisteredBy
<1> HIDE DEF reg
<1>4. \A v \in watches \ {w} : v.handle # w.handle /\ v.context # w.context
  BY DEF Sound
<1>5. ASSUME NEW k \in Handle, NEW n \in Notif, NEW d \in Context
      PROVE  reg[k][n] = d <=>
               \E v \in (watches \ {w}) \cup {new} : v.handle = k /\ v.context = d /\ n \in v.notifs
  <2>1. CASE k = w.handle /\ n = "value"
    <3>1. reg[k][n] # d
      BY <1>2, <1>3, <1>4, <2>1, WatchAssumption DEF Sound
    <3> QED BY <1>1, <1>4, <2>1, <3>1
  <2>2. CASE ~(k = w.handle /\ n = "value")
    <3>1. registered[k][n] = d <=> \E v \in watches : v.handle = k /\ v.context = d /\ n \in v.notifs
      BY DEF Sound
    <3>2. k = w.handle => (n \in new.notifs <=> n \in w.notifs)
      BY <1>1, <2>2
    <3>3. reg[k][n] = registered[k][n]
      BY <1>3, <2>2
    <3>4. new.handle = w.handle /\ new.context = w.context
      BY <1>1
    <3> QED BY <3>1, <3>2, <3>3, <3>4
  <2> QED BY <2>1, <2>2
<1>6. ASSUME NEW d \in Context
      PROVE  contexts[d] # None <=> \E v \in (watches \ {w}) \cup {new} : v.context = d
  <2>1. contexts[d] # None <=> \E v \in watches : v.context = d
    BY DEF Sound
  <2> QED BY <1>1, <2>1
<1>7. Sound((watches \ {w}) \cup {new}, reg, contexts)
  <2>1. /\ (watches \ {w}) \cup {new} \subseteq WatchHandle
        /\ \A v \in (watches \ {w}) \cup {new} : "destroyed" \in v.notifs
    BY <1>1 DEF Sound
  <2>2. \A u, v \in watches : u # v => u.handle # v.handle /\ u.context # v.context
    BY DEF Sound
  <2>3. \A u, v \in (watches \ {w}) \cup {new} : u # v => u.handle # v.handle /\ u.context # v.context
    <3>1. \A v \in watches \ {w} : new.handle # v.handle /\ new.context # v.context
      BY <1>1, <1>4
    <3> QED BY <2>2, <3>1
  <2> QED BY <1>5, <1>6, <2>1, <2>3 DEF Sound
<1> QED BY <1>7 DEF reg
----------------------------------------------------------------------------
\* Who has which watch, after a step that moves, drops, makes or changes them.
LEMMA WatchesAreTyped == Typed => \A x \in Holder : WatchOf(x) \in WatchHandle \cup {None}
BY WatchAssumption DEF Typed, WatchOf, Holder, Entry

LEMMA WatchesKept ==
  ASSUME OwnWatch, \A x \in Holder : WatchOf(x)' = WatchOf(x)
  PROVE  Watches' = Watches /\ OwnWatch'
BY DEF Watches, OwnWatch, Holder

LEMMA WatchMoved ==
  ASSUME OwnWatch, NEW x \in Holder, NEW y \in Holder, x # y, WatchOf(y) = None,
         WatchOf(x)' = None, WatchOf(y)' = WatchOf(x),
         \A z \in Holder \ {x, y} : WatchOf(z)' = WatchOf(z)
  PROVE  Watches' = Watches /\ OwnWatch'
<1>1. Watches' \subseteq Watches
  BY DEF Watches, Holder
<1>2. Watches \subseteq Watches'
  BY DEF Watches, Holder
<1>3. OwnWatch'
  BY DEF OwnWatch, Holder
<1> QED BY <1>1, <1>2, <1>3

LEMMA WatchesDropped ==
  ASSUME OwnWatch, NEW gone \in SUBSET Holder,
         \A x \in Holder : WatchOf(x)' = IF x \in gone THEN None ELSE WatchOf(x)
  PROVE  Watches' = Watches \ ({WatchOf(x) : x \in gone} \ {None}) /\ OwnWatch'
<1>1. Watches' \subseteq Watches \ ({WatchOf(x) : x \in gone} \ {None})
  BY DEF Watches, Holder, OwnWatch
<1>2. Watches \ ({WatchOf(x) : x \in gone} \ {None}) \subseteq Watches'
  BY DEF Watches, Holder
<1>3. OwnWatch'
  BY DEF OwnWatch, Holder
<1> QED BY <1>1, <1>2, <1>3

LEMMA WatchChanged ==
  ASSUME OwnWatch, NEW x \in Holder, NEW new, new # None, WatchOf(x)' = new,
         \A y \in Holder \ {x} : WatchOf(y)' = WatchOf(y) /\ WatchOf(y) # new
  PROVE  Watches' = (Watches \ {WatchOf(x)}) \cup {new} /\ OwnWatch'
<1>1. Watches' \subseteq (Watches \ {WatchOf(x)}) \cup {new}
  BY DEF Watches, Holder, OwnWatch
<1>2. (Watches \ {WatchOf(x)}) \cup {new} \subseteq Watches'
  BY DEF Watches, Holder
<1>3. OwnWatch'
  BY DEF OwnWatch, Holder
<1> QED BY <1>1, <1>2, <1>3

----------------------------------------------------------------------------
LEMMA InitHolds == Init => IInv
<1> SUFFICES ASSUME Init PROVE IInv
  OBVIOUS
<1>1. Typed
  BY DEF Init, Typed, Idle, Holding, At
<1>2. \A x \in Holder : WatchOf(x) = None
  BY DEF Init, WatchOf, Holding, Idle, Holder
<1>3. Watches = {}
  BY <1>2 DEF Watches, Holder
<1>4. Sound(Watches, registered, contexts)
  BY <1>3, WatchAssumption DEF Sound, Init
<1>5. OwnWatch /\ OwnElement
  BY <1>2 DEF OwnWatch, OwnElement, Init, Idle
<1> QED BY <1>1, <1>4, <1>5 DEF IInv

\* A task without a watch goes on to another step without one.
LEMMA TaskGoesOn ==
  ASSUME IInv, NEW t \in Task, ~Holding(t), NEW job, task' = [task EXCEPT ![t] = job],
         job \in [at : {"idle", "ensure", "create"}, element : ElementId \cup {None},
                  watch : Handle \cup {None}],
         job.at # "idle" => job.element \in ElementId,
         job.at = "create" => job.watch \in Handle,
         job.at = "create" /\ job.element \in Live => job.watch = elements[job.element].handle,
         UNCHANGED <<elements, contexts, registered>>
  PROVE  IInv'
<1>1. \A u \in Task : task'[u] = IF u = t THEN job ELSE task[u]
  BY DEF IInv, Typed
<1>2. \A u \in Task : Holding(u)' <=> Holding(u)
  BY <1>1 DEF Holding
<1>3. \A x \in Holder : WatchOf(x)' = WatchOf(x)
  BY <1>1, <1>2 DEF WatchOf, Holder
<1>4. Watches' = Watches /\ OwnWatch'
  BY <1>3, WatchesKept DEF IInv
<1>5. Typed'
  BY <1>1, <1>2 DEF IInv, Typed, At, Holding
<1>6. \A x \in Holder : WatchOf(x)' # None => ElementOf(x)' = ElementOf(x)
  BY <1>1, <1>3 DEF WatchOf, ElementOf, Holder
<1>7. OwnElement'
  BY <1>1, <1>3, <1>6 DEF IInv, OwnElement, Live
<1>8. Sound(Watches, registered, contexts)'
  BY <1>4 DEF IInv, Sound
<1> QED BY <1>4, <1>5, <1>7, <1>8 DEF IInv

\* A task at rest may go on to have one of these elements watched.
EnsuresOneOf(fresh) ==
  \/ UNCHANGED task
  \/ \E t \in Task, e \in fresh :
       /\ task[t].at = "idle"
       /\ task' = [task EXCEPT ![t] = [Idle EXCEPT !.at = "ensure", !.element = e]]

\* Entries leave the cache, with the watches in their slots, and others come, which no task
\* and no context mentions; a task may go on to have one of them watched.
LEMMA EntriesChange ==
  ASSUME IInv, NEW gone \in SUBSET Live, NEW fresh \in SUBSET ElementId,
         \A e \in fresh : NewElement(e),
         elements' \in [ElementId -> Entry \cup {None}],
         \A e \in ElementId \ fresh : elements'[e] = IF e \in gone THEN None ELSE elements[e],
         \A e \in fresh : elements'[e] # None /\ elements'[e].watch = None,
         registered' = UnregisteredBy(WatchesIn(gone)),
         contexts' = FreedBy(WatchesIn(gone)),
         EnsuresOneOf(fresh)
  PROVE  IInv'
<1> DEFINE jobs == [Task -> [at : At, element : ElementId \cup {None},
                            watch : Handle \cup WatchHandle \cup {None}]]
           Starts(u) == /\ task[u].at = "idle"
                        /\ task'[u].at = "ensure" /\ task'[u].element \in ElementId
<1>0. task \in jobs
  BY DEF IInv, Typed
<1>1. \A u \in Task : task'[u] = task[u] \/ Starts(u)
  <2>1. CASE UNCHANGED task
    BY <2>1
  <2>2. ASSUME NEW t \in Task, NEW e \in fresh, task[t].at = "idle",
               task' = [task EXCEPT ![t] = [Idle EXCEPT !.at = "ensure", !.element = e]]
        PROVE  \A u \in Task : task'[u] = task[u] \/ Starts(u)
    BY <1>0, <2>2 DEF Idle
  <2> QED BY <2>1, <2>2 DEF EnsuresOneOf
<1>2. task' \in jobs
  <2>1. CASE UNCHANGED task
    BY <1>0, <2>1
  <2>2. ASSUME NEW t \in Task, NEW e \in fresh, task[t].at = "idle",
               task' = [task EXCEPT ![t] = [Idle EXCEPT !.at = "ensure", !.element = e]]
        PROVE  task' \in jobs
    BY <1>0, <2>2 DEF Idle, At
  <2> QED BY <2>1, <2>2 DEF EnsuresOneOf
<1>3. \A u \in Task : WatchOf(u)' = WatchOf(u)
  BY <1>1 DEF WatchOf, Holding
<1>4. \A e \in ElementId : WatchOf(e)' = IF e \in gone THEN None ELSE WatchOf(e)
  BY WatchAssumption DEF WatchOf, Live, NewElement
<1>5. \A x \in Holder : WatchOf(x)' = IF x \in gone THEN None ELSE WatchOf(x)
  BY <1>3, <1>4, WatchAssumption DEF Holder, Live
<1>6. gone \in SUBSET Holder /\ WatchesIn(gone) = {WatchOf(x) : x \in gone} \ {None}
  <2>1. \A e \in gone : e \in Holder /\ WatchOf(e) = elements[e].watch
    BY WatchAssumption DEF Holder, Live, WatchOf
  <2> QED BY <2>1 DEF WatchesIn
<1>7. Watches' = Watches \ WatchesIn(gone) /\ OwnWatch'
  BY <1>5, <1>6, WatchesDropped DEF IInv
<1>8. WatchesIn(gone) \subseteq Watches
  BY <1>6 DEF Watches, Holder
<1>9. Sound(Watches, registered, contexts)'
  <2>1. Sound(Watches \ WatchesIn(gone), UnregisteredBy(WatchesIn(gone)), FreedBy(WatchesIn(gone)))
    BY <1>8, DropIsSound DEF IInv
  <2> QED BY <1>7, <2>1 DEF Sound
<1>10. Typed'
  <2>1. contexts' \in [Context -> ElementId \cup {None}]
    BY DEF IInv, Typed, FreedBy
  <2>2. registered' \in [Handle -> [Notif -> Context \cup {None}]]
    BY DEF IInv, Typed, UnregisteredBy
  <2>3. \A u \in Task : /\ Holding(u)' => task'[u].watch \in WatchHandle
                        /\ task'[u].at = "create" => task'[u].watch \in Handle
                        /\ task'[u].at # "idle" => task'[u].element \in ElementId
    BY <1>1 DEF IInv, Typed, Holding
  <2> QED BY <1>2, <2>1, <2>2, <2>3 DEF Typed
<1>11. ASSUME NEW x \in Holder, WatchOf(x)' # None
       PROVE  /\ contexts'[WatchOf(x)'.context] = ElementOf(x)'
              /\ ElementOf(x)' \in Live' => WatchOf(x)'.handle = elements'[ElementOf(x)'].handle
  <2>1. x \notin gone /\ WatchOf(x)' = WatchOf(x) /\ WatchOf(x) \in Watches'
    BY <1>5, <1>11 DEF Watches, Holder
  <2>2. ElementOf(x)' = ElementOf(x)
    BY <1>1, <2>1, <1>11 DEF ElementOf, WatchOf, Holding, Holder
  <2>3. WatchOf(x) \in WatchHandle /\ WatchOf(x).context \in Context
    BY <2>1, <1>11, WatchesAreTyped DEF IInv, WatchHandle
  <2>4. contexts'[WatchOf(x).context] = contexts[WatchOf(x).context]
    BY <1>9, <2>1, <2>3 DEF FreedBy, Sound
  <2>5. ElementOf(x) \notin fresh
    BY <2>1, <2>3, <1>11 DEF NewElement, IInv, OwnElement
  <2>6. ElementOf(x) \in ElementId
    BY <1>11, <2>1 DEF ElementOf, Holder, WatchOf, Holding, IInv, Typed
  <2>7. ElementOf(x) \in Live' => ElementOf(x) \in Live /\ elements'[ElementOf(x)] = elements[ElementOf(x)]
    BY <2>5, <2>6 DEF Live
  <2> QED BY <1>11, <2>1, <2>2, <2>4, <2>7 DEF IInv, OwnElement
<1>12. ASSUME NEW t \in Task, task'[t].at = "create", task'[t].element \in Live'
       PROVE  task'[t].watch = elements'[task'[t].element].handle
  <2>1. task'[t] = task[t]
    BY <1>1, <1>12
  <2>2. task[t].element \in ElementId \ fresh
    BY <2>1, <1>12 DEF NewElement, IInv, Typed
  <2>3. elements'[task[t].element] = elements[task[t].element] /\ task[t].element \in Live
    BY <2>1, <2>2, <1>12 DEF Live
  <2> QED BY <2>1, <2>3, <1>12 DEF IInv, OwnElement
<1>13. OwnElement'
  BY <1>11, <1>12 DEF OwnElement
<1> QED BY <1>7, <1>9, <1>10, <1>13 DEF IInv
\* A task takes the watch out of a slot, if there is one.
LEMMA TakenHolds ==
  ASSUME IInv, NEW t \in Task, NEW e \in Live, NEW at \in {"add", "remove"},
         task[t].at = "idle", elements' = TakenFrom(e),
         task' = IF elements[e].watch = None THEN task
                 ELSE [task EXCEPT ![t] = [at |-> at, element |-> e, watch |-> elements[e].watch]],
         UNCHANGED <<contexts, registered>>
  PROVE  IInv'
<1>1. e \in ElementId /\ elements[e] \in Entry /\ e # t /\ e \in Holder /\ t \in Holder
  BY WatchAssumption DEF Live, Holder, IInv, Typed
<1>2. /\ elements' \in [ElementId -> Entry \cup {None}]
      /\ \A x \in ElementId : /\ elements'[x] # None <=> elements[x] # None
                              /\ x # e => elements'[x] = elements[x]
      /\ elements'[e].handle = elements[e].handle /\ elements'[e].watch = None
  BY <1>1, WatchAssumption DEF TakenFrom, Entry, IInv, Typed
<1>3. WatchOf(e) = elements[e].watch /\ WatchOf(e)' = None /\ WatchOf(t) = None
  BY <1>1, <1>2, WatchAssumption DEF WatchOf, Holding, Live
<1>4. CASE elements[e].watch = None
  <2>1. elements' = elements
    BY <1>1, <1>2, <1>4 DEF Entry, IInv, Typed, TakenFrom
  <2>2. task' = task
    BY <1>4
  <2>3. \A x \in Holder : WatchOf(x)' = WatchOf(x) /\ ElementOf(x)' = ElementOf(x)
    BY <2>1, <2>2 DEF WatchOf, Holding, ElementOf
  <2>4. Watches' = Watches /\ OwnWatch'
    BY <2>3, WatchesKept DEF IInv
  <2>5. Sound(Watches, registered, contexts)'
    BY <2>4 DEF IInv, Sound
  <2>6. OwnElement'
    BY <2>1, <2>2, <2>3 DEF IInv, OwnElement, Live
  <2>7. Typed'
    BY <2>1, <2>2 DEF IInv, Typed, Holding
  <2> QED BY <2>4, <2>5, <2>6, <2>7 DEF IInv
<1>5. CASE elements[e].watch # None
  <2> PICK job : job = [at |-> at, element |-> e, watch |-> elements[e].watch]
    OBVIOUS
  <2>1. \A u \in Task : task'[u] = IF u = t THEN job ELSE task[u]
    BY <1>5 DEF IInv, Typed
  <2>2. elements[e].watch \in WatchHandle
    BY <1>1, <1>5 DEF Entry
  <2>3. Typed'
    <3>1. task' \in [Task -> [at : At, element : ElementId \cup {None},
                             watch : Handle \cup WatchHandle \cup {None}]]
      BY <1>1, <1>5, <2>2 DEF IInv, Typed, At
    <3>2. \A u \in Task : /\ Holding(u)' => task'[u].watch \in WatchHandle
                          /\ task'[u].at = "create" => task'[u].watch \in Handle
                          /\ task'[u].at # "idle" => task'[u].element \in ElementId
      BY <1>1, <2>1, <2>2 DEF IInv, Typed, Holding
    <3> QED BY <1>2, <3>1, <3>2 DEF Typed, IInv
  <2>4. WatchOf(t)' = WatchOf(e)
    BY <1>3, <2>1 DEF WatchOf, Holding
  <2>5. \A x \in Holder \ {e, t} : WatchOf(x)' = WatchOf(x) /\ ElementOf(x)' = ElementOf(x)
    BY <1>2, <2>1 DEF WatchOf, Holding, Holder, ElementOf
  <2>6. Watches' = Watches /\ OwnWatch'
    BY <1>1, <1>3, <2>4, <2>5, WatchMoved DEF IInv
  <2>7. Sound(Watches, registered, contexts)'
    BY <2>6 DEF IInv, Sound
  <2>8. ElementOf(t)' = e /\ ElementOf(e) = e
    BY <1>1, <2>1, WatchAssumption DEF ElementOf
  <2>9. ASSUME NEW x \in Holder, WatchOf(x)' # None
        PROVE  /\ contexts'[WatchOf(x)'.context] = ElementOf(x)'
               /\ ElementOf(x)' \in Live' => WatchOf(x)'.handle = elements'[ElementOf(x)'].handle
    <3>1. PICK y \in Holder : WatchOf(y) = WatchOf(x)' /\ ElementOf(y) = ElementOf(x)' /\ WatchOf(y) # None
      BY <1>1, <1>3, <2>4, <2>5, <2>8, <2>9
    <3>2. ElementOf(y) \in Live' => ElementOf(y) \in Live /\ elements'[ElementOf(y)].handle = elements[ElementOf(y)].handle
      BY <1>2 DEF Live
    <3> QED BY <3>1, <3>2 DEF IInv, OwnElement
  <2>10. ASSUME NEW u \in Task, task'[u].at = "create", task'[u].element \in Live'
         PROVE  task'[u].watch = elements'[task'[u].element].handle
    <3>1. task'[u] = task[u]
      BY <2>1, <2>10
    <3>2. task[u].element \in Live /\ elements'[task[u].element].handle = elements[task[u].element].handle
      BY <1>2, <3>1, <2>10 DEF Live
    <3> QED BY <3>1, <3>2, <2>10 DEF IInv, OwnElement
  <2>11. OwnElement'
    BY <2>9, <2>10 DEF OwnElement
  <2> QED BY <2>3, <2>6, <2>7, <2>11 DEF IInv
<1> QED BY <1>4, <1>5

\* What t comes to hold, a watch it made or one with other notifications, is sound and its own.
Holds(t, new) ==
  /\ task[t].at # "idle" /\ UNCHANGED elements
  /\ contexts' \in [Context -> ElementId \cup {None}]
  /\ registered' \in [Handle -> [Notif -> Context \cup {None}]]
  /\ Sound((Watches \ {WatchOf(t)}) \cup {new}, registered', contexts')
  /\ \A x \in Holder \ {t} : WatchOf(x) # None =>
       WatchOf(x) # new /\ contexts'[WatchOf(x).context] = contexts[WatchOf(x).context]
  /\ contexts'[new.context] = task[t].element
  /\ task[t].element \in Live => new.handle = elements[task[t].element].handle

\* A task has made a watch, or has changed the notifications of the one it holds.
LEMMA HeldChanges ==
  ASSUME IInv, NEW t \in Task, NEW at \in {"put", "putwatched"}, NEW new \in WatchHandle,
         task' = [task EXCEPT ![t].at = at, ![t].watch = new], Holds(t, new)
  PROVE  IInv'
<1>1. /\ task'[t].at = at /\ task'[t].element = task[t].element /\ task'[t].watch = new
      /\ \A u \in Task : u # t => task'[u] = task[u]
  BY DEF IInv, Typed
<1>2. t \in Holder /\ task[t].element \in ElementId /\ new # None
  BY WatchAssumption DEF Holds, Holder, IInv, Typed
<1>3. Typed'
  <2>1. task' \in [Task -> [at : At, element : ElementId \cup {None},
                           watch : Handle \cup WatchHandle \cup {None}]]
    <3> DEFINE job == [at : At, element : ElementId \cup {None},
                       watch : Handle \cup WatchHandle \cup {None}]
    <3>0. task \in [Task -> job] /\ task[t] \in job /\ at \in At
      BY DEF IInv, Typed, At
    <3>1. [task[t] EXCEPT !.at = at, !.watch = new] \in job
      BY <3>0
    <3>2. task' = [task EXCEPT ![t] = [task[t] EXCEPT !.at = at, !.watch = new]]
      BY <3>0
    <3> HIDE DEF job
    <3>3. task' \in [Task -> job]
      BY <3>0, <3>1, <3>2
    <3> QED BY <3>3 DEF job
  <2>2. \A u \in Task : /\ Holding(u)' => task'[u].watch \in WatchHandle
                        /\ task'[u].at = "create" => task'[u].watch \in Handle
                        /\ task'[u].at # "idle" => task'[u].element \in ElementId
    BY <1>1, <1>2 DEF IInv, Typed, Holding
  <2> QED BY <2>1, <2>2 DEF Holds, Typed, IInv
<1>4. WatchOf(t)' = new /\ ElementOf(t)' = task[t].element
  BY <1>1 DEF WatchOf, Holding, ElementOf
<1>5. \A x \in Holder \ {t} : WatchOf(x)' = WatchOf(x) /\ ElementOf(x)' = ElementOf(x)
  <2> SUFFICES ASSUME NEW x \in Holder, x # t
               PROVE  WatchOf(x)' = WatchOf(x) /\ ElementOf(x)' = ElementOf(x)
    OBVIOUS
  <2>1. x \in Task => task'[x] = task[x]
    BY <1>1
  <2>2. elements' = elements
    BY DEF Holds
  <2> QED BY <2>1, <2>2 DEF WatchOf, Holding, ElementOf
<1>6. Watches' = (Watches \ {WatchOf(t)}) \cup {new} /\ OwnWatch'
  <2>1. \A x \in Holder \ {t} : WatchOf(x)' = WatchOf(x) /\ WatchOf(x) # new
    BY <1>2, <1>5 DEF Holds
  <2> QED BY <1>2, <1>4, <2>1, WatchChanged DEF IInv
<1>7. Sound(Watches, registered, contexts)'
  BY <1>6 DEF Holds, Sound
<1>8. OwnElement'
  <2>1. \A u \in Task : task'[u].at = "create" => task'[u] = task[u]
    BY <1>1
  <2>2. \A x \in Holder : WatchOf(x)' # None =>
          /\ contexts'[WatchOf(x)'.context] = ElementOf(x)'
          /\ ElementOf(x)' \in Live => WatchOf(x)'.handle = elements[ElementOf(x)'].handle
    BY <1>4, <1>5 DEF Holds, OwnElement, IInv
  <2>3. Live' = Live
    BY DEF Holds, Live
  <2>4. \A u \in Task : task[u].at = "create" /\ task[u].element \in Live =>
          task[u].watch = elements[task[u].element].handle
    BY DEF OwnElement, IInv
  <2>5. ASSUME NEW u \in Task, task'[u].at = "create", task'[u].element \in Live'
        PROVE  task'[u].watch = elements'[task'[u].element].handle
    <3>1. task'[u] = task[u]
      BY <2>1, <2>5
    <3>2. task[u].element \in Live
      BY <2>3, <2>5, <3>1
    <3> QED BY <2>4, <2>5, <3>1, <3>2 DEF Holds
  <2> QED BY <2>2, <2>3, <2>5 DEF OwnElement, Holds
<1> QED BY <1>3, <1>6, <1>7, <1>8 DEF IInv

LEMMA CreatesHolds == ASSUME IInv, NEW t \in Task, EnsureCreates(t) PROVE IInv'
<1> PICK h : h = task[t].watch
  OBVIOUS
<1>1. h \in Handle /\ task[t].at = "create" /\ ~Holding(t) /\ task[t].element \in ElementId
  BY DEF EnsureCreates, IInv, Typed, Holding
<1>2. PICK c \in Context :
        /\ NewContext(c) /\ Registers(h, "destroyed")
        /\ contexts' = [contexts EXCEPT ![c] = task[t].element]
        /\ registered' = [registered EXCEPT ![h]["destroyed"] = c]
        /\ task' = [task EXCEPT ![t].at = "put",
                      ![t].watch = [handle |-> h, context |-> c, notifs |-> {"destroyed"}]]
        /\ elements' = elements
  BY DEF EnsureCreates
<1> PICK new : new = [handle |-> h, context |-> c, notifs |-> {"destroyed"}]
  OBVIOUS
<1>3. new \in WatchHandle /\ new.handle = h /\ new.context = c
  BY <1>1 DEF WatchHandle, Notif
<1>4. task' = [task EXCEPT ![t].at = "put", ![t].watch = new]
  BY <1>2
<1>5. /\ Sound(Watches \cup {new}, registered', contexts')
      /\ \A w \in Watches : w.handle # h /\ w.context # c
  BY <1>1, <1>2, MakeIsSound DEF IInv
<1>6. WatchOf(t) = None /\ None \notin Watches
  BY <1>1 DEF WatchOf, Watches
<1>7. Sound((Watches \ {WatchOf(t)}) \cup {new}, registered', contexts')
  <2>1. (Watches \ {WatchOf(t)}) \cup {new} = Watches \cup {new}
    BY <1>6
  <2> QED BY <1>5, <2>1
<1>8. \A x \in Holder \ {t} : WatchOf(x) # None =>
        WatchOf(x) # new /\ contexts'[WatchOf(x).context] = contexts[WatchOf(x).context]
  <2>1. \A x \in Holder : WatchOf(x) # None => WatchOf(x) \in Watches
    BY DEF Watches, Holder
  <2> QED BY <1>2, <1>3, <1>5, <2>1 DEF IInv, Typed
<1>9. /\ contexts' \in [Context -> ElementId \cup {None}]
      /\ registered' \in [Handle -> [Notif -> Context \cup {None}]]
      /\ contexts'[new.context] = task[t].element
  BY <1>1, <1>2, <1>3 DEF IInv, Typed, Notif
<1>10. task[t].element \in Live => new.handle = elements[task[t].element].handle
  BY <1>1, <1>3 DEF IInv, OwnElement
<1>11. UNCHANGED elements /\ task[t].at # "idle"
  BY <1>1, <1>2
<1>12. Holds(t, new)
  BY <1>7, <1>8, <1>9, <1>10, <1>11 DEF Holds
<1> QED BY <1>3, <1>4, <1>12, HeldChanges
\* What a task holds.
LEMMA HeldIsOwned ==
  ASSUME IInv, NEW t \in Task, Holding(t)
  PROVE  /\ WatchOf(t) = task[t].watch /\ task[t].watch \in WatchHandle /\ task[t].watch \in Watches
         /\ task[t].element \in ElementId
         /\ contexts[task[t].watch.context] = task[t].element
         /\ task[t].element \in Live => task[t].watch.handle = elements[task[t].element].handle
         /\ \A x \in Holder \ {t} : WatchOf(x) # None =>
              WatchOf(x).handle # task[t].watch.handle /\ WatchOf(x).context # task[t].watch.context
<1>1. /\ WatchOf(t) = task[t].watch /\ task[t].watch \in WatchHandle /\ task[t].watch # None
      /\ task[t].element \in ElementId /\ t \in Holder /\ ElementOf(t) = task[t].element
  BY WatchAssumption DEF WatchOf, IInv, Typed, Holding, Holder, ElementOf
<1>2. \A x \in Holder : WatchOf(x) # None => WatchOf(x) \in Watches
  BY DEF Watches, Holder
<1>3. \A x \in Holder \ {t} : WatchOf(x) # None => WatchOf(x) # WatchOf(t)
  BY <1>1 DEF IInv, OwnWatch
<1>4. \A x \in Holder \ {t} : WatchOf(x) # None =>
        WatchOf(x).handle # task[t].watch.handle /\ WatchOf(x).context # task[t].watch.context
  BY <1>1, <1>2, <1>3 DEF IInv, Sound
<1> QED BY <1>1, <1>2, <1>4 DEF IInv, OwnElement

\* The watch it holds comes back with other notifications.
LEMMA NotifsChange ==
  ASSUME IInv, NEW t \in Task, Holding(t), NEW at \in {"put", "putwatched"}, NEW notifs \in SUBSET Notif,
         task' = [task EXCEPT ![t].at = at, ![t].watch = [@ EXCEPT !.notifs = notifs]],
         UNCHANGED <<elements, contexts>>,
         registered' \in [Handle -> [Notif -> Context \cup {None}]],
         Sound((Watches \ {task[t].watch}) \cup {[task[t].watch EXCEPT !.notifs = notifs]}, registered', contexts)
  PROVE  IInv'
<1> PICK new : new = [task[t].watch EXCEPT !.notifs = notifs]
  OBVIOUS
<1>1. task[t].watch \in WatchHandle
  BY HeldIsOwned
<1>2. new \in WatchHandle /\ new.handle = task[t].watch.handle /\ new.context = task[t].watch.context
  BY <1>1 DEF WatchHandle
<1>3. task' = [task EXCEPT ![t].at = at, ![t].watch = new]
  OBVIOUS
<1>4. contexts' = contexts /\ contexts' \in [Context -> ElementId \cup {None}]
  BY DEF IInv, Typed
<1>5. Sound((Watches \ {WatchOf(t)}) \cup {new}, registered', contexts')
  BY <1>4, HeldIsOwned
<1>6. \A x \in Holder \ {t} : WatchOf(x) # None =>
        WatchOf(x) # new /\ contexts'[WatchOf(x).context] = contexts[WatchOf(x).context]
  BY <1>2, <1>4, HeldIsOwned
<1>7. contexts'[new.context] = task[t].element
  BY <1>2, <1>4, HeldIsOwned
<1>8. task[t].element \in Live => new.handle = elements[task[t].element].handle
  BY <1>2, HeldIsOwned
<1>9. UNCHANGED elements /\ task[t].at # "idle"
  BY DEF Holding
<1>10. contexts' \in [Context -> ElementId \cup {None}]
  BY <1>4
<1>11. new \in WatchHandle
  BY <1>2
<1>12. Holds(t, new)
  BY <1>4, <1>5, <1>6, <1>7, <1>8, <1>9, <1>10 DEF Holds
<1> QED BY <1>3, <1>11, <1>12, HeldChanges

LEMMA AddsHolds == ASSUME IInv, NEW t \in Task, WatchAdds(t) PROVE IInv'
<1> PICK w : w = task[t].watch
  OBVIOUS
<1>1. Holding(t) /\ w \in WatchHandle /\ w \in Watches /\ UNCHANGED <<elements, contexts>>
  BY HeldIsOwned DEF WatchAdds, Holding
<1>2. w.handle \in Handle /\ w.context \in Context /\ w.notifs \in SUBSET Notif
  BY <1>1 DEF WatchHandle
<1>3. CASE /\ Registers(w.handle, "value")
           /\ registered' = [registered EXCEPT ![w.handle]["value"] = w.context]
           /\ task' = [task EXCEPT ![t].at = "putwatched", ![t].watch.notifs = @ \cup {"value"}]
  <2> PICK notifs : notifs = w.notifs \cup {"value"}
    OBVIOUS
  <2>1. notifs \in SUBSET Notif
    BY <1>2 DEF Notif
  <2>2. task' = [task EXCEPT ![t].at = "putwatched", ![t].watch = [@ EXCEPT !.notifs = notifs]]
    BY <1>3 DEF IInv, Typed
  <2>3. Sound((Watches \ {w}) \cup {[w EXCEPT !.notifs = notifs]}, registered', contexts)
    BY <1>1, <1>3, AddIsSound DEF IInv
  <2>4. registered' \in [Handle -> [Notif -> Context \cup {None}]]
    BY <1>2, <1>3 DEF IInv, Typed, Notif
  <2> QED BY <1>1, <2>1, <2>2, <2>3, <2>4, NotifsChange
<1>4. CASE task' = [task EXCEPT ![t].at = "putwatched"] /\ UNCHANGED registered
  <2>1. [w EXCEPT !.notifs = w.notifs] = w
    BY <1>1 DEF WatchHandle
  <2>2. task' = [task EXCEPT ![t].at = "putwatched", ![t].watch = [@ EXCEPT !.notifs = w.notifs]]
    BY <1>4, <2>1 DEF IInv, Typed
  <2>3. (Watches \ {w}) \cup {[w EXCEPT !.notifs = w.notifs]} = Watches
    BY <1>1, <2>1
  <2>4. Sound((Watches \ {w}) \cup {[w EXCEPT !.notifs = w.notifs]}, registered', contexts)
    BY <1>4, <2>3 DEF IInv
  <2>5. registered' \in [Handle -> [Notif -> Context \cup {None}]]
    BY <1>4 DEF IInv, Typed
  <2> QED BY <1>1, <1>2, <2>2, <2>4, <2>5, NotifsChange
<1> QED BY <1>3, <1>4 DEF WatchAdds

LEMMA RemovesHolds == ASSUME IInv, NEW t \in Task, UnwatchRemoves(t) PROVE IInv'
<1> PICK w : w = task[t].watch
  OBVIOUS
<1>1. Holding(t) /\ w \in WatchHandle /\ w \in Watches /\ UNCHANGED <<elements, contexts>>
  BY HeldIsOwned DEF UnwatchRemoves, Holding
<1> PICK notifs : notifs = w.notifs \ {"value"}
  OBVIOUS
<1>2. notifs \in SUBSET Notif
  BY <1>1 DEF WatchHandle
<1>3. task' = [task EXCEPT ![t].at = "put", ![t].watch = [@ EXCEPT !.notifs = notifs]]
  BY DEF UnwatchRemoves, IInv, Typed
<1>4. registered' = UnregisteredBy({[w EXCEPT !.notifs = @ \cap {"value"}]})
  BY DEF UnwatchRemoves
<1>5. Sound((Watches \ {w}) \cup {[w EXCEPT !.notifs = notifs]}, registered', contexts)
  BY <1>1, <1>4, RemoveIsSound DEF IInv
<1>6. registered' \in [Handle -> [Notif -> Context \cup {None}]]
  BY <1>4 DEF IInv, Typed, UnregisteredBy
<1> QED BY <1>1, <1>2, <1>3, <1>5, <1>6, NotifsChange
\* Putting a watch back: the slot is empty, for the watch in it would have the same handle;
\* or the element is gone, and the watch with it.
LEMMA PutBackHolds == ASSUME IInv, NEW t \in Task, PutBack(t) PROVE IInv'
<1> PICK w : w = task[t].watch
  OBVIOUS
<1> PICK e : e = task[t].element
  OBVIOUS
<1>1. /\ Holding(t) /\ w \in WatchHandle /\ w \in Watches /\ w # None /\ WatchOf(t) = w
      /\ e \in ElementId /\ e \in Holder /\ t \in Holder /\ e # t
  BY HeldIsOwned, WatchAssumption DEF PutBack, Holding, Holder
<1>2. task' = [task EXCEPT ![t] = Idle]
  BY DEF PutBack
<1>3. \A u \in Task : task'[u] = IF u = t THEN Idle ELSE task[u]
  BY <1>2 DEF IInv, Typed
<1>4. /\ task' \in [Task -> [at : At, element : ElementId \cup {None},
                            watch : Handle \cup WatchHandle \cup {None}]]
      /\ \A u \in Task : /\ Holding(u)' => task'[u].watch \in WatchHandle
                         /\ task'[u].at = "create" => task'[u].watch \in Handle
                         /\ task'[u].at # "idle" => task'[u].element \in ElementId
  <2>1. Idle \in [at : At, element : ElementId \cup {None}, watch : Handle \cup WatchHandle \cup {None}]
    BY DEF Idle, At
  <2>2. task' \in [Task -> [at : At, element : ElementId \cup {None},
                           watch : Handle \cup WatchHandle \cup {None}]]
    BY <1>2, <2>1 DEF IInv, Typed
  <2> QED BY <1>3, <2>2 DEF IInv, Typed, Holding, Idle
<1>5. WatchOf(t)' = None
  BY <1>3 DEF WatchOf, Holding, Idle
<1>6. \A u \in Task : u # t => WatchOf(u)' = WatchOf(u) /\ ElementOf(u)' = ElementOf(u)
  BY <1>3 DEF WatchOf, Holding, ElementOf
<1>7. \A x \in ElementId : x \notin Task /\ ElementOf(x)' = x /\ ElementOf(x) = x
  BY WatchAssumption DEF ElementOf
<1>8. CASE e \in Live
  <2>1. elements[e] \in Entry /\ WatchOf(e) = elements[e].watch
    BY <1>1, <1>8, <1>7 DEF IInv, Typed, WatchOf, Live
  <2>2. elements[e].watch = None
    <3>1. SUFFICES ASSUME elements[e].watch # None PROVE FALSE
      OBVIOUS
    <3>2. WatchOf(e).handle = elements[e].handle
      BY <1>1, <1>7, <1>8, <2>1, <3>1 DEF IInv, OwnElement
    <3>3. w.handle = elements[e].handle
      BY <1>1, <1>8, HeldIsOwned
    <3>4. WatchOf(e).handle # w.handle
      BY <1>1, <2>1, <3>1, HeldIsOwned
    <3> QED BY <3>2, <3>3, <3>4
  <2>3. elements' = [elements EXCEPT ![e].watch = w] /\ registered' = UnregisteredBy({}) /\ contexts' = FreedBy({})
    BY <1>8, <2>2 DEF PutBack
  <2>4. registered' = registered /\ contexts' = contexts
    BY <2>3 DEF UnregisteredBy, FreedBy, IInv, Typed
  <2>5. /\ elements' \in [ElementId -> Entry \cup {None}]
        /\ \A x \in ElementId : elements'[x] # None <=> elements[x] # None
        /\ \A x \in ElementId : x # e => elements'[x] = elements[x]
        /\ elements'[e].watch = w /\ elements'[e].handle = elements[e].handle
    BY <1>1, <2>1, <2>3, WatchAssumption DEF IInv, Typed, Entry
  <2>6. WatchOf(e) = None /\ WatchOf(e)' = w
    BY <1>1, <1>7, <1>8, <2>1, <2>2, <2>5 DEF WatchOf, Live
  <2>7. \A x \in Holder \ {e, t} : WatchOf(x)' = WatchOf(x) /\ ElementOf(x)' = ElementOf(x)
    <3>1. \A x \in ElementId : x # e => WatchOf(x)' = WatchOf(x)
      BY <1>7, <2>5 DEF WatchOf
    <3> QED BY <1>6, <1>7, <3>1 DEF Holder
  <2>8. Watches' = Watches /\ OwnWatch'
    <3>1. WatchOf(e)' = WatchOf(t) /\ t # e
      BY <1>1, <2>6
    <3>2. \A x \in Holder \ {t, e} : WatchOf(x)' = WatchOf(x)
      BY <2>7
    <3> QED BY <1>1, <1>5, <2>6, <3>1, <3>2, WatchMoved DEF IInv
  <2>9. Sound(Watches, registered, contexts)'
    BY <2>4, <2>8 DEF IInv, Sound
  <2>10. Typed'
    BY <1>4, <2>4, <2>5 DEF IInv, Typed
  <2>11. ASSUME NEW x \in Holder, WatchOf(x)' # None
         PROVE  /\ contexts'[WatchOf(x)'.context] = ElementOf(x)'
                /\ ElementOf(x)' \in Live' => WatchOf(x)'.handle = elements'[ElementOf(x)'].handle
    <3>1. ElementOf(t) = e
      BY DEF ElementOf
    <3>2. PICK y \in Holder : WatchOf(y) = WatchOf(x)' /\ ElementOf(y) = ElementOf(x)' /\ WatchOf(y) # None
      BY <1>1, <1>5, <1>7, <2>6, <2>7, <2>11, <3>1
    <3>3. ElementOf(y) \in Live' => ElementOf(y) \in Live /\ elements'[ElementOf(y)].handle = elements[ElementOf(y)].handle
      BY <2>5 DEF Live
    <3> QED BY <2>4, <3>2, <3>3 DEF IInv, OwnElement
  <2>12. ASSUME NEW u \in Task, task'[u].at = "create", task'[u].element \in Live'
         PROVE  task'[u].watch = elements'[task'[u].element].handle
    <3>1. task'[u] = task[u]
      BY <1>3, <2>12 DEF Idle
    <3>2. task[u].element \in Live /\ elements'[task[u].element].handle = elements[task[u].element].handle
      BY <2>5, <2>12, <3>1 DEF Live
    <3> QED BY <2>12, <3>1, <3>2 DEF IInv, OwnElement
  <2>13. OwnElement'
    BY <2>11, <2>12 DEF OwnElement
  <2> QED BY <2>8, <2>9, <2>10, <2>13 DEF IInv
<1>9. CASE e \notin Live
  <2>1. elements' = elements /\ registered' = UnregisteredBy({w}) /\ contexts' = FreedBy({w})
    BY <1>9 DEF PutBack
  <2>2. \A x \in ElementId : WatchOf(x)' = WatchOf(x)
    BY <1>7, <2>1 DEF WatchOf
  <2>3. \A x \in Holder : x # t => WatchOf(x)' = WatchOf(x) /\ ElementOf(x)' = ElementOf(x)
    BY <1>6, <1>7, <2>2 DEF Holder
  <2>4. Watches' = Watches \ {w} /\ OwnWatch'
    <3>1. \A x \in Holder : WatchOf(x)' = IF x \in {t} THEN None ELSE WatchOf(x)
      BY <1>5, <2>3
    <3>2. {WatchOf(x) : x \in {t}} \ {None} = {w} /\ {t} \in SUBSET Holder
      BY <1>1
    <3> QED BY <3>1, <3>2, WatchesDropped DEF IInv
  <2>5. Sound(Watches, registered, contexts)'
    <3>1. Sound(Watches \ {w}, UnregisteredBy({w}), FreedBy({w}))
      BY <1>1, DropIsSound DEF IInv
    <3>2. Sound(Watches', registered', contexts')
      BY <2>1, <2>4, <3>1
    <3> QED BY <3>2 DEF Sound
  <2>6. Typed'
    <3>1. contexts' \in [Context -> ElementId \cup {None}]
      BY <2>1 DEF IInv, Typed, FreedBy
    <3>2. registered' \in [Handle -> [Notif -> Context \cup {None}]]
      BY <2>1 DEF IInv, Typed, UnregisteredBy
    <3> QED BY <1>4, <2>1, <3>1, <3>2 DEF IInv, Typed
  <2>7. ASSUME NEW x \in Holder, WatchOf(x)' # None
        PROVE  /\ contexts'[WatchOf(x)'.context] = ElementOf(x)'
               /\ ElementOf(x)' \in Live => WatchOf(x)'.handle = elements[ElementOf(x)'].handle
    <3>1. x # t /\ WatchOf(x)' = WatchOf(x) /\ ElementOf(x)' = ElementOf(x) /\ WatchOf(x) # None
      BY <1>5, <2>3, <2>7
    <3>2. WatchOf(x) \in WatchHandle /\ WatchOf(x).context \in Context
      BY <3>1, WatchesAreTyped DEF IInv, WatchHandle
    <3>3. WatchOf(x).context # w.context
      BY <1>1, <3>1, HeldIsOwned
    <3>4. contexts'[WatchOf(x).context] = contexts[WatchOf(x).context]
      BY <2>1, <3>2, <3>3 DEF FreedBy
    <3> QED BY <3>1, <3>4 DEF IInv, OwnElement
  <2>8. ASSUME NEW u \in Task, task'[u].at = "create", task'[u].element \in Live
        PROVE  task'[u].watch = elements[task'[u].element].handle
    <3>1. task'[u] = task[u]
      BY <1>3, <2>8 DEF Idle
    <3> QED BY <2>8, <3>1 DEF IInv, OwnElement
  <2>9. Live' = Live
    BY <2>1 DEF Live
  <2>10. OwnElement'
    BY <2>1, <2>7, <2>8, <2>9 DEF OwnElement
  <2> QED BY <2>4, <2>5, <2>6, <2>10 DEF IInv
<1> QED BY <1>8, <1>9

----------------------------------------------------------------------------
LEMMA TaskStepHolds == ASSUME IInv, NEW t \in Task, TaskStep(t) PROVE IInv'
<1>1. ASSUME NEW e \in ElementId, UpsertKnown(t, e) PROVE IInv'
  <2> PICK job : job = [Idle EXCEPT !.at = "ensure", !.element = e]
    OBVIOUS
  <2>1. /\ job.at = "ensure" /\ job.element = e
        /\ job \in [at : {"idle", "ensure", "create"}, element : ElementId \cup {None},
                    watch : Handle \cup {None}]
    BY DEF Idle
  <2>2. /\ ~Holding(t) /\ task' = [task EXCEPT ![t] = job]
        /\ UNCHANGED <<elements, contexts, registered>>
    BY <1>1 DEF UpsertKnown, Holding
  <2> QED BY <2>1, <2>2, TaskGoesOn
<1>2. ASSUME NEW e \in ElementId, WatchTakes(t, e) PROVE IInv'
  <2>1. /\ e \in Live /\ task[t].at = "idle" /\ elements' = TakenFrom(e)
        /\ UNCHANGED <<contexts, registered>>
        /\ task' = IF elements[e].watch = None THEN task
                   ELSE [task EXCEPT ![t] = [at |-> "add", element |-> e, watch |-> elements[e].watch]]
    BY <1>2 DEF WatchTakes
  <2> QED BY <2>1, TakenHolds
<1>3. ASSUME NEW e \in ElementId, UnwatchTakes(t, e) PROVE IInv'
  <2>1. /\ e \in Live /\ task[t].at = "idle" /\ elements' = TakenFrom(e)
        /\ UNCHANGED <<contexts, registered>>
        /\ task' = IF elements[e].watch = None THEN task
                   ELSE [task EXCEPT ![t] = [at |-> "remove", element |-> e, watch |-> elements[e].watch]]
    BY <1>3 DEF UnwatchTakes
  <2> QED BY <2>1, TakenHolds
<1>4. ASSUME NEW e \in ElementId, NEW h \in Handle, UpsertNew(t, e, h) PROVE IInv'
  <2>1. NewEntry(h) \in Entry /\ NewEntry(h).watch = None /\ e \notin Live /\ NewElement(e)
    BY <1>4 DEF NewEntry, Entry, UpsertNew, NewElement
  <2>2. elements' = [elements EXCEPT ![e] = NewEntry(h)] /\ UNCHANGED <<registered, contexts>>
    BY <1>4 DEF UpsertNew
  <2>3. /\ elements' \in [ElementId -> Entry \cup {None}]
        /\ \A x \in ElementId \ {e} : elements'[x] = IF x \in {} THEN None ELSE elements[x]
        /\ \A x \in {e} : elements'[x] # None /\ elements'[x].watch = None
    BY <2>1, <2>2, WatchAssumption DEF IInv, Typed
  <2>4. registered' = UnregisteredBy(WatchesIn({})) /\ contexts' = FreedBy(WatchesIn({}))
    BY <2>2 DEF UnregisteredBy, FreedBy, WatchesIn, IInv, Typed
  <2>5. EnsuresOneOf({e})
    BY <1>4 DEF EnsuresOneOf, UpsertNew
  <2>6. \A x \in {e} : NewElement(x)
    BY <2>1
  <2> QED BY <2>3, <2>4, <2>5, <2>6, EntriesChange
<1>5. ASSUME NEW e \in ElementId, NEW fresh \in ElementId, Reparent(t, e, fresh) PROVE IInv'
  <2>1. PICK below \in SUBSET (Live \ {e}) :
          /\ elements' = [Without(below \cup {e}) EXCEPT ![fresh] = NewEntry(elements[e].handle)]
          /\ registered' = UnregisteredBy(WatchesIn(below \cup {e}))
          /\ contexts' = FreedBy(WatchesIn(below \cup {e}))
    BY <1>5 DEF Reparent
  <2> PICK gone : gone = below \cup {e}
    OBVIOUS
  <2>2. gone \in SUBSET Live /\ elements[e] \in Entry
    BY <1>5 DEF Reparent, Live, IInv, Typed
  <2>3. NewEntry(elements[e].handle) \in Entry /\ NewEntry(elements[e].handle).watch = None
    BY <2>2 DEF NewEntry, Entry
  <2>4. /\ elements' \in [ElementId -> Entry \cup {None}]
        /\ \A x \in ElementId \ {fresh} : elements'[x] = IF x \in gone THEN None ELSE elements[x]
        /\ \A x \in {fresh} : elements'[x] # None /\ elements'[x].watch = None
    BY <2>1, <2>3, WatchAssumption DEF IInv, Typed, Without
  <2>5. EnsuresOneOf({fresh})
    BY <1>5 DEF EnsuresOneOf, Reparent
  <2>6. \A x \in {fresh} : NewElement(x)
    BY <1>5 DEF Reparent
  <2>7. registered' = UnregisteredBy(WatchesIn(gone)) /\ contexts' = FreedBy(WatchesIn(gone))
    BY <2>1
  <2> QED BY <2>2, <2>4, <2>5, <2>6, <2>7, EntriesChange
<1>6. ASSUME EnsureReads(t) PROVE IInv'
  <2> PICK e : e = task[t].element
    OBVIOUS
  <2>1. /\ ~Holding(t) /\ e \in ElementId
        /\ task[t] \in [at : At, element : ElementId \cup {None}, watch : Handle \cup WatchHandle \cup {None}]
        /\ UNCHANGED <<elements, contexts, registered>>
    BY <1>6 DEF EnsureReads, Holding, IInv, Typed
  <2>2. CASE e \in Live /\ elements[e].watch = None
    <3> PICK job : job = [at |-> "create", element |-> e, watch |-> elements[e].handle]
      OBVIOUS
    <3>1. elements[e].handle \in Handle
      BY <2>1, <2>2 DEF Live, IInv, Typed, Entry
    <3>2. [task[t] EXCEPT !.at = "create", !.watch = elements[e].handle] = job
      <4> PICK new : new = [task[t] EXCEPT !.at = "create", !.watch = elements[e].handle]
        OBVIOUS
      <4>1. new = [at |-> "create", element |-> task[t].element, watch |-> elements[e].handle]
        BY <2>1
      <4> QED BY <4>1
    <3>3. task' = [task EXCEPT ![t] = job]
      BY <1>6, <2>2, <3>2 DEF EnsureReads
    <3>4. /\ job \in [at : {"idle", "ensure", "create"}, element : ElementId \cup {None},
                       watch : Handle \cup {None}]
          /\ job.element \in ElementId /\ job.watch \in Handle
          /\ job.watch = elements[job.element].handle
      BY <2>1, <3>1
    <3> QED BY <2>1, <3>3, <3>4, TaskGoesOn
  <2>3. CASE ~(e \in Live /\ elements[e].watch = None)
    <3>1. task' = [task EXCEPT ![t] = Idle]
      BY <1>6, <2>3 DEF EnsureReads
    <3>2. /\ Idle \in [at : {"idle", "ensure", "create"}, element : ElementId \cup {None},
                       watch : Handle \cup {None}]
          /\ Idle.at = "idle"
      BY DEF Idle
    <3> QED BY <2>1, <3>1, <3>2, TaskGoesOn
  <2> QED BY <2>2, <2>3
<1>7. ASSUME EnsureFails(t) PROVE IInv'
  <2>1. /\ ~Holding(t) /\ task' = [task EXCEPT ![t] = Idle]
        /\ UNCHANGED <<elements, contexts, registered>>
    BY <1>7 DEF EnsureFails, Holding
  <2>2. /\ Idle \in [at : {"idle", "ensure", "create"}, element : ElementId \cup {None},
                     watch : Handle \cup {None}]
        /\ Idle.at = "idle"
    BY DEF Idle
  <2> QED BY <2>1, <2>2, TaskGoesOn
<1> QED BY <1>1, <1>2, <1>3, <1>4, <1>5, <1>6, <1>7, CreatesHolds, AddsHolds, RemovesHolds, PutBackHolds
       DEF TaskStep

LEMMA NextHolds == IInv /\ [Next]_vars => IInv'
<1> SUFFICES ASSUME IInv, [Next]_vars PROVE IInv'
  OBVIOUS
<1>1. ASSUME NEW t \in Task, TaskStep(t) PROVE IInv'
  BY <1>1, TaskStepHolds
<1>2. ASSUME NEW e \in ElementId, NEW h \in Handle, SweepDiscovers(e, h) PROVE IInv'
  <2>1. NewEntry(h) \in Entry /\ NewEntry(h).watch = None /\ NewElement(e)
    BY <1>2 DEF NewEntry, Entry, SweepDiscovers
  <2>2. elements' = [elements EXCEPT ![e] = NewEntry(h)] /\ UNCHANGED <<registered, contexts, task>>
    BY <1>2 DEF SweepDiscovers
  <2>3. /\ elements' \in [ElementId -> Entry \cup {None}]
        /\ \A x \in ElementId \ {e} : elements'[x] = IF x \in {} THEN None ELSE elements[x]
        /\ \A x \in {e} : elements'[x] # None /\ elements'[x].watch = None
    BY <2>1, <2>2, WatchAssumption DEF IInv, Typed
  <2>4. registered' = UnregisteredBy(WatchesIn({})) /\ contexts' = FreedBy(WatchesIn({}))
    BY <2>2 DEF UnregisteredBy, FreedBy, WatchesIn, IInv, Typed
  <2>5. EnsuresOneOf({e})
    BY <2>2 DEF EnsuresOneOf
  <2>6. \A x \in {e} : NewElement(x)
    BY <2>1
  <2> QED BY <2>3, <2>4, <2>5, <2>6, EntriesChange
<1>3. ASSUME Handles PROVE IInv'
  <2> PICK e : e = callback.element
    OBVIOUS
  <2>1. PICK below \in SUBSET (Live \ {e}) :
          LET gone == IF e \in Live THEN below \cup {e} ELSE {}
          IN  /\ elements' = Without(gone)
              /\ registered' = UnregisteredBy(WatchesIn(gone))
              /\ contexts' = FreedBy(WatchesIn(gone))
    BY <1>3 DEF Handles
  <2> PICK gone : gone = IF e \in Live THEN below \cup {e} ELSE {}
    OBVIOUS
  <2>2. gone \in SUBSET Live
    OBVIOUS
  <2>3. /\ elements' \in [ElementId -> Entry \cup {None}]
        /\ \A x \in ElementId \ {} : elements'[x] = IF x \in gone THEN None ELSE elements[x]
    BY <2>1 DEF IInv, Typed, Without
  <2>4. EnsuresOneOf({})
    BY <1>3 DEF EnsuresOneOf, Handles
  <2>5. registered' = UnregisteredBy(WatchesIn(gone)) /\ contexts' = FreedBy(WatchesIn(gone))
    BY <2>1
  <2> QED BY <2>2, <2>3, <2>4, <2>5, EntriesChange
<1>4. ASSUME UNCHANGED <<elements, contexts, registered, task>> PROVE IInv'
  BY <1>4 DEF IInv, Typed, Holding, Sound, Watches, WatchOf, OwnWatch, OwnElement, ElementOf, Live
<1> QED BY <1>1, <1>2, <1>3, <1>4 DEF Next, Notified, LooksUp, vars

----------------------------------------------------------------------------
THEOREM InvariantHolds == Spec => []IInv
BY InitHolds, NextHolds, PTL DEF Spec

(***************************************************************************)
(* A handle never has two watches, in the cache or in flight, so putting   *)
(* one back never replaces another (subscriptions.rs:46-47).               *)
(***************************************************************************)
THEOREM HandleHasOneWatch == Spec => []OneWatchPerHandle
BY InvariantHolds, InvariantImplies, PTL

(***************************************************************************)
(* The operating system's registrations are always those the watches       *)
(* believe to own (notifications.rs:28, 82-96).                            *)
(***************************************************************************)
THEOREM NoRegistrationLeaks == Spec => []RegistrationsOwned
BY InvariantHolds, InvariantImplies, PTL

(***************************************************************************)
(* A context lives as long as its watch, and the watch in a slot reports   *)
(* to the slot's element (observer.rs:81-106).                             *)
(***************************************************************************)
THEOREM ContextsLiveWithWatches == Spec => []ContextsOwned
BY InvariantHolds, InvariantImplies, PTL
=============================================================================
