---------------------------- MODULE EventStream ----------------------------
(***************************************************************************)
(* How a client's mirror of the elements follows the cache: the events of  *)
(* the registry, the server task that forwards them, a connection's queue  *)
(* and its request loop, and the client (crates/allio/src/core/mod.rs,     *)
(* crates/allio-ws/src/server.rs, packages/allio-client/src/allio.ts).     *)
(*                                                                         *)
(* An element is reduced to one value, which stands for all that its       *)
(* events carry.  A message is applied to the mirror when it is sent: the  *)
(* socket keeps the order, and nothing the client does in between depends  *)
(* on the delay.  The only request modelled is "snapshot", the only one    *)
(* whose answer changes the mirror; a client has one at a time.            *)
(***************************************************************************)
EXTENDS Naturals, Sequences

CONSTANTS Client, ElementId, Value, None,
          EventCapacity,   \* EVENT_CHANNEL_CAPACITY
          ClientCapacity   \* DEFAULT_CHANNEL_CAPACITY

ASSUME EventStreamAssumption ==
  /\ EventCapacity \in Nat \ {0} /\ ClientCapacity \in Nat \ {0}
  /\ None \notin Value \cup ElementId

VARIABLES
  cache,       \* what build_element reports of each element; None if not cached
  issued,      \* the ids that were given out
  focus,       \* the element a focus change is about to announce
  events,      \* the registry's event channel, as the forwarder sees it
  overflowed,  \* it has lost events the forwarder had not received
  forwarder,   \* the task spawned by start_server
  server,      \* handle_websocket of each connection
  queue,       \* its receiver of the json channel
  lagged,      \* it has lost events
  mirror,      \* the elements map of each client
  trust        \* how far the mirror can be trusted, see below

registry == <<cache, issued, focus>>
channel == <<events, overflowed>>
connection == <<server, queue, lagged, mirror, trust>>
vars == <<registry, channel, forwarder, connection>>

Nothing == [e \in ElementId |-> None]

\* A removal reports None.  A focus change may report what is no longer so.
Event == [id : ElementId, reports : Value \cup {None}, late : BOOLEAN]

Closed == [at |-> "closed", snapshot |-> Nothing, wanted |-> FALSE, passed |-> FALSE]

NoFocus == [id |-> None, value |-> None]

Init ==
  /\ cache = Nothing
  /\ issued = {}
  /\ focus = NoFocus
  /\ events = <<>>
  /\ overflowed = FALSE
  /\ forwarder = "running"
  /\ server = [c \in Client |-> Closed]
  /\ queue = [c \in Client |-> <<>>]
  /\ lagged = [c \in Client |-> FALSE]
  /\ mirror = [c \in Client |-> Nothing]
  /\ trust = [c \in Client |-> "none"]

----------------------------------------------------------------------------
\* In a full channel the oldest event makes room
Pushed(q, event, capacity) ==
  Append(IF Len(q) < capacity THEN q ELSE Tail(q), event)

\* try_broadcast; without the forwarder nobody receives
Emit(event) ==
  IF forwarder = "stopped" THEN UNCHANGED channel
  ELSE /\ events' = Pushed(events, event, EventCapacity)
       /\ overflowed' = (overflowed \/ Len(events) = EventCapacity)

Report(e, v) == [id |-> e, reports |-> v, late |-> FALSE]

\* Events are sent under the registry's write lock, with the change they report
AddElement(e, v) ==
  /\ e \notin issued
  /\ cache' = [cache EXCEPT ![e] = v]
  /\ issued' = issued \cup {e}
  /\ Emit(Report(e, v))
  /\ UNCHANGED <<focus, forwarder, connection>>

ChangeElement(e, v) ==
  /\ cache[e] \notin {None, v}
  /\ cache' = [cache EXCEPT ![e] = v]
  /\ Emit(Report(e, v))
  /\ UNCHANGED <<issued, focus, forwarder, connection>>

RemoveElement(e) ==
  /\ cache[e] # None
  /\ cache' = [cache EXCEPT ![e] = None]
  /\ Emit(Report(e, None))
  /\ UNCHANGED <<issued, focus, forwarder, connection>>

\* handle_focus_changed builds the element under the read lock ...
FocusReads(e) ==
  /\ focus = NoFocus /\ cache[e] # None
  /\ focus' = [id |-> e, value |-> cache[e]]
  /\ UNCHANGED <<cache, issued, channel, forwarder, connection>>

\* ... and announces that copy under the write lock
FocusAnnounced ==
  /\ focus # NoFocus
  /\ focus' = NoFocus
  /\ Emit([id |-> focus.id, reports |-> focus.value, late |-> focus.value # cache[focus.id]])
  /\ UNCHANGED <<cache, issued, forwarder, connection>>

\* ... unless the element is focused already, or its process is gone
FocusUnchanged ==
  /\ focus # NoFocus
  /\ focus' = NoFocus
  /\ UNCHANGED <<cache, issued, channel, forwarder, connection>>

----------------------------------------------------------------------------
Subscribed(c) == server[c].at # "closed"

\* json_sender.send: a full receiver loses its oldest event
Forward ==
  /\ forwarder = "running" /\ ~overflowed /\ events # <<>>
  /\ events' = Tail(events)
  /\ queue' = [c \in Client |->
       IF Subscribed(c) THEN Pushed(queue[c], Head(events), ClientCapacity) ELSE <<>>]
  /\ lagged' = [c \in Client |->
       lagged[c] \/ (Subscribed(c) /\ Len(queue[c]) = ClientCapacity)]
  /\ UNCHANGED <<registry, overflowed, forwarder, server, mirror, trust>>

\* The loop runs while recv() answers Ok; after an overflow it answers an error
ForwarderStops ==
  /\ forwarder = "running" /\ overflowed
  /\ forwarder' = "stopped"
  /\ events' = <<>> /\ overflowed' = FALSE
  /\ trust' = [c \in Client |-> "none"]
  /\ UNCHANGED <<registry, server, queue, lagged, mirror>>

----------------------------------------------------------------------------
(***************************************************************************)
(* trust: "synced" when the mirror holds a snapshot and every report since *)
(* has been applied after it, "resynced" when a requested snapshot was     *)
(* applied after newer reports, "none" when a report was lost or late.     *)
(***************************************************************************)
\* handle_websocket subscribes first ...
Connect(c) ==
  /\ server[c].at = "closed"
  /\ server' = [server EXCEPT ![c].at = "init"]
  /\ queue' = [queue EXCEPT ![c] = <<>>]
  /\ lagged' = [lagged EXCEPT ![c] = FALSE]
  /\ trust' = [trust EXCEPT ![c] = "none"]
  /\ UNCHANGED <<registry, channel, forwarder, mirror>>

\* ... takes a snapshot then ...
InitSnapshot(c) ==
  /\ server[c].at = "init"
  /\ server' = [server EXCEPT ![c].at = "greet", ![c].snapshot = cache]
  /\ trust' = [trust EXCEPT ![c] = "synced"]
  /\ UNCHANGED <<registry, channel, forwarder, queue, lagged, mirror>>

\* Fault: the connection subscribes after it has sent its snapshot
QueueSinceInit(c) == <<>>

QueueSinceConnect(c) == queue[c]

\* ... and sends it: sync:init replaces the mirror
SyncInit(c) ==
  /\ server[c].at = "greet"
  /\ server' = [server EXCEPT ![c] = [Closed EXCEPT !.at = "open"]]
  /\ queue' = [queue EXCEPT ![c] = QueueSinceConnect(c)]
  /\ mirror' = [mirror EXCEPT ![c] = server[c].snapshot]
  /\ UNCHANGED <<registry, channel, forwarder, lagged, trust>>

\* Fault: an announced removal is not applied
AppliedIfSet(m, event) ==
  IF event.reports = None THEN m ELSE [m EXCEPT ![event.id] = event.reports]

\* onMessage of element:added, element:changed, element:removed, focus:element
Applied(m, event) == [m EXCEPT ![event.id] = event.reports]

Receives(c) ==
  /\ queue[c] # <<>> /\ ~lagged[c]
  /\ mirror' = [mirror EXCEPT ![c] = Applied(@, Head(queue[c]))]
  /\ trust' = [trust EXCEPT ![c] = IF Head(queue[c]).late THEN "none" ELSE @]
  /\ queue' = [queue EXCEPT ![c] = Tail(@)]

\* The connection's loop, between requests
Deliver(c) ==
  /\ server[c].at = "open" /\ Receives(c)
  /\ UNCHANGED <<registry, channel, forwarder, server, lagged>>

\* It logs that it has lost events and goes on with the next
SkipLost(c) ==
  /\ server[c].at = "open" /\ lagged[c]
  /\ lagged' = [lagged EXCEPT ![c] = FALSE]
  /\ trust' = [trust EXCEPT ![c] = "none"]
  /\ UNCHANGED <<registry, channel, forwarder, server, queue, mirror>>

\* The client asks for a snapshot; the loop awaits the answer
AskSnapshot(c) ==
  /\ server[c].at = "open"
  /\ server' = [server EXCEPT ![c].at = "dispatch", ![c].wanted = TRUE]
  /\ UNCHANGED <<registry, channel, forwarder, queue, lagged, mirror, trust>>

TakeSnapshot(c) ==
  /\ server[c].at = "dispatch"
  /\ server' = [server EXCEPT ![c].at = "flush", ![c].snapshot = cache, ![c].passed = FALSE]
  /\ UNCHANGED <<registry, channel, forwarder, queue, lagged, mirror, trust>>

\* while let Ok(event_json) = rx.try_recv()
Flush(c) ==
  /\ server[c].at = "flush" /\ Receives(c)
  /\ server' = [server EXCEPT ![c].passed = TRUE]
  /\ UNCHANGED <<registry, channel, forwarder, lagged>>

\* The answer replaces the mirror, unless it comes after the client's timeout.
\* The loop of try_recv has consumed the notice of a lag.
Respond(c) ==
  /\ server[c].at = "flush" /\ (queue[c] = <<>> \/ lagged[c])
  /\ server' = [server EXCEPT ![c] = [Closed EXCEPT !.at = "open"]]
  /\ mirror' = [mirror EXCEPT ![c] = IF server[c].wanted THEN server[c].snapshot ELSE @]
  /\ trust' = [trust EXCEPT ![c] =
       IF lagged[c] THEN "none"
       ELSE IF ~server[c].wanted THEN @
       ELSE IF server[c].passed THEN "resynced" ELSE "synced"]
  /\ lagged' = [lagged EXCEPT ![c] = FALSE]
  /\ UNCHANGED <<registry, channel, forwarder, queue>>

\* rawCall's timer; a late answer finds no pending call
TimeOut(c) ==
  /\ server[c].wanted
  /\ server' = [server EXCEPT ![c].wanted = FALSE]
  /\ UNCHANGED <<registry, channel, forwarder, queue, lagged, mirror, trust>>

\* The socket closes; the client connects again after a second
Disconnect(c) ==
  /\ Subscribed(c)
  /\ server' = [server EXCEPT ![c] = Closed]
  /\ queue' = [queue EXCEPT ![c] = <<>>]
  /\ lagged' = [lagged EXCEPT ![c] = FALSE]
  /\ trust' = [trust EXCEPT ![c] = "none"]
  /\ UNCHANGED <<registry, channel, forwarder, mirror>>

Mutate ==
  \/ \E e \in ElementId : RemoveElement(e) \/ FocusReads(e)
  \/ \E e \in ElementId, v \in Value : AddElement(e, v) \/ ChangeElement(e, v)
  \/ FocusAnnounced \/ FocusUnchanged

Serve(c) ==
  \/ InitSnapshot(c) \/ SyncInit(c) \/ Deliver(c) \/ SkipLost(c)
  \/ TakeSnapshot(c) \/ Flush(c) \/ Respond(c)

Next ==
  \/ Mutate \/ Forward \/ ForwarderStops
  \/ \E c \in Client : Serve(c) \/ Connect(c) \/ AskSnapshot(c) \/ TimeOut(c) \/ Disconnect(c)

Spec == Init /\ [][Next]_vars

\* The server's tasks are scheduled, and a closed client connects again
FairSpec ==
  /\ Spec
  /\ WF_vars(Forward) /\ WF_vars(ForwarderStops)
  /\ \A c \in Client : WF_vars(Serve(c)) /\ WF_vars(Connect(c))

----------------------------------------------------------------------------
\* Nothing is on its way to client c.
Drained(c) ==
  /\ server[c].at = "open" /\ queue[c] = <<>> /\ ~lagged[c]
  /\ events = <<>> /\ ~overflowed

(***************************************************************************)
(* "Mirrors Rust Registry via WebSocket events" (allio.ts:4): what is on   *)
(* its way to a client makes its mirror equal to the cache, whatever was   *)
(* emitted while it connected, took its first snapshot and received events *)
(* older than that, or while a requested snapshot was under way, as long   *)
(* as no report is lost, late, or overtaken by a requested snapshot.       *)
(***************************************************************************)
OnItsWay(c) == queue[c] \o events

Reports(q, e) == {i \in DOMAIN q : q[i].id = e}

Foretold(c, e) ==
  IF Reports(OnItsWay(c), e) = {} THEN mirror[c][e]
  ELSE LET last == CHOOSE i \in Reports(OnItsWay(c), e) : \A j \in Reports(OnItsWay(c), e) : j <= i
       IN  OnItsWay(c)[last].reports

MirrorFollows ==
  \A c \in Client :
    /\ server[c].at = "open" /\ trust[c] = "synced"
    /\ forwarder = "running" /\ ~overflowed /\ ~lagged[c]
    /\ \A i \in DOMAIN OnItsWay(c) : ~OnItsWay(c)[i].late
    => \A e \in ElementId : Foretold(c, e) = cache[e]

(***************************************************************************)
(* Once the elements stop changing, the mirror of a client that stays      *)
(* connected, loses nothing and asks for nothing becomes the cache.        *)
(***************************************************************************)
MirrorConverges ==
  \A c \in Client :
    /\ <>[][~Mutate]_vars
    /\ <>[](server[c].at = "open" /\ trust[c] = "synced" /\ forwarder = "running")
    => <>[](mirror[c] = cache)

(***************************************************************************)
(* "Use this to re-sync state if you suspect the client is out of sync"    *)
(* (allio.ts:135): after a snapshot the mirror of a client that has lost   *)
(* nothing since is the cache, once nothing is on its way.                 *)
(***************************************************************************)
SnapshotResyncs ==
  \A c \in Client :
    Drained(c) /\ forwarder = "running" /\ trust[c] \in {"synced", "resynced"} => mirror[c] = cache

(***************************************************************************)
(* "Drop oldest messages when full" (core/mod.rs:189): a slow moment of    *)
(* the forwarder costs the oldest events, so a client that connects after  *)
(* it follows the cache again.                                             *)
(***************************************************************************)
ReconnectingHelps ==
  \A c \in Client : Drained(c) /\ trust[c] = "synced" => mirror[c] = cache
============================================================================
