---------------------------- MODULE QueryOverlay ----------------------------
(***************************************************************************)
(* The query demo (src-web/src/query.ts): queried windows, the element     *)
(* each one observes, ports, and the drag of a port.                       *)
(*                                                                         *)
(* The handlers run on one browser thread; where one awaits a request the  *)
(* rest of it is in pending, in the order the requests were sent.  Watches *)
(* and observations count from when they are sent: one socket keeps their  *)
(* order.  The engine runs over the mirror, here the elements still there  *)
(* with the tree they have (Shape).                                        *)
(*                                                                         *)
(* Left out: drawing, hovering, the values (ValueFlow), and the code that  *)
(* no event reaches: nothing sets state.dragging or connectingFrom.        *)
(***************************************************************************)
EXTENDS Naturals, Sequences, FiniteSets

CONSTANTS
  None,
  Element, Window,
  Owner,       \* the window of each element
  Root,        \* the root element of each window
  Shape,       \* role and children of each element
  TextAreas,   \* elements with the role textarea
  Writable,    \* elements that accept strings, numbers or booleans
  Role,
  Queries,     \* the (find) parts a user types, as token sequences
  MaxPorts,    \* bound: ports ever made
  MaxPending   \* bound: requests awaiting their answer

ASSUME ElementsOfWindows ==
  /\ Owner \in [Element -> Window] /\ Root \in [Window -> Element]
  /\ TextAreas \subseteq Element /\ Writable \subseteq Element
  /\ \A w \in Window : Owner[Root[w]] = w /\ Root[w] \notin TextAreas \cup Writable

\* null and undefined are neither elements nor port ids.
ASSUME NoneIsNothing == None \notin Element /\ None \notin 1..MaxPorts

VARIABLES
  windows,   \* windows of the mirror; each has a container once it is rendered
  fresh,     \* windows not opened yet
  dead,      \* elements that were removed
  made,      \* every port ever made; a port's id is its index
  ports,     \* state.ports
  conns,     \* state.connections
  made_ifs,  \* every interface ever made: updates hold on to theirs
  iface,     \* state.interfaces: the index of a window's interface, or 0
  drag,      \* state.portDragging: the port dragged, or None
  creating,  \* state.creationMode
  mode,      \* passthrough.mode
  watched,   \* elements the demo watches
  observed,  \* elements it observes
  pending    \* what awaits an answer, oldest first

wires == <<made, ports, conns, watched>>
queried == <<made_ifs, iface, observed>>
vars == <<windows, fresh, dead, wires, queried, drag, creating, mode, pending>>

Live == {e \in Element \ dead : Owner[e] \in windows}
Mirror == [e \in Live |-> Shape[e]]
Engine == INSTANCE QueryEngine WITH mirror <- Mirror, Id <- Element, Tokens <- Queries

\* The element that a query finds below root when the given elements are left.
FindAmong(left, root, find) ==
  Engine!FindFirst([e \in left |-> Shape[e]], root, Engine!ParseSelector(find))

Find(root, find) == FindAmong(Live, root, find)

\* What is found below a window's root is of that window, for an element's children are
\* (allio, core/registry/elements.rs).
FindsInWindow ==
  \A left \in SUBSET Element, w \in Window, find \in Queries :
    FindAmong(left, Root[w], find) \in {None} \cup {e \in Element : Owner[e] = w}

PortsOf(e) == {p \in ports : made[p].element = e}
Inputs(e) == {p \in PortsOf(e) : made[p].side = "in"}
Visible == {p \in ports : made[p].window \in windows}

NewPort(w, e, side, tree) == [window |-> w, element |-> e, side |-> side, tree |-> tree]

----------------------------------------------------------------------------
\* Mutant of DeletePorts: what other ports a port's element has is not looked at.
DeletePortsUnwatch(gone) ==
  /\ ports' = ports \ gone
  /\ conns' = {c \in conns : {c[1], c[2]} \cap gone = {}}
  /\ watched' = watched \ {made[p].element : p \in gone}
  /\ observed' = observed \ ({made[p].tree : p \in gone} \ {made[p].tree : p \in ports \ gone})

\* deletePort of each: connections, the watch of elements and the observation of trees without
\* other ports.
DeletePorts(gone) ==
  LET left == ports \ gone IN
  /\ ports' = left
  /\ conns' = {c \in conns : {c[1], c[2]} \cap gone = {}}
  /\ watched' = watched \ ({made[p].element : p \in gone} \ {made[p].element : p \in left})
  /\ observed' = observed \ ({made[p].tree : p \in gone} \ {made[p].tree : p \in left})

\* Mutant of CancelPortDrag: the mode is left as the drag set it.
CancelPortDragOpaque ==
  /\ drag' = None
  /\ mode' = mode

CancelPortDrag ==
  /\ drag' = None
  /\ mode' = IF creating THEN mode ELSE "auto"

Pend(call) ==
  /\ Len(pending) < MaxPending
  /\ pending' = Append(pending, call)

Answered(kind) ==
  /\ pending # <<>> /\ Head(pending).kind = kind
  /\ pending' = Tail(pending)

----------------------------------------------------------------------------
Init ==
  /\ windows = {} /\ fresh = Window /\ dead = {}
  /\ made = <<>> /\ ports = {} /\ conns = {} /\ watched = {}
  /\ made_ifs = <<>> /\ iface = [w \in Window |-> 0] /\ observed = {}
  /\ drag = None /\ creating = FALSE /\ mode = "auto"
  /\ pending = <<>>

WindowAdded(w) ==
  /\ w \in fresh
  /\ windows' = windows \cup {w} /\ fresh' = fresh \ {w}
  /\ UNCHANGED <<dead, wires, queried, drag, creating, mode, pending>>

\* window:removed and renderAll: with a rendered window go its interface and its ports.
WindowRemoved(w) ==
  /\ w \in windows /\ \A e \in Live : Owner[e] # w
  /\ windows' = windows \ {w}
  /\ iface' = [iface EXCEPT ![w] = 0]
  /\ DeletePorts({p \in ports : made[p].window = w})
  /\ UNCHANGED <<fresh, dead, made, made_ifs, drag, creating, mode, pending>>

\* element:removed.
ElementRemoved(e) ==
  /\ e \in Live
  /\ dead' = dead \cup {e}
  /\ DeletePorts(PortsOf(e))
  /\ UNCHANGED <<windows, fresh, made, made_ifs, iface, drag, creating, mode, pending>>

\* The menu bar, whatever else goes on.
ToggleCreationMode ==
  /\ creating' = ~creating
  /\ mode' = IF creating THEN "auto" ELSE "opaque"
  /\ UNCHANGED <<windows, fresh, dead, wires, queried, drag, pending>>

\* Escape ends a port's drag, and without one the creation mode.
Escape ==
  \/ /\ drag # None
     /\ CancelPortDrag
     /\ UNCHANGED <<windows, fresh, dead, wires, queried, creating, pending>>
  \/ drag = None /\ creating /\ ToggleCreationMode

\* mousedown in creation mode asks for the element there: a text area, or with shift any
\* element of the window to query.
Press(e) ==
  /\ creating /\ e \in Live
  /\ \/ e \in TextAreas /\ Pend([kind |-> "press", element |-> e])
     \/ Pend([kind |-> "query", element |-> Root[Owner[e]]])
  /\ UNCHANGED <<windows, fresh, dead, wires, queried, drag, creating, mode>>

\* A text area becomes a transform: a pair of ports, unless it has a port, and a watch.
MakeTransform ==
  /\ Answered("press")
  /\ LET e == Head(pending).element
         n == Len(made)
     IN /\ watched' = watched \cup {e}
        /\ IF PortsOf(e) # {} THEN UNCHANGED <<made, ports>>
           ELSE /\ n + 2 <= MaxPorts
                /\ made' = made \o <<NewPort(Owner[e], e, "in", None), NewPort(Owner[e], e, "out", None)>>
                /\ ports' = ports \cup {n + 1, n + 2}
  /\ UNCHANGED <<conns, windows, fresh, dead, queried, drag, creating, mode>>

\* makeWindowQueried: a window without interface is asked for its root.
AskWindowRoot ==
  /\ pending # <<>> /\ Head(pending).kind = "query"
  /\ LET w == Owner[Head(pending).element] IN
     pending' = IF iface[w] = 0 /\ w \in windows
                THEN Append(Tail(pending), [kind |-> "root", element |-> Root[w]])
                ELSE Tail(pending)
  /\ UNCHANGED <<windows, fresh, dead, wires, queried, drag, creating, mode>>

\* The answer makes the interface and its port, whatever happened to the window since; if the
\* root is gone by now the request may have failed.
MakeWindowQueried ==
  /\ Answered("root")
  /\ LET r == Head(pending).element
         w == Owner[r]
     IN \/ /\ Len(made) < MaxPorts
           /\ made' = Append(made, NewPort(w, r, "out", r))
           /\ ports' = ports \cup {Len(made) + 1}
           /\ made_ifs' = Append(made_ifs, [window |-> w, find |-> <<"tree">>, root |-> r, port |-> Len(made) + 1])
           /\ iface' = [iface EXCEPT ![w] = Len(made_ifs) + 1]
           /\ observed' = observed \cup {r}
           /\ UNCHANGED <<conns, watched>>
        \/ r \notin Live /\ UNCHANGED <<wires, queried>>
  /\ UNCHANGED <<windows, fresh, dead, drag, creating, mode>>

\* Enter in the query bar, or leaving it: the query changes at once; if it finds another root
\* the old one is unobserved first, and the rest waits for that.
UpdateInterfaceQuery(w, find) ==
  /\ w \in windows /\ iface[w] # 0
  /\ LET i == iface[w]
         found == Find(Root[w], find)
     IN /\ find # made_ifs[i].find
        /\ made_ifs' = [made_ifs EXCEPT ![i].find = find]
        /\ IF found \in {None, made_ifs[i].root} THEN UNCHANGED <<observed, pending>>
           ELSE /\ observed' = observed \ {made_ifs[i].root}
                /\ Pend([kind |-> "unobserved", element |-> found, iface |-> i])
  /\ UNCHANGED <<windows, fresh, dead, wires, iface, drag, creating, mode>>

\* Mutant of ObserveFound: the observation is left to the next update.
ObserveFoundLater ==
  /\ Answered("unobserved")
  /\ made_ifs' = [made_ifs EXCEPT ![Head(pending).iface].root = Head(pending).element]
  /\ UNCHANGED <<windows, fresh, dead, wires, iface, observed, drag, creating, mode>>

ObserveFound ==
  /\ Answered("unobserved")
  /\ LET found == Head(pending).element IN
     /\ made_ifs' = [made_ifs EXCEPT ![Head(pending).iface].root = found]
     /\ observed' = observed \cup {found}
  /\ UNCHANGED <<windows, fresh, dead, wires, iface, drag, creating, mode>>

\* mousedown on an output port.
StartPortDrag(p) ==
  /\ p \in Visible /\ made[p].side = "out"
  /\ drag' = p /\ mode' = "opaque"
  /\ UNCHANGED <<windows, fresh, dead, wires, queried, creating, pending>>

\* mouse button on an input port during a drag.
CompletePortDrag(p) ==
  /\ drag # None /\ p \in Visible /\ made[p].side = "in"
  /\ conns' = conns \cup {<<drag, p>>}
  /\ CancelPortDrag
  /\ UNCHANGED <<windows, fresh, dead, made, ports, watched, queried, creating, pending>>

\* mouseup elsewhere asks what is there (None: nothing that can be written); the drag goes on
\* until the answer.
DropPort ==
  /\ drag # None
  /\ \E e \in (Live \cap (Writable \cup TextAreas)) \cup {None} : Pend([kind |-> "drop", element |-> e, source |-> drag])
  /\ UNCHANGED <<windows, fresh, dead, wires, queried, drag, creating, mode>>

\* The window under the pointer when the answer is there.
WindowsOver(e) == IF e # None /\ Owner[e] \in windows THEN {Owner[e]} ELSE windows

\* The dropped port's connection, to the element's input or to a new one if it can be written;
\* the port may be gone, and the drag that ends here may be a later one.
DropPortOnElement ==
  /\ Answered("drop")
  /\ LET e == Head(pending).element
         source == Head(pending).source
         n == Len(made) + 1
     IN \/ /\ e = None \/ (Inputs(e) = {} /\ e \notin Writable) \/ WindowsOver(e) = {}
           /\ UNCHANGED wires
        \/ /\ WindowsOver(e) # {}
           /\ \E p \in Inputs(e) :
                /\ conns' = conns \cup {<<source, p>>}
                /\ UNCHANGED <<made, ports, watched>>
        \/ /\ Inputs(e) = {} /\ e \in Writable
           /\ n <= MaxPorts
           /\ \E w \in WindowsOver(e) : made' = Append(made, NewPort(w, e, "in", None))
           /\ ports' = ports \cup {n}
           /\ conns' = conns \cup {<<source, n>>}
           /\ watched' = watched \cup {e}
  /\ CancelPortDrag
  /\ UNCHANGED <<windows, fresh, dead, queried, creating>>

\* mousedown with shift on a port.
DeletePort(p) ==
  /\ p \in Visible
  /\ DeletePorts({p})
  /\ UNCHANGED <<windows, fresh, dead, made, made_ifs, iface, drag, creating, mode, pending>>

Next ==
  \/ \E w \in Window : \/ WindowAdded(w) \/ WindowRemoved(w)
                       \/ \E find \in Queries : UpdateInterfaceQuery(w, find)
  \/ \E e \in Element : ElementRemoved(e) \/ Press(e)
  \/ \E p \in 1..MaxPorts : StartPortDrag(p) \/ CompletePortDrag(p) \/ DeletePort(p)
  \/ ToggleCreationMode \/ Escape \/ DropPort
  \/ MakeTransform \/ AskWindowRoot \/ MakeWindowQueried \/ ObserveFound \/ DropPortOnElement

Spec == Init /\ [][Next]_vars

----------------------------------------------------------------------------
\* The handlers implement PortBoard over ports made three ways; the root of a queried window
\* is observed where other elements are watched.
Board == INSTANCE PortBoard WITH
  ports <- {[id |-> p, element |-> made[p].element] : p \in ports},
  wires <- conns,
  watched <- watched \cup ({made[p].element : p \in ports} \cap {Root[w] : w \in Window})
ImplementsBoard == Board!Spec

\* Between re-rootings, a queried window observes its root as long as it has its port to show
\* results: racing shift-clicks, updates that overtake one another and deletions of a second
\* port of the window do not stop it.
QueriedIsObserved ==
  \A w \in windows :
    LET f == made_ifs[iface[w]] IN
    iface[w] # 0 /\ f.port \in ports /\ (\A i \in DOMAIN pending : pending[i].kind # "unobserved")
      => f.root \in observed

\* The overlay swallows the mouse only while a port is dragged or in creation mode: toggles,
\* Escape and late drops that cross leave it open.
OpaqueOnlyWhileNeeded ==
  /\ drag = None => (mode = "opaque") = creating
  /\ creating => mode = "opaque"

\* query.ts:744, "Stop observing the tree when no ports reference it": the port knows the root
\* of its window, not the element that a query has put in its place.
ObservedIsReferenced ==
  pending = <<>> => \A r \in observed \ dead : \E p \in ports :
    \/ made[p].tree = r
    \/ \E w \in Window : /\ iface[w] # 0
                        /\ made_ifs[iface[w]].root = r /\ made_ifs[iface[w]].port = p
============================================================================
