-------------------------------- MODULE Ports --------------------------------
(***************************************************************************)
(* The wiring demo (src-web/src/ports.ts): ports on elements, connections  *)
(* between them, the two drag gestures that make them, the hover overlay.  *)
(*                                                                         *)
(* One browser thread runs the handlers; what makes it hard is that        *)
(* elementAt and getElement are answered later, in the order they were     *)
(* asked, while the pointer, the windows and the elements go on.  The      *)
(* model fixes the answer when the question is asked: the server computes  *)
(* it later, but elements and windows only go, so the oldest answer covers *)
(* every later one, and the element it names may be gone when it arrives.  *)
(* A press that meets a fallback asks again on the next animation frame:   *)
(* its answer may come after that of younger questions.                    *)
(*                                                                         *)
(* Left out: positions, drawing and styles; the values that flow along the *)
(* connections are the subject of ValueFlow.                               *)
(***************************************************************************)
EXTENDS Naturals, Sequences, FiniteSets

CONSTANTS
  None,        \* null
  Element,     \* element ids
  Window,      \* window ids
  Owner,       \* the window of each element
  MaxPairs,    \* bound: port pairs ever created
  MaxDead,     \* bound: elements that go away
  MaxPending   \* bound: questions awaiting their answer

ASSUME OwnerIsWindow == Owner \in [Element -> Window]

VARIABLES
  windows,     \* windows of the mirror; each has a container once it is rendered
  fresh,       \* windows not opened yet (a window id never comes back)
  dead,        \* elements that were removed
  board,       \* state.ports, connections, hoveredPort, the overlay, the watches
  creating,    \* state.creationMode
  connecting,  \* state.connectingFrom
  drag,        \* state.dragging
  presses,     \* elements found by presses whose answer is on its way
  pending      \* answers to previews and hovers on their way, oldest first

vars == <<windows, fresh, dead, board, creating, connecting, drag, presses, pending>>

\* A port is named by its pair, whose number stands for the random base id, and its side.
Side == {"in", "out"}
Port == (1..MaxPairs) \X Side

Pair == [element : Element, window : Window]
Connection == [source : Port, target : Port]
Drag == [source : Element, window : Window,
         target : Element \cup {None}, targetWindow : Window \cup {None}]
Reply == [kind : {"preview"}, of : Element \cup {None}] \cup [kind : {"hover"}, of : Port]

ElementOf(b, p) == b.pairs[p[1]].element
WindowOf(b, p) == b.pairs[p[1]].window
PortsOf(b, e) == {p \in b.ports : ElementOf(b, p) = e}

\* Elements the server knows: those of open windows that were not removed.
Live == {e \in Element \ dead : Owner[e] \in windows}

\* The ports that are in the document: a port made for a window without container is in none.
Visible == {p \in board.ports : WindowOf(board, p) \in windows}

----------------------------------------------------------------------------
\* createPortPair and the watch its caller sets; nothing if the element has a port.
WithPair(b, e, w) ==
  IF PortsOf(b, e) # {} THEN b
  ELSE LET n == Len(b.pairs) + 1 IN
       [b EXCEPT !.pairs = Append(@, [element |-> e, window |-> w]),
                 !.ports = @ \cup ({n} \X Side),
                 !.watched = @ \cup {e}]

\* Mutant of WithoutPorts: only outgoing connections go, and nothing is unwatched.
WithoutPortsOneWay(b, gone) ==
  [b EXCEPT !.ports = @ \ gone, !.connections = {c \in @ : c.source \notin gone}]

\* deletePort of each port of gone: hover, connections, watch of an element without ports.
WithoutPorts(b, gone) ==
  LET left == b.ports \ gone
      bare == {ElementOf(b, p) : p \in gone} \ {ElementOf(b, p) : p \in left}
      hit  == b.hovered \in gone
  IN  [b EXCEPT !.ports = left,
                !.connections = {c \in @ : {c.source, c.target} \cap gone = {}},
                !.watched = @ \ bare,
                !.hovered = IF hit THEN None ELSE @,
                !.overlay = IF hit THEN None ELSE @]

WithConnection(b, source, target) ==
  [b EXCEPT !.connections = @ \cup {[source |-> source, target |-> target]}]

\* Port creation and the connection at the end of a drag.
Dragged(b, d) ==
  LET made == WithPair(WithPair(b, d.source, d.window), d.target, d.targetWindow)
      outs == {p \in PortsOf(made, d.source) : p[2] = "out"}
      ins  == {p \in PortsOf(made, d.target) : p[2] = "in"}
  IN  IF outs = {} \/ ins = {} THEN made
      ELSE WithConnection(made, CHOOSE p \in outs : TRUE, CHOOSE p \in ins : TRUE)

Waiting == Cardinality(presses) + Len(pending)

Asked(kind, of) ==
  /\ Waiting < MaxPending
  /\ pending' = Append(pending, [kind |-> kind, of |-> of])

----------------------------------------------------------------------------
Init ==
  /\ windows = {}
  /\ fresh = Window
  /\ dead = {}
  /\ board = [pairs |-> <<>>, ports |-> {}, connections |-> {}, hovered |-> None,
              overlay |-> None, watched |-> {}]
  /\ creating = FALSE
  /\ connecting = None
  /\ drag = None
  /\ presses = {}
  /\ pending = <<>>

\* window:added, then renderAll.
WindowAdded(w) ==
  /\ w \in fresh
  /\ windows' = windows \cup {w}
  /\ fresh' = fresh \ {w}
  /\ UNCHANGED <<dead, board, creating, connecting, drag, presses, pending>>

\* window:removed, after its elements; then renderAll: its container goes, with an overlay
\* that is in it, and its ports.
WindowRemoved(w) ==
  /\ w \in windows
  /\ windows' = windows \ {w}
  /\ \A e \in Live : Owner[e] # w
  /\ LET left == WithoutPorts(board, {p \in board.ports : WindowOf(board, p) = w}) IN
     board' = [left EXCEPT !.overlay = IF @ # None /\ WindowOf(board, @) = w THEN None ELSE @]
  /\ UNCHANGED <<fresh, dead, creating, connecting, drag, presses, pending>>

\* element:removed.
ElementRemoved(e) ==
  /\ e \in Live /\ Cardinality(dead) < MaxDead
  /\ dead' = dead \cup {e}
  /\ board' = WithoutPorts(board, PortsOf(board, e))
  /\ UNCHANGED <<windows, fresh, creating, connecting, drag, presses, pending>>

ToggleCreationMode ==
  /\ creating' = ~creating
  /\ UNCHANGED <<windows, fresh, dead, board, connecting, drag, presses, pending>>

\* The Escape key: the drag first, then the mode, then the connection.
Escape ==
  /\ drag # None \/ creating \/ connecting # None
  /\ drag' = None
  /\ creating' = (creating /\ drag # None)
  /\ connecting' = IF drag # None \/ creating THEN connecting ELSE None
  /\ UNCHANGED <<windows, fresh, dead, board, presses, pending>>

\* mousedown on an output port.
StartConnection(p) ==
  /\ p \in Visible /\ p[2] = "out"
  /\ connecting' = p
  /\ UNCHANGED <<windows, fresh, dead, board, creating, drag, presses, pending>>

\* mousedown over a window in creation mode, where elementAt finds element e.
Press(e) ==
  /\ creating /\ e \in Live
  /\ e \notin presses /\ Waiting < MaxPending
  /\ presses' = presses \cup {e}
  /\ UNCHANGED <<windows, fresh, dead, board, creating, connecting, drag, pending>>

\* completeConnection; the source is the port as it was when the connection was started.
CompleteConnection(p) ==
  /\ connecting # None /\ p \in Visible /\ p[2] = "in"
  /\ board' = IF ElementOf(board, connecting) = ElementOf(board, p) THEN board
              ELSE WithConnection(board, connecting, p)
  /\ connecting' = None
  /\ UNCHANGED <<windows, fresh, dead, creating, drag, presses, pending>>

\* Mutant of CompleteDrag: the ends are not compared.
CompleteDragUnchecked ==
  /\ drag # None
  /\ drag' = None
  /\ board' = IF drag.target = None \/ drag.targetWindow = None THEN board ELSE Dragged(board, drag)
  /\ Len(board'.pairs) <= MaxPairs
  /\ UNCHANGED <<windows, fresh, dead, creating, connecting, presses, pending>>

\* mouseup: a drag comes first, whatever is under the pointer.
CompleteDrag ==
  /\ drag # None
  /\ drag' = None
  /\ board' = IF drag.target = None \/ drag.targetWindow = None \/ drag.source = drag.target
              THEN board ELSE Dragged(board, drag)
  /\ Len(board'.pairs) <= MaxPairs
  /\ UNCHANGED <<windows, fresh, dead, creating, connecting, presses, pending>>

ReleaseOn(p) == drag = None /\ CompleteConnection(p)

ReleaseElsewhere ==
  /\ drag = None /\ connecting # None
  /\ connecting' = None
  /\ UNCHANGED <<windows, fresh, dead, board, creating, drag, presses, pending>>

\* click with shift.
DeletePort(p) ==
  /\ p \in Visible
  /\ board' = WithoutPorts(board, {p})
  /\ UNCHANGED <<windows, fresh, dead, creating, connecting, drag, presses, pending>>

\* mouse:position during a drag, over an element or none.
MoveDragging ==
  /\ drag # None
  /\ \E a \in Live \cup {None} : Asked("preview", a)
  /\ UNCHANGED <<windows, fresh, dead, board, creating, connecting, drag, presses>>

\* Mutant of HoverPort: the overlay is only asked for when none is shown.
HoverPortOnce(p) ==
  /\ drag = None /\ p \in Visible /\ p # board.hovered
  /\ board' = [board EXCEPT !.hovered = p]
  /\ IF board.overlay = None THEN Asked("hover", p) ELSE UNCHANGED pending
  /\ UNCHANGED <<windows, fresh, dead, creating, connecting, drag, presses>>

\* mouse:position over a port that is not the hovered one; its element is read again.
HoverPort(p) ==
  /\ drag = None /\ p \in Visible /\ p # board.hovered
  /\ board' = [board EXCEPT !.hovered = p]
  /\ Asked("hover", p)
  /\ UNCHANGED <<windows, fresh, dead, creating, connecting, drag, presses>>

LeavePort ==
  /\ drag = None /\ board.hovered # None
  /\ board' = [board EXCEPT !.hovered = None, !.overlay = None]
  /\ UNCHANGED <<windows, fresh, dead, creating, connecting, drag, presses, pending>>

----------------------------------------------------------------------------
Replied(kind) ==
  /\ pending # <<>> /\ Head(pending).kind = kind
  /\ pending' = Tail(pending)
  /\ UNCHANGED <<windows, fresh, dead, creating, connecting, presses>>

\* The answer to a press starts the drag, whether or not the button is still down.
StartDrag(e) ==
  /\ e \in presses
  /\ presses' = presses \ {e}
  /\ drag' = [source |-> e, window |-> Owner[e], target |-> None, targetWindow |-> None]
  /\ UNCHANGED <<windows, fresh, dead, board, creating, connecting, pending>>

\* The window found under the pointer once the answer is there: the element's, unless it
\* is closed by now and another one or none is left.
WindowsOver(a) ==
  IF a # None /\ Owner[a] \in windows THEN {Owner[a]} ELSE windows \cup {None}

\* The answer to a preview is written to the drag of the moment, if there is one.
UpdateDragPreview ==
  /\ Replied("preview")
  /\ LET a == Head(pending).of IN
     IF drag = None \/ a = drag.target THEN UNCHANGED drag
     ELSE \E w \in WindowsOver(a) :
            drag' = [drag EXCEPT !.target = a, !.targetWindow = w]
  /\ UNCHANGED board

\* The overlay is shown for the port that was asked about, hovered or not.
ShowHoverOverlay ==
  /\ Replied("hover")
  /\ LET p == Head(pending).of IN
     board' = [board EXCEPT !.overlay = IF WindowOf(board, p) \in windows THEN p ELSE @]
  /\ UNCHANGED drag

Next ==
  \/ \E w \in Window : WindowAdded(w) \/ WindowRemoved(w)
  \/ \E e \in Element : ElementRemoved(e) \/ Press(e) \/ StartDrag(e)
  \/ ToggleCreationMode \/ Escape
  \/ \E p \in Port : \/ StartConnection(p) \/ ReleaseOn(p)
                     \/ DeletePort(p) \/ HoverPort(p)
  \/ CompleteDrag \/ ReleaseElsewhere \/ MoveDragging \/ LeavePort
  \/ UpdateDragPreview \/ ShowHoverOverlay

Spec == Init /\ [][Next]_vars

----------------------------------------------------------------------------
\* No port is wired to an element's own other side, by either gesture; a drag's ends are
\* set by answers that arrive one by one.
NoSelfConnection ==
  \A c \in board.connections : ElementOf(board, c.source) # ElementOf(board, c.target)

\* Once every answer has arrived, the overlay shows the hovered port if there is one: the
\* pointer may have crossed several ports and windows may have closed since it was asked.
HoverSettles ==
  board.hovered # None /\ (\A i \in DOMAIN pending : pending[i].kind # "hover")
    => board.overlay = board.hovered

\* The handlers implement PortBoard: every drag, click and disappearance either adds ports and
\* at most one connection to a port that exists, or deletes ports with their connections, and
\* watches exactly the elements with ports at every step.
Board == INSTANCE PortBoard WITH
  ports <- {[id |-> p, element |-> ElementOf(board, p)] : p \in board.ports},
  wires <- {<<c.source, c.target>> : c \in board.connections},
  watched <- board.watched
ImplementsBoard == Board!Spec

\* ports.ts:129, "Clean up ports when elements are removed".  A drag that began before the
\* removal still makes ports for the element, and nothing removes them.
PortsOfLiveElements == \A p \in board.ports : ElementOf(board, p) \notin dead

\* What a connection is for: a value flows from a port that exists.  A connection started
\* from a port that is deleted meanwhile is completed all the same.
ConnectionsAnchored ==
  \A c \in board.connections : c.source \in board.ports /\ c.target \in board.ports
============================================================================
