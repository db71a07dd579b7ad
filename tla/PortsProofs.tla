----------------------------- MODULE PortsProofs -----------------------------
(***************************************************************************)
(* Ports implements PortBoard, and wires no element to itself, for any     *)
(* elements and windows and any bounds.                                    *)
(*                                                                         *)
(* What has to be known of a board for that: ports and connections belong  *)
(* to pairs that were made (so that a new pair is not mistaken for an old  *)
(* one), exactly the elements with ports are watched, and no connection    *)
(* has both its ends at one element.  A connection that was started and a  *)
(* drag that runs name such ports and elements too, however much is        *)
(* deleted before they end.                                                *)
(*                                                                         *)
(* And the overlay settles on the hovered port: the youngest question      *)
(* about a hover is about it, as answers come in order.                    *)
(***************************************************************************)
EXTENDS Ports, SequenceTheorems, TLAPS

\* Ports of pairs that were made, deleted ones included.
Known(b) == (1..Len(b.pairs)) \X Side

Sound(b) ==
  /\ DOMAIN b = {"pairs", "ports", "connections", "hovered", "overlay", "watched"}
  /\ b.pairs \in Seq(Pair)
  /\ b.ports \subseteq Known(b)
  /\ b.connections \subseteq [source : Known(b), target : Known(b)]
  /\ b.watched = {ElementOf(b, p) : p \in b.ports}
  /\ \A c \in b.connections : ElementOf(b, c.source) # ElementOf(b, c.target)

IInv ==
  /\ windows \subseteq Window
  /\ Sound(board)
  /\ connecting \in Known(board) \cup {None}
  /\ drag \in Drag \cup {None}
  /\ pending \in Seq(Reply)

\* Ports keep their elements from b to c.
Keeps(b, c) == \A p \in Known(b) : p \in Known(c) /\ ElementOf(c, p) = ElementOf(b, p)

\* From b to c ports and at most one connection are added, or ports are deleted with all that
\* hangs on them: a step of PortBoard, in the terms of Ports.
Adds(b, c) ==
  /\ b.ports \subseteq c.ports /\ b.connections \subseteq c.connections
  /\ \A x, y \in c.connections \ b.connections : x = y
  /\ \A x \in c.connections \ b.connections : x.target \in c.ports
Deletes(b, c) ==
  /\ c.ports \subseteq b.ports
  /\ c.connections = {x \in b.connections : {x.source, x.target} \cap (b.ports \ c.ports) = {}}
StepOf(b, c) == Sound(c) /\ Keeps(b, c) /\ (Adds(b, c) \/ Deletes(b, c))

----------------------------------------------------------------------------
\* A board that changes only in what is hovered makes no step.
LEMMA SameIsStep ==
  ASSUME NEW b, NEW c, Sound(b),
         DOMAIN c = DOMAIN b, c.pairs = b.pairs, c.ports = b.ports,
         c.connections = b.connections, c.watched = b.watched
  PROVE  StepOf(b, c)
BY DEF Sound, StepOf, Keeps, Adds, Known, ElementOf

\* deletePort, for any set of ports.
LEMMA WithoutPortsIsStep ==
  ASSUME NEW b, Sound(b), NEW gone \in SUBSET b.ports
  PROVE  StepOf(b, WithoutPorts(b, gone)) /\ WithoutPorts(b, gone).pairs = b.pairs
<1> DEFINE c == WithoutPorts(b, gone)
           bare == {ElementOf(b, p) : p \in gone} \ {ElementOf(b, p) : p \in b.ports \ gone}
<1>1. /\ DOMAIN c = DOMAIN b /\ c.pairs = b.pairs /\ c.ports = b.ports \ gone
      /\ c.connections = {x \in b.connections : {x.source, x.target} \cap gone = {}}
      /\ c.watched = b.watched \ bare
  BY DEF WithoutPorts, Sound
<1> HIDE DEF c
<1>2. Known(c) = Known(b) /\ \A p : ElementOf(c, p) = ElementOf(b, p)
  BY <1>1 DEF Known, ElementOf
<1>3. c.watched = {ElementOf(b, p) : p \in c.ports}
  BY <1>1 DEF Sound
<1>4. {ElementOf(c, p) : p \in c.ports} = {ElementOf(b, p) : p \in c.ports}
  BY <1>2
<1>5. Sound(c) /\ Keeps(b, c)
  BY <1>1, <1>2, <1>3, <1>4 DEF Sound, Keeps
<1>6. b.ports \ c.ports = gone
  BY <1>1
<1>7. Deletes(b, c)
  BY <1>1, <1>6 DEF Deletes
<1> QED BY <1>1, <1>5, <1>7 DEF StepOf, c

\* createPortPair adds the two ports of a new pair, or nothing.
LEMMA WithPairIsStep ==
  ASSUME NEW b, Sound(b), NEW e \in Element, NEW w \in Window
  PROVE  LET c == WithPair(b, e, w)
         IN  Sound(c) /\ Keeps(b, c) /\ b.ports \subseteq c.ports /\ c.connections = b.connections
<1> DEFINE c == WithPair(b, e, w)
           n == Len(b.pairs) + 1
           x == [element |-> e, window |-> w]
<1>1. CASE PortsOf(b, e) # {}
  BY <1>1 DEF WithPair, Keeps
<1>2. CASE PortsOf(b, e) = {}
  <2>1. /\ DOMAIN c = DOMAIN b /\ c.pairs = Append(b.pairs, x) /\ c.ports = b.ports \cup ({n} \X Side)
        /\ c.connections = b.connections /\ c.watched = b.watched \cup {e}
    BY <1>2 DEF WithPair, Sound
  <2> HIDE DEF c
  <2>2. b.pairs \in Seq(Pair) /\ x \in Pair
    BY DEF Sound, Pair
  <2>3. /\ c.pairs \in Seq(Pair) /\ Len(c.pairs) = n /\ c.pairs[n] = x /\ n \in Nat
        /\ \A i \in 1..Len(b.pairs) : c.pairs[i] = b.pairs[i]
    BY <2>1, <2>2, AppendProperties, LenProperties
  <2>4. Keeps(b, c)
    BY <2>2, <2>3, LenProperties DEF Keeps, Known, ElementOf
  <2>5. \A p \in {n} \X Side : p \in Known(c) /\ ElementOf(c, p) = e
    BY <2>3 DEF Known, ElementOf
  <2>6. c.ports \subseteq Known(c)
    BY <2>1, <2>4, <2>5 DEF Sound, Keeps
  <2>7. c.watched = {ElementOf(c, p) : p \in c.ports}
    <3>1. <<n, "in">> \in {n} \X Side
      BY DEF Side
    <3>2. \A p \in b.ports : ElementOf(c, p) = ElementOf(b, p)
      BY <2>4 DEF Sound, Keeps
    <3>3. b.watched = {ElementOf(b, p) : p \in b.ports}
      BY DEF Sound
    <3> QED BY <2>1, <2>5, <3>1, <3>2, <3>3
  <2>8. /\ c.connections \subseteq [source : Known(c), target : Known(c)]
        /\ \A k \in c.connections : ElementOf(c, k.source) # ElementOf(c, k.target)
    BY <2>1, <2>4 DEF Sound, Keeps
  <2> QED BY <2>1, <2>3, <2>4, <2>6, <2>7, <2>8 DEF Sound, c
<1> QED BY <1>1, <1>2

\* A connection between two elements, from a port that was made to one that is there.
LEMMA WithConnectionIsStep ==
  ASSUME NEW b, Sound(b), NEW s \in Known(b), NEW t \in b.ports, ElementOf(b, s) # ElementOf(b, t)
  PROVE  LET c == WithConnection(b, s, t)
         IN  /\ StepOf(b, c) /\ c.pairs = b.pairs /\ c.ports = b.ports
             /\ c.connections = b.connections \cup {[source |-> s, target |-> t]}
<1> DEFINE c == WithConnection(b, s, t)
<1>1. /\ DOMAIN c = DOMAIN b /\ c.pairs = b.pairs /\ c.ports = b.ports /\ c.watched = b.watched
      /\ c.connections = b.connections \cup {[source |-> s, target |-> t]}
  BY DEF WithConnection, Sound
<1> HIDE DEF c
<1>2. Known(c) = Known(b) /\ \A p : ElementOf(c, p) = ElementOf(b, p)
  BY <1>1 DEF Known, ElementOf
<1>3. t \in Known(b)
  BY DEF Sound
<1>4. c.connections \subseteq [source : Known(c), target : Known(c)]
  BY <1>1, <1>2, <1>3 DEF Sound
<1>5. \A k \in c.connections : ElementOf(c, k.source) # ElementOf(c, k.target)
  BY <1>1, <1>2 DEF Sound
<1>6. c.watched = {ElementOf(c, p) : p \in c.ports}
  BY <1>1, <1>2 DEF Sound
<1>7. Sound(c) /\ Keeps(b, c)
  BY <1>1, <1>2, <1>4, <1>5, <1>6 DEF Sound, Keeps
<1>8. Adds(b, c)
  BY <1>1 DEF Adds
<1> QED BY <1>1, <1>7, <1>8 DEF StepOf, c

\* The end of a drag: two pairs and a connection from one to the other.
LEMMA DraggedIsStep ==
  ASSUME NEW b, Sound(b), NEW d \in Drag, d.target \in Element, d.targetWindow \in Window,
         d.source # d.target
  PROVE  StepOf(b, Dragged(b, d))
<1> DEFINE half == WithPair(b, d.source, d.window)
           made == WithPair(half, d.target, d.targetWindow)
           outs == {p \in PortsOf(made, d.source) : p[2] = "out"}
           ins  == {p \in PortsOf(made, d.target) : p[2] = "in"}
<1>1. d.source \in Element /\ d.window \in Window
  BY DEF Drag
<1>2. Sound(half) /\ Keeps(b, half) /\ b.ports \subseteq half.ports /\ half.connections = b.connections
  BY <1>1, WithPairIsStep
<1>3. Sound(made) /\ Keeps(half, made) /\ half.ports \subseteq made.ports /\ made.connections = half.connections
  <2> HIDE DEF half
  <2> QED BY <1>2, WithPairIsStep
<1>4. Keeps(b, made) /\ b.ports \subseteq made.ports /\ made.connections = b.connections
  BY <1>2, <1>3 DEF Keeps
<1>5. Dragged(b, d) = IF outs = {} \/ ins = {} THEN made
                      ELSE WithConnection(made, CHOOSE p \in outs : TRUE, CHOOSE p \in ins : TRUE)
  BY DEF Dragged
<1> HIDE DEF made
<1>6. CASE outs = {} \/ ins = {}
  BY <1>3, <1>4, <1>5, <1>6 DEF StepOf, Adds
<1>7. CASE outs # {} /\ ins # {}
  <2> DEFINE s == CHOOSE p \in outs : TRUE
             t == CHOOSE p \in ins : TRUE
             c == WithConnection(made, s, t)
  <2>1. s \in outs /\ t \in ins
    BY <1>7
  <2>2. s \in Known(made) /\ t \in made.ports /\ ElementOf(made, s) = d.source /\ ElementOf(made, t) = d.target
    BY <2>1, <1>3 DEF PortsOf, Sound
  <2> HIDE DEF s, t
  <2>3. /\ StepOf(made, c) /\ c.ports = made.ports
        /\ c.connections = made.connections \cup {[source |-> s, target |-> t]}
    BY <1>3, <2>2, WithConnectionIsStep
  <2> HIDE DEF c
  <2>4. Adds(b, c)
    BY <1>4, <2>2, <2>3 DEF Adds
  <2>5. Sound(c) /\ Keeps(b, c)
    BY <1>4, <2>3 DEF StepOf, Keeps
  <2> QED BY <1>5, <1>7, <2>4, <2>5 DEF StepOf, c, s, t
<1> QED BY <1>6, <1>7

----------------------------------------------------------------------------
LEMMA InitSound == Init => IInv
<1> SUFFICES ASSUME Init PROVE IInv
  OBVIOUS
<1>1. DOMAIN board = {"pairs", "ports", "connections", "hovered", "overlay", "watched"}
  BY DEF Init
<1>2. board.pairs = <<>> /\ board.ports = {} /\ board.connections = {} /\ board.watched = {}
  BY DEF Init
<1>3. <<>> \in Seq(Pair) /\ <<>> \in Seq(Reply)
  OBVIOUS
<1>4. Sound(board)
  BY <1>1, <1>2, <1>3 DEF Sound
<1> QED BY <1>3, <1>4 DEF Init, IInv

\* Every handler makes at most one step of the board.
LEMMA BoardSteps ==
  ASSUME IInv, [Next]_vars
  PROVE  StepOf(board, board')
<1>1. CASE UNCHANGED board
  BY <1>1, SameIsStep DEF IInv
<1>2. ASSUME NEW w \in Window, WindowRemoved(w) PROVE StepOf(board, board')
  <2> DEFINE gone == {p \in board.ports : WindowOf(board, p) = w}
             left == WithoutPorts(board, gone)
  <2>1. StepOf(board, left)
    BY WithoutPortsIsStep DEF IInv
  <2>2. board' = [left EXCEPT !.overlay = IF @ # None /\ WindowOf(board, @) = w THEN None ELSE @]
    BY <1>2 DEF WindowRemoved
  <2> HIDE DEF left
  <2>3. /\ DOMAIN board' = DOMAIN left /\ board'.pairs = left.pairs /\ board'.ports = left.ports
        /\ board'.connections = left.connections /\ board'.watched = left.watched
    BY <2>1, <2>2 DEF StepOf, Sound
  <2>4. StepOf(left, board')
    BY <2>1, <2>3, SameIsStep DEF StepOf
  <2>5. Keeps(board, board')
    BY <2>1, <2>4 DEF StepOf, Keeps
  <2>6. Adds(board, left) \/ Deletes(board, left)
    BY <2>1 DEF StepOf
  <2>7. Adds(board, board') \/ Deletes(board, board')
    BY <2>3, <2>6 DEF Adds, Deletes
  <2> QED BY <2>4, <2>5, <2>7 DEF StepOf
<1>3. ASSUME NEW e \in Element, ElementRemoved(e) PROVE StepOf(board, board')
  BY <1>3, WithoutPortsIsStep DEF ElementRemoved, PortsOf, IInv
<1>4. ASSUME NEW p \in Port, ReleaseOn(p) PROVE StepOf(board, board')
  <2>1. connecting \in Known(board) /\ p \in board.ports /\ Sound(board)
    BY <1>4 DEF ReleaseOn, CompleteConnection, Visible, IInv
  <2>2. CASE ElementOf(board, connecting) = ElementOf(board, p)
    BY <1>4, <2>2, <1>1 DEF ReleaseOn, CompleteConnection
  <2>3. CASE ElementOf(board, connecting) # ElementOf(board, p)
    BY <1>4, <2>1, <2>3, WithConnectionIsStep DEF ReleaseOn, CompleteConnection
  <2> QED BY <2>2, <2>3
<1>5. ASSUME NEW p \in Port, DeletePort(p) PROVE StepOf(board, board')
  BY <1>5, WithoutPortsIsStep DEF DeletePort, Visible, IInv
<1>6. ASSUME CompleteDrag PROVE StepOf(board, board')
  <2>1. CASE drag.target = None \/ drag.targetWindow = None \/ drag.source = drag.target
    BY <1>6, <2>1, <1>1 DEF CompleteDrag
  <2>2. CASE ~(drag.target = None \/ drag.targetWindow = None \/ drag.source = drag.target)
    <3>1. board' = Dragged(board, drag) /\ drag \in Drag /\ Sound(board)
      BY <1>6, <2>2 DEF CompleteDrag, IInv
    <3>2. drag.target \in Element /\ drag.targetWindow \in Window
      BY <2>2, <3>1 DEF Drag
    <3> QED BY <2>2, <3>1, <3>2, DraggedIsStep
  <2> QED BY <2>1, <2>2
<1>7. ASSUME \/ \E p \in Port : HoverPort(p)
             \/ LeavePort \/ ShowHoverOverlay
      PROVE  StepOf(board, board')
  <2>1. \E h, o : board' = [board EXCEPT !.hovered = h, !.overlay = o]
    <3>1. ASSUME NEW p \in Port, HoverPort(p) PROVE board' = [board EXCEPT !.hovered = p, !.overlay = board.overlay]
      BY <3>1 DEF HoverPort, IInv, Sound
    <3>2. ASSUME LeavePort PROVE board' = [board EXCEPT !.hovered = None, !.overlay = None]
      BY <3>2 DEF LeavePort
    <3>3. ASSUME ShowHoverOverlay
          PROVE  \E o : board' = [board EXCEPT !.hovered = board.hovered, !.overlay = o]
      BY <3>3 DEF ShowHoverOverlay, IInv, Sound
    <3> QED BY <1>7, <3>1, <3>2, <3>3
  <2>2. /\ DOMAIN board' = DOMAIN board /\ board'.pairs = board.pairs /\ board'.ports = board.ports
        /\ board'.connections = board.connections /\ board'.watched = board.watched
    BY <2>1 DEF IInv, Sound
  <2> QED BY <2>2, SameIsStep DEF IInv
<1> QED
  BY <1>1, <1>2, <1>3, <1>4, <1>5, <1>6, <1>7
  DEF Next, vars, WindowAdded, Press, StartDrag, ToggleCreationMode, Escape, StartConnection,
      ReleaseElsewhere, MoveDragging, UpdateDragPreview

\* Whoever refers to a port or asks a question refers to what is known.
LEMMA InvariantKept ==
  ASSUME IInv, [Next]_vars
  PROVE  IInv'
<1>1. Sound(board') /\ Known(board) \subseteq Known(board')
  BY BoardSteps DEF StepOf, Keeps
<1>2. windows' \subseteq Window
  BY DEF IInv, Next, vars, WindowAdded, WindowRemoved, ElementRemoved, Press, StartDrag,
         ToggleCreationMode, Escape, StartConnection, ReleaseOn, CompleteConnection, DeletePort,
         HoverPort, CompleteDrag, ReleaseElsewhere, MoveDragging, LeavePort, UpdateDragPreview,
         ShowHoverOverlay, Replied
<1>3. connecting' \in Known(board) \cup {None}
  BY DEF IInv, Sound, Visible, Next, vars, WindowAdded, WindowRemoved, ElementRemoved, Press, StartDrag,
         ToggleCreationMode, Escape, StartConnection, ReleaseOn, CompleteConnection, DeletePort,
         HoverPort, CompleteDrag, ReleaseElsewhere, MoveDragging, LeavePort, UpdateDragPreview,
         ShowHoverOverlay, Replied
<1>4. drag' \in Drag \cup {None}
  <2>1. CASE drag' = drag \/ drag' = None
    BY <2>1 DEF IInv
  <2>2. ASSUME NEW e \in Element, StartDrag(e) PROVE drag' \in Drag
    BY <2>2, OwnerIsWindow DEF StartDrag, Drag
  <2>3. ASSUME UpdateDragPreview, drag # None, drag' # drag PROVE drag' \in Drag
    <3> DEFINE a == Head(pending).of
    <3>1. Head(pending) \in Reply /\ Head(pending).kind = "preview"
      BY <2>3, HeadTailProperties DEF UpdateDragPreview, Replied, IInv
    <3>2. a \in Element \cup {None}
      BY <3>1 DEF Reply
    <3>3. drag \in Drag
      BY <2>3 DEF IInv
    <3>4. PICK w \in WindowsOver(a) : drag' = [drag EXCEPT !.target = a, !.targetWindow = w]
      BY <2>3 DEF UpdateDragPreview
    <3>5. w \in Window \cup {None}
      BY <3>2, OwnerIsWindow DEF WindowsOver, IInv
    <3> HIDE DEF a
    <3> QED BY <3>2, <3>3, <3>4, <3>5 DEF Drag
  <2> QED
    BY <2>1, <2>2, <2>3
    DEF Next, vars, WindowAdded, WindowRemoved, ElementRemoved, Press, ToggleCreationMode, Escape,
        StartConnection, ReleaseOn, CompleteConnection, DeletePort, HoverPort, CompleteDrag,
        ReleaseElsewhere, MoveDragging, LeavePort, ShowHoverOverlay, UpdateDragPreview, Replied
<1>5. pending' \in Seq(Reply)
  <2>1. CASE pending' = pending
    BY <2>1 DEF IInv
  <2>2. ASSUME NEW a \in Live \cup {None}, Asked("preview", a) PROVE pending' \in Seq(Reply)
    <3>1. [kind |-> "preview", of |-> a] \in Reply
      BY DEF Reply, Live
    <3> QED BY <2>2, <3>1, AppendProperties DEF Asked, IInv
  <2>3. ASSUME NEW p \in Port, Asked("hover", p) PROVE pending' \in Seq(Reply)
    <3>1. [kind |-> "hover", of |-> p] \in Reply
      BY DEF Reply
    <3> QED BY <2>3, <3>1, AppendProperties DEF Asked, IInv
  <2>4. ASSUME NEW kind, Replied(kind) PROVE pending' \in Seq(Reply)
    BY <2>4, HeadTailProperties DEF Replied, IInv
  <2> QED
    BY <2>1, <2>2, <2>3, <2>4
    DEF Next, vars, WindowAdded, WindowRemoved, ElementRemoved, Press, StartDrag, ToggleCreationMode,
        Escape, StartConnection, ReleaseOn, CompleteConnection, DeletePort, HoverPort, CompleteDrag,
        ReleaseElsewhere, MoveDragging, LeavePort, UpdateDragPreview, ShowHoverOverlay
<1> QED BY <1>1, <1>2, <1>3, <1>4, <1>5 DEF IInv

\* The invariant behind the two theorems that follow.
THEOREM BoardSound == Spec => []IInv
BY InitSound, InvariantKept, PTL DEF Spec

\* No connection from an element to itself, whatever the order of drags, answers and removals
\* (completeDrag, completeConnection).
THEOREM NeverSelfConnected == Spec => []NoSelfConnection
<1>1. IInv => NoSelfConnection
  BY DEF IInv, Sound, NoSelfConnection
<1> QED BY <1>1, BoardSound, PTL

----------------------------------------------------------------------------
\* What is needed for the hover overlay: the hovered port is in the document, and unless the
\* overlay shows it, the youngest question about a hover is about it.  Its answer shows it,
\* and no answer comes after that one.
Hover(p) == [kind |-> "hover", of |-> p]
NoHover(q) == \A i \in DOMAIN q : q[i].kind # "hover"
LastHover(q, p) ==
  \E i \in DOMAIN q : q[i] = Hover(p) /\ \A j \in DOMAIN q : j > i => q[j].kind # "hover"

HoverSeen == board.hovered # None => board.hovered \in Visible
HoverAwaited ==
  board.hovered # None =>
    \/ LastHover(pending, board.hovered)
    \/ NoHover(pending) /\ board.overlay = board.hovered

\* A question about a hover becomes the youngest.
LEMMA AskedHover ==
  ASSUME NEW q \in Seq(Reply), NEW p \in Port
  PROVE  LastHover(Append(q, Hover(p)), p)
<1> DEFINE s == Append(q, Hover(p))
<1>1. Hover(p) \in Reply /\ Len(q) \in Nat
  BY LenProperties DEF Hover, Reply
<1>2. DOMAIN s = 1..Len(q) + 1 /\ s[Len(q) + 1] = Hover(p)
  BY <1>1, AppendProperties
<1> HIDE DEF s
<1>3. LastHover(s, p)
  BY <1>1, <1>2 DEF LastHover
<1> QED BY <1>3 DEF s

\* A question about a preview does not change which question about a hover is the youngest.
LEMMA AskedPreview ==
  ASSUME NEW q \in Seq(Reply), NEW a \in Element \cup {None}
  PROVE  LET s == Append(q, [kind |-> "preview", of |-> a]) IN
         /\ \A h : LastHover(q, h) => LastHover(s, h)
         /\ NoHover(q) => NoHover(s)
<1> DEFINE preview == [kind |-> "preview", of |-> a]
           s == Append(q, preview)
<1>1. preview \in Reply /\ Len(q) \in Nat /\ DOMAIN q = 1..Len(q)
  BY LenProperties DEF Reply
<1>2. /\ DOMAIN s = 1..Len(q) + 1 /\ s[Len(q) + 1] = preview
      /\ \A i \in 1..Len(q) : s[i] = q[i]
  BY <1>1, AppendProperties
<1>3. s[Len(q) + 1].kind # "hover"
  BY <1>2
<1> HIDE DEF s
<1>4. \A h : LastHover(q, h) => LastHover(s, h)
  BY <1>1, <1>2, <1>3 DEF LastHover
<1>5. NoHover(q) => NoHover(s)
  BY <1>1, <1>2, <1>3 DEF NoHover
<1> QED BY <1>4, <1>5 DEF s

\* When the oldest answer comes, the youngest question about a hover still waits, or it was it.
LEMMA AnsweredHover ==
  ASSUME NEW q \in Seq(Reply), q # <<>>
  PROVE  /\ \A h : LastHover(q, h) => \/ LastHover(Tail(q), h)
                                      \/ Head(q) = Hover(h) /\ NoHover(Tail(q))
         /\ NoHover(q) => NoHover(Tail(q)) /\ Head(q).kind # "hover"
<1>1. /\ Len(q) \in Nat /\ Len(q) > 0 /\ DOMAIN q = 1..Len(q) /\ Head(q) = q[1]
      /\ DOMAIN Tail(q) = 1..Len(q) - 1
      /\ \A i \in 1..Len(q) - 1 : Tail(q)[i] = q[i + 1]
  BY LenProperties, HeadTailProperties
<1> DEFINE t == Tail(q)
<1> HIDE DEF t
<1>2. /\ DOMAIN t = 1..Len(q) - 1 /\ \A i \in 1..Len(q) - 1 : t[i] = q[i + 1]
  BY <1>1 DEF t
<1>3. ASSUME NEW h, LastHover(q, h)
      PROVE  LastHover(t, h) \/ (Head(q) = Hover(h) /\ NoHover(t))
  <2>1. PICK i \in 1..Len(q) : q[i] = Hover(h) /\ \A j \in 1..Len(q) : j > i => q[j].kind # "hover"
    BY <1>1, <1>3 DEF LastHover
  <2>2. CASE i = 1
    BY <1>1, <1>2, <2>1, <2>2 DEF NoHover
  <2>3. CASE i # 1
    <3>1. i - 1 \in DOMAIN t /\ t[i - 1] = Hover(h)
      BY <1>1, <1>2, <2>1, <2>3
    <3>2. \A j \in DOMAIN t : j > i - 1 => t[j].kind # "hover"
      BY <1>1, <1>2, <2>1
    <3> QED BY <3>1, <3>2 DEF LastHover
  <2> QED BY <2>2, <2>3
<1>4. NoHover(q) => NoHover(t) /\ Head(q).kind # "hover"
  BY <1>1, <1>2 DEF NoHover
<1> QED BY <1>3, <1>4 DEF t

\* From b to c nothing that concerns the ports of b changes, what is hovered included.
Undisturbed(b, c) ==
  /\ c.hovered = b.hovered /\ c.overlay = b.overlay /\ b.ports \subseteq c.ports
  /\ \A p \in b.ports : WindowOf(c, p) = WindowOf(b, p)

\* The end of a drag does not disturb a hover.
LEMMA DraggedUndisturbed ==
  ASSUME NEW b, Sound(b), NEW d \in Drag, d.target \in Element, d.targetWindow \in Window
  PROVE  Undisturbed(b, Dragged(b, d))
<1>1. ASSUME NEW x, Sound(x), NEW e \in Element, NEW w \in Window
      PROVE  Undisturbed(x, WithPair(x, e, w))
  <2> DEFINE c == WithPair(x, e, w)
             new == [element |-> e, window |-> w]
  <2>1. CASE PortsOf(x, e) # {}
    BY <2>1 DEF WithPair, Undisturbed
  <2>2. CASE PortsOf(x, e) = {}
    <3>1. /\ c.pairs = Append(x.pairs, new) /\ x.ports \subseteq c.ports
          /\ c.hovered = x.hovered /\ c.overlay = x.overlay
      BY <1>1, <2>2 DEF WithPair, Sound
    <3>2. \A i \in 1..Len(x.pairs) : Append(x.pairs, new)[i] = x.pairs[i]
      BY <1>1, AppendProperties DEF Sound, Pair
    <3>3. \A p \in x.ports : p[1] \in 1..Len(x.pairs)
      BY <1>1 DEF Sound, Known
    <3> HIDE DEF c, new
    <3> QED BY <3>1, <3>2, <3>3 DEF Undisturbed, WindowOf, c
  <2> QED BY <2>1, <2>2
<1> DEFINE half == WithPair(b, d.source, d.window)
           made == WithPair(half, d.target, d.targetWindow)
<1>2. d.source \in Element /\ d.window \in Window
  BY DEF Drag
<1>3. Sound(half) /\ Undisturbed(b, half)
  BY <1>1, <1>2, WithPairIsStep
<1>4. Sound(made) /\ Undisturbed(half, made)
  <2> HIDE DEF half
  <2> QED BY <1>1, <1>3, WithPairIsStep
<1>5. Undisturbed(b, made)
  BY <1>3, <1>4 DEF Undisturbed
<1>6. Dragged(b, d) = made \/ \E s, t : Dragged(b, d) = WithConnection(made, s, t)
  BY DEF Dragged
<1> HIDE DEF made
<1>7. ASSUME NEW s, NEW t PROVE Undisturbed(made, WithConnection(made, s, t))
  BY <1>4 DEF Undisturbed, WithConnection, WindowOf, Sound
<1> QED BY <1>5, <1>6, <1>7 DEF Undisturbed

\* As long as nothing new is hovered or answered, what hangs on a hover stays as it was.
LEMMA UndisturbedHover ==
  ASSUME HoverSeen, HoverAwaited, Undisturbed(board, board'),
         UNCHANGED pending \/ \E a \in Live \cup {None} : Asked("preview", a),
         pending \in Seq(Reply), windows \subseteq windows'
  PROVE  HoverSeen' /\ HoverAwaited'
<1>1. HoverSeen'
  BY DEF HoverSeen, Visible, Undisturbed
<1>2. CASE UNCHANGED pending
  <2>1. board'.hovered = board.hovered /\ board'.overlay = board.overlay /\ pending' = pending
    BY <1>2 DEF Undisturbed
  <2> QED BY <1>1, <2>1 DEF HoverAwaited
<1>3. ASSUME NEW a \in Live \cup {None}, Asked("preview", a) PROVE HoverAwaited'
  <2>1. pending' = Append(pending, [kind |-> "preview", of |-> a]) /\ a \in Element \cup {None}
    BY <1>3 DEF Asked, Live
  <2>2. /\ \A h : LastHover(pending, h) => LastHover(pending', h)
        /\ NoHover(pending) => NoHover(pending')
    BY <2>1, AskedPreview
  <2> QED BY <2>2 DEF HoverAwaited, Undisturbed
<1> QED BY <1>1, <1>2, <1>3

\* Ports that go take the hover of one of them along, and leave that of another.
LEMMA WithoutPortsHover ==
  ASSUME Sound(board), HoverSeen, HoverAwaited, UNCHANGED pending,
         NEW gone \in SUBSET board.ports,
         NEW left, left = WithoutPorts(board, gone),
         board' = [left EXCEPT !.overlay = board'.overlay],
         board.hovered # None /\ board.hovered \notin gone /\ board.overlay = board.hovered
           => board'.overlay = board.overlay,
         \A p \in board.ports \ gone : WindowOf(board, p) \in windows => WindowOf(board, p) \in windows'
  PROVE  HoverSeen' /\ HoverAwaited'
<1>1. /\ left.pairs = board.pairs /\ left.ports = board.ports \ gone
      /\ left.hovered = (IF board.hovered \in gone THEN None ELSE board.hovered)
      /\ left.overlay = (IF board.hovered \in gone THEN None ELSE board.overlay)
      /\ DOMAIN left = DOMAIN board
  BY DEF WithoutPorts, Sound
<1>2. board'.pairs = board.pairs /\ board'.ports = left.ports /\ board'.hovered = left.hovered
  BY <1>1 DEF Sound
<1>3. CASE board.hovered \in gone
  BY <1>1, <1>2, <1>3 DEF HoverSeen, HoverAwaited
<1>4. CASE board.hovered \notin gone
  <2>1. board'.hovered = board.hovered
    BY <1>1, <1>2, <1>4
  <2>2. HoverSeen'
    BY <1>1, <1>2, <1>4, <2>1 DEF HoverSeen, Visible, WindowOf
  <2>3. HoverAwaited'
    BY <1>4, <2>1 DEF HoverAwaited
  <2> QED BY <2>2, <2>3
<1> QED BY <1>3, <1>4

\* No step parts a hover from its overlay but through an answer that is still to come.
LEMMA HoverKept ==
  ASSUME IInv, HoverSeen, HoverAwaited, [Next]_vars
  PROVE  HoverSeen' /\ HoverAwaited'
<1>1. Sound(board) /\ pending \in Seq(Reply)
  BY DEF IInv
<1>2. CASE UNCHANGED <<board, pending>> /\ windows \subseteq windows'
  <2>1. Undisturbed(board, board')
    BY <1>2 DEF Undisturbed
  <2> QED BY <1>1, <1>2, <2>1, UndisturbedHover
<1>3. ASSUME NEW w \in Window, WindowRemoved(w) PROVE HoverSeen' /\ HoverAwaited'
  <2> DEFINE gone == {p \in board.ports : WindowOf(board, p) = w}
             left == WithoutPorts(board, gone)
  <2>1. /\ windows' = windows \ {w} /\ UNCHANGED pending
        /\ board' = [left EXCEPT !.overlay = IF @ # None /\ WindowOf(board, @) = w THEN None ELSE @]
    BY <1>3 DEF WindowRemoved
  <2>2. DOMAIN left = DOMAIN board /\ "overlay" \in DOMAIN left
    BY <1>1 DEF WithoutPorts, Sound
  <2>3. board.hovered \notin gone => left.overlay = board.overlay
    BY <1>1 DEF WithoutPorts, Sound
  <2>4. \A l : l = left => board' = [l EXCEPT !.overlay = board'.overlay]
    <3> HIDE DEF left
    <3> QED BY <2>1, <2>2
  <2>5. \A p \in board.ports \ gone : WindowOf(board, p) \in windows => WindowOf(board, p) \in windows'
    BY <2>1
  <2>6. ASSUME board.hovered # None, board.hovered \notin gone, board.overlay = board.hovered
        PROVE  board'.overlay = board.overlay
    <3>1. WindowOf(board, board.overlay) # w
      BY <2>6 DEF HoverSeen, Visible
    <3> HIDE DEF left
    <3> QED BY <2>1, <2>2, <2>3, <2>6, <3>1
  <2>7. gone \in SUBSET board.ports
    OBVIOUS
  <2> HIDE DEF gone
  <2> QED BY <1>1, <2>1, <2>4, <2>5, <2>6, <2>7, WithoutPortsHover
<1>4. ASSUME NEW gone \in SUBSET board.ports, board' = WithoutPorts(board, gone),
             UNCHANGED <<windows, pending>>
      PROVE  HoverSeen' /\ HoverAwaited'
  <2>1. board' = [board' EXCEPT !.overlay = board'.overlay]
    BY <1>1, <1>4 DEF WithoutPorts, Sound
  <2>2. board.hovered \notin gone => board'.overlay = board.overlay
    BY <1>1, <1>4 DEF WithoutPorts, Sound
  <2> QED BY <1>1, <1>4, <2>1, <2>2, WithoutPortsHover
<1>5. ASSUME NEW e \in Element, ElementRemoved(e) PROVE HoverSeen' /\ HoverAwaited'
  BY <1>4, <1>5 DEF ElementRemoved, PortsOf
<1>6. ASSUME NEW p \in Port, DeletePort(p) PROVE HoverSeen' /\ HoverAwaited'
  BY <1>4, <1>6 DEF DeletePort, Visible
<1>7. ASSUME NEW p \in Port, ReleaseOn(p) PROVE HoverSeen' /\ HoverAwaited'
  <2>1. board' = board \/ board' = WithConnection(board, connecting, p)
    BY <1>7 DEF ReleaseOn, CompleteConnection
  <2>2. Undisturbed(board, board')
    BY <1>1, <2>1 DEF Undisturbed, WithConnection, WindowOf, Sound
  <2>3. UNCHANGED <<windows, pending>>
    BY <1>7 DEF ReleaseOn, CompleteConnection
  <2> QED BY <1>1, <2>2, <2>3, UndisturbedHover
<1>8. ASSUME CompleteDrag PROVE HoverSeen' /\ HoverAwaited'
  <2>1. UNCHANGED <<windows, pending>>
    BY <1>8 DEF CompleteDrag
  <2>2. CASE UNCHANGED board
    BY <1>2, <2>1, <2>2
  <2>3. CASE board' # board
    <3>1. drag \in Drag /\ drag.target # None /\ drag.targetWindow # None /\ board' = Dragged(board, drag)
      BY <1>8, <2>3 DEF CompleteDrag, IInv
    <3>2. drag.target \in Element /\ drag.targetWindow \in Window
      BY <3>1 DEF Drag
    <3>3. Undisturbed(board, board')
      BY <1>1, <3>1, <3>2, DraggedUndisturbed
    <3> QED BY <1>1, <2>1, <3>3, UndisturbedHover
  <2> QED BY <2>2, <2>3
<1>9. ASSUME MoveDragging PROVE HoverSeen' /\ HoverAwaited'
  <2>1. UNCHANGED <<windows, board>> /\ \E a \in Live \cup {None} : Asked("preview", a)
    BY <1>9 DEF MoveDragging
  <2>2. Undisturbed(board, board')
    BY <2>1 DEF Undisturbed
  <2> QED BY <1>1, <2>1, <2>2, UndisturbedHover
<1>10. ASSUME NEW p \in Port, HoverPort(p) PROVE HoverSeen' /\ HoverAwaited'
  <2>1. /\ p \in Visible /\ windows' = windows /\ pending' = Append(pending, Hover(p))
        /\ board' = [board EXCEPT !.hovered = p]
    BY <1>10 DEF HoverPort, Asked, Hover
  <2>2. board'.hovered = p /\ board'.ports = board.ports /\ board'.pairs = board.pairs
    BY <1>1, <2>1 DEF Sound
  <2>3. LastHover(pending', p)
    BY <1>1, <2>1, AskedHover
  <2>4. HoverSeen'
    BY <2>1, <2>2 DEF HoverSeen, Visible, WindowOf
  <2> QED BY <2>2, <2>3, <2>4 DEF HoverAwaited
<1>11. ASSUME LeavePort PROVE HoverSeen' /\ HoverAwaited'
  <2>1. board'.hovered = None
    BY <1>1, <1>11 DEF LeavePort, Sound
  <2> QED BY <2>1 DEF HoverSeen, HoverAwaited
<1>12. ASSUME NEW kind, Replied(kind)
       PROVE  /\ windows' = windows
              /\ \A h : LastHover(pending, h) => \/ LastHover(pending', h)
                                                 \/ Head(pending) = Hover(h) /\ NoHover(pending')
              /\ NoHover(pending) => NoHover(pending') /\ kind # "hover"
  BY <1>1, <1>12, AnsweredHover DEF Replied
<1>13. ASSUME UpdateDragPreview PROVE HoverSeen' /\ HoverAwaited'
  <2>1. board' = board /\ Head(pending).kind = "preview" /\ Replied("preview")
    BY <1>13 DEF UpdateDragPreview, Replied
  <2>2. \A h : Head(pending) # Hover(h)
    BY <2>1 DEF Hover
  <2>3. HoverSeen'
    BY <1>12, <2>1 DEF HoverSeen, Visible
  <2>4. HoverAwaited'
    BY <1>12, <2>1, <2>2 DEF HoverAwaited
  <2> QED BY <2>3, <2>4
<1>14. ASSUME ShowHoverOverlay PROVE HoverSeen' /\ HoverAwaited'
  <2> DEFINE p == Head(pending).of
  <2>1. /\ Replied("hover") /\ Head(pending).kind = "hover"
        /\ board' = [board EXCEPT !.overlay = IF WindowOf(board, p) \in windows THEN p ELSE @]
    BY <1>14 DEF ShowHoverOverlay, Replied
  <2>2. /\ board'.hovered = board.hovered /\ board'.ports = board.ports /\ board'.pairs = board.pairs
        /\ WindowOf(board, p) \in windows => board'.overlay = p
    BY <1>1, <2>1 DEF Sound
  <2>3. HoverSeen'
    BY <1>12, <2>1, <2>2 DEF HoverSeen, Visible, WindowOf
  <2>4. ASSUME board.hovered # None, ~LastHover(pending', board.hovered)
        PROVE  NoHover(pending') /\ board'.overlay = board.hovered
    <3>1. LastHover(pending, board.hovered)
      BY <1>12, <2>1, <2>4 DEF HoverAwaited
    <3>2. Head(pending) = Hover(board.hovered) /\ NoHover(pending')
      BY <1>12, <2>1, <2>4, <3>1
    <3>3. p = board.hovered /\ WindowOf(board, p) \in windows
      BY <2>4, <3>2 DEF Hover, HoverSeen, Visible
    <3> QED BY <2>2, <3>2, <3>3
  <2>5. HoverAwaited'
    BY <2>2, <2>4 DEF HoverAwaited
  <2> QED BY <2>3, <2>5
<1> QED
  BY <1>2, <1>3, <1>5, <1>6, <1>7, <1>8, <1>9, <1>10, <1>11, <1>13, <1>14
  DEF Next, vars, WindowAdded, Press, StartDrag, ToggleCreationMode, Escape, StartConnection,
      ReleaseElsewhere

\* Once no answer about a hover is on its way, the overlay is the hovered port's
\* (showHoverOverlay), whichever ports were crossed and windows closed while they came.
THEOREM HoverIsShown == Spec => []HoverSettles
<1>1. Init => HoverSeen /\ HoverAwaited
  BY DEF Init, HoverSeen, HoverAwaited
<1>2. LastHover(pending, board.hovered) => \E i \in DOMAIN pending : pending[i].kind = "hover"
  BY DEF LastHover, Hover
<1>3. HoverAwaited => HoverSettles
  BY <1>2 DEF HoverAwaited, HoverSettles
<1> QED BY <1>1, <1>3, BoardSound, HoverKept, PTL DEF Spec

----------------------------------------------------------------------------
\* A step of the board, seen as sets of ports and wires, is one of PortBoard.
LEMMA BoardStepRefines ==
  ASSUME Sound(board), StepOf(board, board')
  PROVE  Board!Next
<1> DEFINE P == {[id |-> p, element |-> ElementOf(board, p)] : p \in board.ports}
           Q == {[id |-> p, element |-> ElementOf(board', p)] : p \in board'.ports}
           W == {<<c.source, c.target>> : c \in board.connections}
           X == {<<c.source, c.target>> : c \in board'.connections}
<1>1. \A p \in board.ports : ElementOf(board', p) = ElementOf(board, p)
  BY DEF StepOf, Keeps, Sound
<1>2. {p.id : p \in P} = board.ports /\ {p.id : p \in Q} = board'.ports
  <2>1. /\ \A p \in P : p.id \in board.ports
        /\ \A q \in Q : q.id \in board'.ports
    OBVIOUS
  <2>2. ASSUME NEW p \in board.ports PROVE \E x \in P : x.id = p
    <3> WITNESS [id |-> p, element |-> ElementOf(board, p)] \in P
    <3> QED OBVIOUS
  <2>3. ASSUME NEW p \in board'.ports PROVE \E x \in Q : x.id = p
    <3> WITNESS [id |-> p, element |-> ElementOf(board', p)] \in Q
    <3> QED OBVIOUS
  <2> HIDE DEF P, Q
  <2> QED BY <2>1, <2>2, <2>3
<1>3. board'.watched = {p.element : p \in Q}
  <2>1. {p.element : p \in Q} = {ElementOf(board', p) : p \in board'.ports}
    <3>1. \A q \in Q : \E p \in board'.ports : q.element = ElementOf(board', p)
      OBVIOUS
    <3>2. ASSUME NEW p \in board'.ports PROVE \E q \in Q : q.element = ElementOf(board', p)
      <4> WITNESS [id |-> p, element |-> ElementOf(board', p)] \in Q
      <4> QED OBVIOUS
    <3> HIDE DEF Q
    <3> QED BY <3>1, <3>2
  <2> QED BY <2>1 DEF StepOf, Sound
<1>4. CASE Adds(board, board')
  <2>1. P \ Q = {}
    BY <1>1, <1>4 DEF Adds
  <2>2. W \subseteq X
    BY <1>4 DEF Adds
  <2>3. {p.id : p \in Q \ P} \cap {p.id : p \in P} = {}
    <3> SUFFICES ASSUME NEW q \in Q, q \notin P, q.id \in board.ports PROVE FALSE
      BY <1>2
    <3> QED BY <1>1
  <2>4. \A x \in X \ W : \E c \in board'.connections \ board.connections : x = <<c.source, c.target>>
    OBVIOUS
  <2>5. (\A x, y \in X \ W : x = y) /\ (\A x \in X \ W : x[2] \in {p.id : p \in Q})
    BY <1>2, <1>4, <2>4 DEF Adds
  <2> HIDE DEF P, Q, W, X
  <2> QED BY <1>3, <2>1, <2>2, <2>3, <2>5 DEF Board!Next, Board!Ids, Board!Elements, P, Q, W, X
<1>5. CASE Deletes(board, board')
  <2>1. Q \ P = {}
    BY <1>1, <1>5 DEF Deletes
  <2>2. {p.id : p \in P \ Q} = board.ports \ board'.ports
    <3>1. ASSUME NEW p \in P, p \notin Q PROVE p.id \in board.ports \ board'.ports
      BY <1>1, <3>1
    <3>2. ASSUME NEW p \in board.ports \ board'.ports
          PROVE  \E x \in P \ Q : x.id = p
      <4>1. [id |-> p, element |-> ElementOf(board, p)] \in P \ Q
        OBVIOUS
      <4> WITNESS [id |-> p, element |-> ElementOf(board, p)] \in P \ Q
      <4> QED OBVIOUS
    <3> HIDE DEF P, Q
    <3> QED BY <3>1, <3>2
  <2>3. X = {x \in W : x[1] \notin board.ports \ board'.ports /\ x[2] \notin board.ports \ board'.ports}
    BY <1>5 DEF Deletes
  <2> HIDE DEF P, Q, W, X
  <2> QED BY <1>3, <2>1, <2>2, <2>3 DEF Board!Next, Board!Ids, Board!Kept, Board!Elements, P, Q, W, X
<1> QED BY <1>4, <1>5 DEF StepOf

\* The handlers of ports.ts, in whatever order events and answers come, implement PortBoard.
THEOREM PortsImplementBoard == Spec => ImplementsBoard
<1>1. Init => Board!Init
  BY DEF Init, Board!Init
<1>2. IInv /\ [Next]_vars => [Board!Next]_(Board!vars)
  BY BoardSteps, BoardStepRefines DEF IInv
<1> QED BY <1>1, <1>2, BoardSound, PTL DEF Spec, ImplementsBoard, Board!Spec

==============================================================================
