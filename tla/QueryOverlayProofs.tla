------------------------- MODULE QueryOverlayProofs -------------------------
(***************************************************************************)
(* QueryOverlay implements PortBoard, keeps queried windows observed and   *)
(* captures the mouse only while needed, for any elements and windows, any *)
(* trees and queries and any bounds.                                       *)
(***************************************************************************)
EXTENDS QueryOverlay, SequenceTheorems, TLAPS

\* Whatever a query can find.
Found == {FindAmong(left, Root[w], find) : left \in SUBSET Element, w \in Window, find \in Queries}

LEMMA FindsFound ==
  ASSUME NEW left \in SUBSET Element, NEW w \in Window, NEW find \in Queries
  PROVE  FindAmong(left, Root[w], find) \in Found
BY DEF Found

USE NoneIsNothing, ElementsOfWindows

Roots == {Root[w] : w \in Window}

PortMade == [window : Window, element : Element, side : {"in", "out"}, tree : Roots \cup {None}]

Call ==
  [kind : {"press"}, element : Element \cap TextAreas] \cup [kind : {"query"}, element : Element]
  \cup [kind : {"root"}, element : Roots]
  \cup [kind : {"unobserved"}, element : Found, iface : Nat]
  \cup [kind : {"drop"}, element : (Element \cap (Writable \cup TextAreas)) \cup {None}, source : 1..MaxPorts]

Interface == [window : Window, find : Queries \cup {<<"tree">>}, root : Roots \cup Found, port : Nat]

\* Elements with ports.
Els == {made[p].element : p \in ports}

----------------------------------------------------------------------------
\* The board: ports are of those made, and the elements with ports are watched but for the
\* windows' roots, which are observed.
Wired ==
  /\ made \in Seq(PortMade) /\ ports \subseteq 1..Len(made)
  /\ watched = Els \ Roots

BoardInv ==
  /\ Wired
  /\ windows \subseteq Window
  /\ drag \in (1..MaxPorts) \cup {None}
  /\ pending \in Seq(Call)
  /\ made_ifs \in Seq(Interface) /\ iface \in [Window -> 0..Len(made_ifs)]

\* A step of PortBoard, in the terms of QueryOverlay.
Adds ==
  /\ ports \subseteq ports' /\ conns \subseteq conns'
  /\ \A c, d \in conns' \ conns : c = d
  /\ \A c \in conns' \ conns : c[2] \in ports'
Deletes ==
  /\ ports' \subseteq ports
  /\ conns' = {c \in conns : {c[1], c[2]} \cap (ports \ ports') = {}}
\* Ports that were made stay as they are, and none that went comes back.
Grows ==
  /\ Len(made) <= Len(made')
  /\ \A p \in 1..Len(made) : made'[p] = made[p] /\ (p \in ports' => p \in ports)
BoardStep == Wired' /\ Grows /\ (Adds \/ Deletes)

\* Nothing happens to the board, or only a connection is made.
LEMMA SameBoard ==
  ASSUME Wired, UNCHANGED <<made, ports, watched>>, Adds
  PROVE  BoardStep
<1>1. Len(made) \in Nat
  BY LenProperties DEF Wired
<1>2. Grows
  BY <1>1 DEF Grows
<1> QED BY <1>2 DEF BoardStep, Wired, Els

LEMMA UnchangedBoard == ASSUME Wired, UNCHANGED wires PROVE BoardStep
BY SameBoard DEF wires, Adds

\* Ports made last, all watched but roots.
LEMMA PortsAdded ==
  ASSUME Wired, NEW new \in Seq(PortMade), made' = made \o new,
         ports' = ports \cup ((Len(made) + 1)..(Len(made) + Len(new))),
         watched' = watched \cup {e \in {new[i].element : i \in 1..Len(new)} : e \notin Roots}
  PROVE  Wired' /\ ports \subseteq ports' /\ Grows
<1> PICK m, n : m = Len(made) /\ n = Len(new)
  OBVIOUS
<1>1. /\ made' \in Seq(PortMade) /\ Len(made') = m + n /\ m \in Nat /\ n \in Nat
      /\ \A p \in 1..m : made'[p] = made[p]
      /\ \A i \in 1..n : made'[m + i] = new[i]
  BY ConcatProperties, LenProperties DEF Wired
<1>2. ports' = ports \cup ((m + 1)..(m + n)) /\ ports \subseteq 1..m
  BY DEF Wired
<1>3. \A p \in ports : made'[p] = made[p]
  BY <1>1, <1>2
<1>4. ASSUME NEW p \in (m + 1)..(m + n) PROVE \E i \in 1..n : made'[p] = new[i]
  <2>1. p - m \in 1..n /\ m + (p - m) = p
    BY <1>1
  <2> QED BY <1>1, <2>1
<1>5. ASSUME NEW i \in 1..n PROVE m + i \in ports' /\ made'[m + i] = new[i]
  BY <1>1, <1>2
<1>6. ports' \subseteq 1..Len(made')
  <2>1. (\A p \in 1..m : p \in 1..(m + n)) /\ (\A p \in (m + 1)..(m + n) : p \in 1..(m + n))
    BY <1>1
  <2>2. ports' \subseteq 1..(m + n)
    BY <1>2, <2>1
  <2> QED BY <1>1, <2>2
<1>7. Els' = Els \cup {new[i].element : i \in 1..n}
  <2>1. Els' = {made'[p].element : p \in ports'} /\ Els = {made[p].element : p \in ports}
    BY DEF Els
  <2>2. ASSUME NEW p \in ports' PROVE made'[p].element \in Els \cup {new[i].element : i \in 1..n}
    <3>1. CASE p \in ports
      BY <1>3, <2>1, <3>1
    <3>2. CASE p \in (m + 1)..(m + n)
      BY <1>4, <3>2
    <3> QED BY <1>2, <3>1, <3>2
  <2>3. ASSUME NEW p \in ports PROVE made[p].element \in Els'
    BY <1>2, <1>3, <2>1
  <2>4. ASSUME NEW i \in 1..n PROVE new[i].element \in Els'
    BY <1>5, <2>1
  <2>5. Els' \subseteq Els \cup {new[i].element : i \in 1..n}
    <3> SUFFICES ASSUME NEW e \in Els' PROVE e \in Els \cup {new[i].element : i \in 1..n}
      OBVIOUS
    <3>1. PICK p \in ports' : e = made'[p].element
      BY <2>1
    <3> QED BY <2>2, <3>1
  <2>6. Els \subseteq Els'
    <3> SUFFICES ASSUME NEW e \in Els PROVE e \in Els'
      OBVIOUS
    <3>1. PICK p \in ports : e = made[p].element
      BY <2>1
    <3> QED BY <2>3, <3>1
  <2> QED BY <2>4, <2>5, <2>6
<1>8. watched' = Els' \ Roots
  BY <1>7 DEF Wired
<1>9. Grows
  BY <1>1, <1>2 DEF Grows
<1> QED BY <1>1, <1>2, <1>6, <1>8, <1>9 DEF Wired

\* deletePort, for any set of ports.
LEMMA PortsDeleted ==
  ASSUME Wired, NEW gone \in SUBSET ports, DeletePorts(gone), UNCHANGED made
  PROVE  BoardStep
<1>1. ports' = ports \ gone /\ conns' = {c \in conns : {c[1], c[2]} \cap gone = {}}
  BY DEF DeletePorts
<1>2. watched' = watched \ ({made[p].element : p \in gone} \ {made[p].element : p \in ports'})
  BY DEF DeletePorts
<1>3. Els' = {made[p].element : p \in ports'}
  BY DEF Els
<1>4. watched' = Els' \ Roots
  BY <1>1, <1>2, <1>3 DEF Wired, Els
<1>5. Deletes
  BY <1>1 DEF Deletes
<1>6. Grows
  BY <1>1, LenProperties DEF Grows, Wired
<1> QED BY <1>1, <1>4, <1>5, <1>6 DEF BoardStep, Wired

----------------------------------------------------------------------------
\* What is asked for is what its answer can take.
LEMMA PendedCall ==
  ASSUME pending \in Seq(Call), NEW c \in Call, Pend(c)
  PROVE  pending' \in Seq(Call)
BY AppendProperties DEF Pend

LEMMA AnsweredCall ==
  ASSUME pending \in Seq(Call), NEW kind, Answered(kind)
  PROVE  Head(pending) \in Call /\ Head(pending).kind = kind /\ pending' \in Seq(Call)
BY HeadTailProperties DEF Answered

LEMMA TransformStep ==
  ASSUME BoardInv, MakeTransform
  PROVE  BoardStep /\ pending' \in Seq(Call)
<1> DEFINE e == Head(pending).element
           new == <<NewPort(Owner[e], e, "in", None), NewPort(Owner[e], e, "out", None)>>
<1>1. Head(pending) \in Call /\ Head(pending).kind = "press" /\ pending' \in Seq(Call)
  BY AnsweredCall DEF MakeTransform, BoardInv
<1>2. e \in Element /\ e \in TextAreas
  BY <1>1 DEF Call
<1>3. e \notin Roots
  BY <1>2 DEF Roots
<1>4. watched' = watched \cup {e} /\ UNCHANGED conns
  BY DEF MakeTransform
<1>5. CASE PortsOf(e) # {}
  <2>1. UNCHANGED <<made, ports>>
    BY <1>5 DEF MakeTransform
  <2>2. e \in Els
    BY <1>5 DEF PortsOf, Els
  <2>3. watched' = watched
    BY <1>3, <1>4, <2>2 DEF BoardInv, Wired
  <2>4. made' = made /\ ports' = ports /\ conns' = conns /\ watched' = watched
    BY <1>4, <2>1, <2>3
  <2> QED BY <1>1, <2>4, UnchangedBoard DEF BoardInv, wires
<1>6. CASE PortsOf(e) = {}
  <2>1. made' = made \o new /\ ports' = ports \cup {Len(made) + 1, Len(made) + 2}
    BY <1>6 DEF MakeTransform
  <2> PICK f : f = e
    OBVIOUS
  <2> PICK a, b : a = NewPort(Owner[f], f, "in", None) /\ b = NewPort(Owner[f], f, "out", None)
    OBVIOUS
  <2>2. a \in PortMade /\ b \in PortMade /\ a.element = f /\ b.element = f /\ new = <<a, b>>
    BY <1>2 DEF NewPort, PortMade
  <2>3. new \in Seq(PortMade) /\ Len(new) = 2 /\ new[1] = a /\ new[2] = b
    BY <2>2
  <2> HIDE DEF new
  <2>4. ports' = ports \cup ((Len(made) + 1)..(Len(made) + Len(new)))
    <3>1. Len(made) \in Nat
      BY LenProperties DEF BoardInv, Wired
    <3>2. {Len(made) + 1, Len(made) + 2} = (Len(made) + 1)..(Len(made) + 2)
      BY <3>1
    <3> QED BY <2>1, <2>3, <3>2
  <2>5. watched' = watched \cup {x \in {new[i].element : i \in 1..Len(new)} : x \notin Roots}
    <3>1. \A i \in 1..2 : new[i].element = f
      BY <2>2, <2>3
    <3>2. {new[i].element : i \in 1..2} = {f}
      BY <3>1
    <3> QED BY <1>3, <1>4, <2>3, <3>2
  <2>6. Wired' /\ ports \subseteq ports' /\ Grows
    BY <2>1, <2>3, <2>4, <2>5, PortsAdded DEF BoardInv
  <2>7. Adds
    BY <1>4, <2>6 DEF Adds
  <2> QED BY <1>1, <2>6, <2>7 DEF BoardStep
<1> QED BY <1>5, <1>6

\* One port more, and at most one connection, to a port that is there then.
LEMMA PortAdded ==
  ASSUME Wired, NEW x \in PortMade, made' = Append(made, x), ports' = ports \cup {Len(made) + 1},
         watched' = watched \cup ({x.element} \ Roots),
         conns' = conns \/ \E s : conns' = conns \cup {<<s, Len(made) + 1>>}
  PROVE  BoardStep
<1> PICK new : new = <<x>>
  OBVIOUS
<1>1. new \in Seq(PortMade) /\ Len(new) = 1 /\ new[1] = x
  OBVIOUS
<1>2. Len(made) \in Nat /\ made' = made \o new
  BY LenProperties DEF Wired
<1>3. ports' = ports \cup ((Len(made) + 1)..(Len(made) + Len(new)))
  <2>1. {Len(made) + 1} = (Len(made) + 1)..(Len(made) + 1)
    BY <1>2
  <2> QED BY <1>1, <2>1
<1>4. watched' = watched \cup {e \in {new[i].element : i \in 1..Len(new)} : e \notin Roots}
  <2>1. {new[i].element : i \in 1..1} = {x.element}
    BY <1>1
  <2> QED BY <1>1, <2>1
<1>5. Wired' /\ ports \subseteq ports' /\ Grows
  BY <1>1, <1>2, <1>3, <1>4, PortsAdded
<1>6. Adds
  BY <1>5 DEF Adds
<1> QED BY <1>5, <1>6 DEF BoardStep

LEMMA WindowQueriedStep ==
  ASSUME BoardInv, MakeWindowQueried
  PROVE  BoardStep /\ pending' \in Seq(Call)
<1> DEFINE r == Head(pending).element
<1>1. Head(pending) \in Call /\ Head(pending).kind = "root" /\ pending' \in Seq(Call)
  BY AnsweredCall DEF MakeWindowQueried, BoardInv
<1>2. r \in Roots /\ r \in Element
  BY <1>1 DEF Call, Roots
<1>3. CASE UNCHANGED wires
  BY <1>1, <1>3, UnchangedBoard DEF BoardInv
<1>4. CASE /\ made' = Append(made, NewPort(Owner[r], r, "out", r))
           /\ ports' = ports \cup {Len(made) + 1}
           /\ UNCHANGED <<conns, watched>>
  <2> PICK x : x = NewPort(Owner[r], r, "out", r)
    OBVIOUS
  <2>1. x \in PortMade /\ x.element = r
    BY <1>2 DEF NewPort, PortMade
  <2>2. watched' = watched \cup ({x.element} \ Roots)
    BY <1>2, <1>4, <2>1
  <2> QED BY <1>1, <1>4, <2>1, <2>2, PortAdded DEF BoardInv
<1> QED BY <1>3, <1>4 DEF MakeWindowQueried

LEMMA DropStep ==
  ASSUME BoardInv, DropPortOnElement
  PROVE  BoardStep /\ pending' \in Seq(Call)
<1> DEFINE e == Head(pending).element
           source == Head(pending).source
           n == Len(made) + 1
<1>1. Head(pending) \in Call /\ Head(pending).kind = "drop" /\ pending' \in Seq(Call)
  BY AnsweredCall DEF DropPortOnElement, BoardInv
<1>2. e \in (Element \cap (Writable \cup TextAreas)) \cup {None}
  BY <1>1 DEF Call
<1>3. CASE UNCHANGED wires
  BY <1>1, <1>3, UnchangedBoard DEF BoardInv
<1>4. CASE \E p \in Inputs(e) : conns' = conns \cup {<<source, p>>} /\ UNCHANGED <<made, ports, watched>>
  <2>1. PICK p \in ports : conns' = conns \cup {<<source, p>>} /\ UNCHANGED <<made, ports, watched>>
    BY <1>4 DEF Inputs, PortsOf
  <2>2. Adds
    BY <2>1 DEF Adds
  <2> QED BY <1>1, <2>1, <2>2, SameBoard DEF BoardInv
<1>5. CASE /\ e \in Writable /\ (\E w \in WindowsOver(e) : made' = Append(made, NewPort(w, e, "in", None)))
           /\ ports' = ports \cup {n} /\ conns' = conns \cup {<<source, n>>} /\ watched' = watched \cup {e}
  <2>1. e \in Element /\ e \notin Roots
    BY <1>5 DEF Roots
  <2>2. PICK w \in WindowsOver(e) : made' = Append(made, NewPort(w, e, "in", None))
    BY <1>5
  <2>3. w \in Window
    BY <2>1, <2>2 DEF WindowsOver, BoardInv
  <2> PICK x : x = NewPort(w, e, "in", None)
    OBVIOUS
  <2>4. x \in PortMade /\ x.element = e
    BY <2>1, <2>3 DEF NewPort, PortMade
  <2>5. watched' = watched \cup ({x.element} \ Roots)
    BY <1>5, <2>1, <2>4
  <2> QED BY <1>1, <1>5, <2>2, <2>4, <2>5, PortAdded DEF BoardInv
<1> QED BY <1>3, <1>4, <1>5 DEF DropPortOnElement

----------------------------------------------------------------------------
LEMMA InitBoard == Init => BoardInv
<1>1. <<>> \in Seq(PortMade) /\ <<>> \in Seq(Call)
  OBVIOUS
<1>2. <<>> \in Seq(Interface) /\ Len(<<>>) = 0
  OBVIOUS
<1> QED BY <1>1, <1>2 DEF Init, BoardInv, Wired, Els

LEMMA FoundIsFound ==
  ASSUME NEW w \in Window, NEW find \in Queries
  PROVE  Find(Root[w], find) \in Found
<1>1. PICK left \in SUBSET Element : left = Live
  BY DEF Live
<1>2. FindAmong(left, Root[w], find) = Find(Root[w], find)
  BY <1>1 DEF Find
<1> QED BY <1>2, FindsFound

\* Every handler makes at most one step of the board, and asks for what its answer can take.
LEMMA BoardSteps ==
  ASSUME BoardInv, [Next]_vars
  PROVE  BoardStep /\ pending' \in Seq(Call)
<1>1. CASE UNCHANGED wires /\ pending' \in Seq(Call)
  BY <1>1, UnchangedBoard DEF BoardInv
<1>2. CASE UNCHANGED <<wires, pending>>
  BY <1>1, <1>2 DEF BoardInv
<1>3. ASSUME NEW gone \in SUBSET ports, DeletePorts(gone), UNCHANGED <<made, pending>>
      PROVE  BoardStep /\ pending' \in Seq(Call)
  BY <1>3, PortsDeleted DEF BoardInv
<1>4. ASSUME NEW w \in Window, WindowRemoved(w) PROVE BoardStep /\ pending' \in Seq(Call)
  BY <1>3, <1>4 DEF WindowRemoved
<1>5. ASSUME NEW e \in Element, ElementRemoved(e) PROVE BoardStep /\ pending' \in Seq(Call)
  BY <1>3, <1>5 DEF ElementRemoved, PortsOf
<1>6. ASSUME NEW p \in 1..MaxPorts, DeletePort(p) PROVE BoardStep /\ pending' \in Seq(Call)
  BY <1>3, <1>6 DEF DeletePort, Visible
<1>7. ASSUME NEW e \in Element, Press(e) PROVE BoardStep /\ pending' \in Seq(Call)
  <2>1. UNCHANGED wires
    BY <1>7 DEF Press
  <2>2. ASSUME e \in TextAreas, Pend([kind |-> "press", element |-> e]) PROVE pending' \in Seq(Call)
    <3>1. [kind |-> "press", element |-> e] \in Call
      BY <2>2 DEF Call
    <3> QED BY <2>2, <3>1, PendedCall DEF BoardInv
  <2>3. ASSUME Pend([kind |-> "query", element |-> Root[Owner[e]]]) PROVE pending' \in Seq(Call)
    <3>1. [kind |-> "query", element |-> Root[Owner[e]]] \in Call
      BY DEF Call
    <3> QED BY <2>3, <3>1, PendedCall DEF BoardInv
  <2> QED BY <1>1, <1>7, <2>1, <2>2, <2>3 DEF Press
<1>8. ASSUME AskWindowRoot PROVE BoardStep /\ pending' \in Seq(Call)
  <2> DEFINE w == Owner[Head(pending).element]
  <2>1. Head(pending) \in Call /\ Head(pending).kind = "query" /\ Tail(pending) \in Seq(Call)
    BY <1>8, HeadTailProperties DEF AskWindowRoot, BoardInv
  <2>2. w \in Window
    BY <2>1 DEF Call
  <2>3. [kind |-> "root", element |-> Root[w]] \in Call
    BY <2>2 DEF Call, Roots
  <2>4. \/ pending' = Append(Tail(pending), [kind |-> "root", element |-> Root[w]])
        \/ pending' = Tail(pending)
    BY <1>8 DEF AskWindowRoot
  <2>5. pending' \in Seq(Call)
    <3> PICK c, rest : c = [kind |-> "root", element |-> Root[w]] /\ rest = Tail(pending)
      OBVIOUS
    <3>1. c \in Call /\ rest \in Seq(Call)
      BY <2>1, <2>3
    <3>2. Append(rest, c) \in Seq(Call)
      BY <3>1, AppendProperties
    <3> QED BY <2>4, <3>1, <3>2
  <2> QED BY <1>1, <1>8, <2>5 DEF AskWindowRoot
<1>9. ASSUME NEW w \in Window, NEW find \in Queries, UpdateInterfaceQuery(w, find)
      PROVE  BoardStep /\ pending' \in Seq(Call)
  <2> DEFINE i == iface[w]
             found == Find(Root[w], find)
  <2>1. UNCHANGED wires
    BY <1>9 DEF UpdateInterfaceQuery
  <2>2. UNCHANGED pending \/ Pend([kind |-> "unobserved", element |-> found, iface |-> i])
    BY <1>9 DEF UpdateInterfaceQuery
  <2>3. found \in Found
    BY FoundIsFound DEF BoardInv
  <2>4. i \in Nat
    BY LenProperties DEF BoardInv
  <2>5. [kind |-> "unobserved", element |-> found, iface |-> i] \in Call
    <3> HIDE DEF i, found
    <3> QED BY <2>3, <2>4 DEF Call
  <2> HIDE DEF i, found
  <2>6. pending' \in Seq(Call)
    BY <2>2, <2>5, PendedCall DEF BoardInv
  <2> QED BY <1>1, <2>1, <2>6
<1>10. ASSUME ObserveFound PROVE BoardStep /\ pending' \in Seq(Call)
  BY <1>1, <1>10, AnsweredCall DEF ObserveFound, BoardInv
<1>11. ASSUME NEW p \in 1..MaxPorts, CompletePortDrag(p) PROVE BoardStep /\ pending' \in Seq(Call)
  <2>1. p \in ports /\ conns' = conns \cup {<<drag, p>>} /\ UNCHANGED <<made, ports, watched, pending>>
    BY <1>11 DEF CompletePortDrag, Visible
  <2>2. Adds
    BY <2>1 DEF Adds
  <2> QED BY <2>1, <2>2, SameBoard DEF BoardInv
<1>12. ASSUME DropPort PROVE BoardStep /\ pending' \in Seq(Call)
  <2>1. PICK e \in (Live \cap (Writable \cup TextAreas)) \cup {None} :
          Pend([kind |-> "drop", element |-> e, source |-> drag])
    BY <1>12 DEF DropPort
  <2>2. e \in (Element \cap (Writable \cup TextAreas)) \cup {None} /\ drag \in 1..MaxPorts
    BY <1>12, <2>1 DEF DropPort, Live, BoardInv
  <2>3. [kind |-> "drop", element |-> e, source |-> drag] \in Call
    BY <2>2 DEF Call
  <2>4. pending' \in Seq(Call)
    BY <2>1, <2>3, PendedCall DEF BoardInv
  <2> QED BY <1>1, <1>12, <2>4 DEF DropPort
<1>13. ASSUME ToggleCreationMode \/ Escape \/ (\E w \in Window : WindowAdded(w))
              \/ (\E p \in 1..MaxPorts : StartPortDrag(p))
       PROVE  UNCHANGED <<wires, pending>>
  BY <1>13 DEF ToggleCreationMode, Escape, WindowAdded, StartPortDrag
<1> QED
  BY <1>2, <1>4, <1>5, <1>6, <1>7, <1>8, <1>9, <1>10, <1>11, <1>12, <1>13,
     TransformStep, WindowQueriedStep, DropStep
  DEF Next, vars

\* Whatever a handler does to windows, drag and interfaces leaves them of their kind.
LEMMA BoardKept ==
  ASSUME BoardInv, [Next]_vars
  PROVE  BoardInv'
<1>1. Wired' /\ pending' \in Seq(Call)
  BY BoardSteps DEF BoardStep
<1>2. windows' \subseteq Window
  BY DEF BoardInv, Next, vars, WindowAdded, WindowRemoved, UpdateInterfaceQuery, ElementRemoved, Press,
         StartPortDrag, CompletePortDrag, DeletePort, ToggleCreationMode, Escape, DropPort,
         MakeTransform, AskWindowRoot, MakeWindowQueried, ObserveFound, DropPortOnElement
<1>3. drag' \in (1..MaxPorts) \cup {None}
  BY DEF BoardInv, Next, vars, WindowAdded, WindowRemoved, UpdateInterfaceQuery, ElementRemoved, Press,
         StartPortDrag, CompletePortDrag, DeletePort, ToggleCreationMode, Escape, DropPort, CancelPortDrag,
         MakeTransform, AskWindowRoot, MakeWindowQueried, ObserveFound, DropPortOnElement
<1> DEFINE Ifs == made_ifs' \in Seq(Interface) /\ iface' \in [Window -> 0..Len(made_ifs')]
<1>4. ASSUME UNCHANGED <<made_ifs, iface>> PROVE Ifs
  BY <1>4 DEF BoardInv
<1>5. ASSUME NEW w \in Window, WindowRemoved(w) PROVE Ifs
  BY <1>5, LenProperties DEF WindowRemoved, BoardInv
<1>6. ASSUME MakeWindowQueried, ~UNCHANGED <<made_ifs, iface>> PROVE Ifs
  <2> DEFINE r == Head(pending).element
             w == Owner[r]
             x == [window |-> w, find |-> <<"tree">>, root |-> r, port |-> Len(made) + 1]
  <2>1. Head(pending) \in Call /\ Head(pending).kind = "root"
    BY <1>6, AnsweredCall DEF MakeWindowQueried, BoardInv
  <2>2. r \in Roots /\ w \in Window
    BY <2>1 DEF Call, Roots
  <2>3. made_ifs' = Append(made_ifs, x) /\ iface' = [iface EXCEPT ![w] = Len(made_ifs) + 1]
    BY <1>6 DEF MakeWindowQueried, queried
  <2>4. Len(made) + 1 \in Nat
    BY LenProperties DEF BoardInv, Wired
  <2>5. x \in Interface
    BY <2>2, <2>4 DEF Interface
  <2> HIDE DEF x
  <2>6. made_ifs' \in Seq(Interface) /\ Len(made_ifs') = Len(made_ifs) + 1 /\ Len(made_ifs) \in Nat
    BY <2>3, <2>5, AppendProperties, LenProperties DEF BoardInv
  <2> QED BY <2>2, <2>3, <2>6 DEF BoardInv
<1>7. ASSUME NEW w \in Window, NEW find \in Queries, UpdateInterfaceQuery(w, find) PROVE Ifs
  <2> PICK i : i = iface[w]
    OBVIOUS
  <2>1. i \in 1..Len(made_ifs) /\ i \in Nat
    BY <1>7, LenProperties DEF UpdateInterfaceQuery, BoardInv
  <2>2. made_ifs[i] \in Interface
    BY <2>1, ElementOfSeq DEF BoardInv
  <2> PICK x : x = [made_ifs[i] EXCEPT !.find = find]
    OBVIOUS
  <2>3. x \in Interface
    BY <2>2 DEF Interface
  <2>4. made_ifs' = [made_ifs EXCEPT ![i] = x] /\ iface' = iface
    BY <1>7 DEF UpdateInterfaceQuery
  <2>5. made_ifs' \in Seq(Interface) /\ Len(made_ifs') = Len(made_ifs)
    BY <2>1, <2>3, <2>4, ExceptSeq DEF BoardInv
  <2> QED BY <2>4, <2>5 DEF BoardInv
<1>8. ASSUME ObserveFound PROVE Ifs
  <2> PICK i, found : i = Head(pending).iface /\ found = Head(pending).element
    OBVIOUS
  <2>1. Head(pending) \in Call /\ Head(pending).kind = "unobserved"
    BY <1>8, AnsweredCall DEF ObserveFound, BoardInv
  <2>2. i \in Nat /\ found \in Found
    BY <2>1 DEF Call
  <2>3. made_ifs' = [made_ifs EXCEPT ![i].root = found] /\ iface' = iface
    BY <1>8 DEF ObserveFound
  <2>4. CASE i \in 1..Len(made_ifs)
    <3>1. made_ifs[i] \in Interface
      BY <2>4, ElementOfSeq DEF BoardInv
    <3> PICK x : x = [made_ifs[i] EXCEPT !.root = found]
      OBVIOUS
    <3>2. x \in Interface
      BY <2>2, <3>1 DEF Interface
    <3>3. made_ifs' = [made_ifs EXCEPT ![i] = x]
      BY <2>3
    <3>4. made_ifs' \in Seq(Interface) /\ Len(made_ifs') = Len(made_ifs)
      BY <2>4, <3>2, <3>3, ExceptSeq DEF BoardInv
    <3> QED BY <2>3, <3>4 DEF BoardInv
  <2>5. CASE i \notin 1..Len(made_ifs)
    <3>1. DOMAIN made_ifs = 1..Len(made_ifs)
      BY LenProperties DEF BoardInv
    <3>2. made_ifs' = made_ifs
      BY <2>3, <2>5, <3>1 DEF BoardInv
    <3> QED BY <2>3, <3>2 DEF BoardInv
  <2> QED BY <2>4, <2>5
<1>9. Ifs
  BY <1>4, <1>5, <1>6, <1>7, <1>8
  DEF Next, vars, WindowAdded, ElementRemoved, Press, StartPortDrag, CompletePortDrag, DeletePort,
      ToggleCreationMode, Escape, DropPort, MakeTransform, AskWindowRoot, DropPortOnElement, queried
<1> QED BY <1>1, <1>2, <1>3, <1>9 DEF BoardInv

\* The invariant behind the theorems that follow.
THEOREM BoardIsWired == Spec => []BoardInv
BY InitBoard, BoardKept, PTL DEF Spec

----------------------------------------------------------------------------
\* What hides the page from the mouse: a drag, whose port is one, or the creation mode.
OpenInv ==
  /\ creating \in BOOLEAN /\ OpaqueOnlyWhileNeeded

LEMMA OpenKept ==
  ASSUME BoardInv, OpenInv, [Next]_vars
  PROVE  OpenInv'
<1>1. CASE UNCHANGED <<drag, creating, mode>>
  BY <1>1 DEF OpenInv, OpaqueOnlyWhileNeeded
<1>2. CASE CancelPortDrag /\ UNCHANGED creating
  BY <1>2 DEF CancelPortDrag, OpenInv, OpaqueOnlyWhileNeeded
<1>3. CASE ToggleCreationMode
  BY <1>3 DEF ToggleCreationMode, OpenInv, OpaqueOnlyWhileNeeded
<1>4. ASSUME NEW p \in 1..MaxPorts, StartPortDrag(p) PROVE OpenInv'
  <2>1. drag' = p /\ mode' = "opaque" /\ creating' = creating
    BY <1>4 DEF StartPortDrag
  <2>2. p # None
    OBVIOUS
  <2> QED BY <2>1, <2>2 DEF OpenInv, OpaqueOnlyWhileNeeded
<1> QED
  BY <1>1, <1>2, <1>3, <1>4
  DEF Next, vars, WindowAdded, WindowRemoved, UpdateInterfaceQuery, ElementRemoved, Press,
      CompletePortDrag, DeletePort, Escape, DropPort, MakeTransform, AskWindowRoot,
      MakeWindowQueried, ObserveFound, DropPortOnElement

\* The overlay swallows the mouse only while a port is dragged or in creation mode
\* (startPortDrag, cancelPortDrag, setCreationMode), whatever crosses.
THEOREM OverlayStaysOpen == Spec => []OpaqueOnlyWhileNeeded
<1>1. Init => OpenInv
  BY DEF Init, OpenInv, OpaqueOnlyWhileNeeded
<1>2. OpenInv => OpaqueOnlyWhileNeeded
  BY DEF OpenInv
<1> QED BY <1>1, <1>2, BoardIsWired, OpenKept, PTL DEF Spec

----------------------------------------------------------------------------
\* A step of the board, seen as sets of ports and wires, is one of PortBoard.
LEMMA BoardStepRefines ==
  ASSUME BoardInv, BoardStep
  PROVE  Board!Next
<1> DEFINE P == {[id |-> p, element |-> made[p].element] : p \in ports}
           Q == {[id |-> p, element |-> made'[p].element] : p \in ports'}
           w == watched \cup ({made[p].element : p \in ports} \cap {Root[x] : x \in Window})
           v == watched' \cup ({made'[p].element : p \in ports'} \cap {Root[x] : x \in Window})
<1>1. \A p \in ports : made'[p].element = made[p].element
  BY DEF BoardStep, Grows, BoardInv, Wired
<1>2. {p.id : p \in P} = ports /\ {p.id : p \in Q} = ports'
  <2>1. /\ \A p \in P : p.id \in ports
        /\ \A q \in Q : q.id \in ports'
    OBVIOUS
  <2>2. ASSUME NEW p \in ports PROVE \E x \in P : x.id = p
    <3> WITNESS [id |-> p, element |-> made[p].element] \in P
    <3> QED OBVIOUS
  <2>3. ASSUME NEW p \in ports' PROVE \E x \in Q : x.id = p
    <3> WITNESS [id |-> p, element |-> made'[p].element] \in Q
    <3> QED OBVIOUS
  <2> HIDE DEF P, Q
  <2> QED BY <2>1, <2>2, <2>3
<1>3. v = {p.element : p \in Q}
  <2>1. {p.element : p \in Q} = {made'[p].element : p \in ports'}
    <3>1. \A q \in Q : \E p \in ports' : q.element = made'[p].element
      OBVIOUS
    <3>2. ASSUME NEW p \in ports' PROVE \E q \in Q : q.element = made'[p].element
      <4> WITNESS [id |-> p, element |-> made'[p].element] \in Q
      <4> QED OBVIOUS
    <3> HIDE DEF Q
    <3> QED BY <3>1, <3>2
  <2>2. watched' = {made'[p].element : p \in ports'} \ {Root[x] : x \in Window}
    BY DEF BoardStep, Wired, Els, Roots
  <2> QED BY <2>1, <2>2
<1>4. CASE Adds
  <2>1. P \ Q = {}
    BY <1>1, <1>4 DEF Adds
  <2>2. {p.id : p \in Q \ P} \cap {p.id : p \in P} = {}
    <3> SUFFICES ASSUME NEW q \in Q, q \notin P, q.id \in ports PROVE FALSE
      BY <1>2
    <3> QED BY <1>1
  <2>3. \A c \in conns' \ conns : c[2] \in {p.id : p \in Q}
    BY <1>2, <1>4 DEF Adds
  <2> HIDE DEF P, Q, v, w
  <2> QED BY <1>3, <1>4, <2>1, <2>2, <2>3 DEF Adds, Board!Next, Board!Ids, Board!Elements, P, Q, v
<1>5. CASE Deletes
  <2>1. Q \ P = {}
    BY <1>1, <1>5 DEF Deletes
  <2>2. {p.id : p \in P \ Q} = ports \ ports'
    <3>1. ASSUME NEW p \in P, p \notin Q PROVE p.id \in ports \ ports'
      BY <1>1, <3>1
    <3>2. ASSUME NEW p \in ports \ ports' PROVE \E x \in P \ Q : x.id = p
      <4>1. [id |-> p, element |-> made[p].element] \in P \ Q
        OBVIOUS
      <4> WITNESS [id |-> p, element |-> made[p].element] \in P \ Q
      <4> QED OBVIOUS
    <3> HIDE DEF P, Q
    <3> QED BY <3>1, <3>2
  <2>3. conns' = {c \in conns : c[1] \notin ports \ ports' /\ c[2] \notin ports \ ports'}
    BY <1>5 DEF Deletes
  <2> HIDE DEF P, Q, v, w
  <2> QED BY <1>3, <2>1, <2>2, <2>3 DEF Board!Next, Board!Ids, Board!Kept, Board!Elements, P, Q, v
<1> QED BY <1>4, <1>5 DEF BoardStep

\* The handlers of query.ts, in whatever order events and answers come, implement PortBoard.
THEOREM OverlayImplementsBoard == Spec => ImplementsBoard
<1>1. Init => Board!Init
  BY DEF Init, Board!Init
<1>2. BoardInv /\ [Next]_vars => [Board!Next]_(Board!vars)
  BY BoardSteps, BoardStepRefines
<1> QED BY <1>1, <1>2, BoardIsWired, PTL DEF Spec, ImplementsBoard, Board!Spec

----------------------------------------------------------------------------
\* What keeps a queried window observed.  An interface shows an element of its window, and its
\* port stands for the window's root; an update that unobserved the old element is on its way
\* until it observes the new one.
Updates(q) == {c \in Call : c.kind = "unobserved" /\ \E k \in DOMAIN q : q[k] = c}

Awaited(i, q) == \E c \in Updates(q) : c.iface = i

ShowsOwn(f, m) ==
  /\ f.root \in Element /\ Owner[f.root] = f.window
  /\ f.port \in 1..Len(m) /\ m[f.port].tree = Root[f.window]

ObserveInv ==
  /\ \A i \in 1..Len(made_ifs) : ShowsOwn(made_ifs[i], made)
  /\ \A w \in Window : iface[w] # 0 => made_ifs[iface[w]].window = w
  /\ \A c \in Updates(pending) : /\ c.iface \in 1..Len(made_ifs) /\ c.element \in Element
                                /\ Owner[c.element] = made_ifs[c.iface].window
  /\ \A w \in Window :
       iface[w] # 0 /\ made_ifs[iface[w]].port \in ports /\ ~Awaited(iface[w], pending)
         => made_ifs[iface[w]].root \in observed

\* Questions of another kind are no updates.
LEMMA PendedUpdates ==
  ASSUME NEW q \in Seq(Call), NEW c \in Call
  PROVE  Updates(Append(q, c)) = IF c.kind = "unobserved" THEN Updates(q) \cup {c} ELSE Updates(q)
<1> DEFINE s == Append(q, c)
<1>1. /\ Len(q) \in Nat /\ DOMAIN q = 1..Len(q) /\ DOMAIN s = 1..Len(q) + 1 /\ s[Len(q) + 1] = c
      /\ \A k \in 1..Len(q) : s[k] = q[k]
  BY AppendProperties, LenProperties
<1> HIDE DEF s
<1>2. \A x : (\E k \in DOMAIN s : s[k] = x) <=> (x = c \/ \E k \in DOMAIN q : q[k] = x)
  BY <1>1
<1>3. CASE c.kind = "unobserved"
  <2>1. Updates(s) = Updates(q) \cup {c}
    BY <1>2, <1>3 DEF Updates
  <2> QED BY <1>3, <2>1 DEF s
<1>4. CASE c.kind # "unobserved"
  <2>1. Updates(s) = Updates(q)
    BY <1>2, <1>4 DEF Updates
  <2> QED BY <1>4, <2>1 DEF s
<1> QED BY <1>3, <1>4

LEMMA AnsweredUpdates ==
  ASSUME NEW q \in Seq(Call), q # <<>>
  PROVE  /\ Updates(Tail(q)) \subseteq Updates(q)
         /\ Updates(q) \subseteq Updates(Tail(q)) \cup {Head(q)}
         /\ Head(q).kind # "unobserved" => Updates(q) \subseteq Updates(Tail(q))
<1> DEFINE t == Tail(q)
<1>1. /\ Len(q) \in Nat /\ Len(q) > 0 /\ DOMAIN q = 1..Len(q) /\ Head(q) = q[1]
      /\ DOMAIN t = 1..Len(q) - 1 /\ \A k \in 1..Len(q) - 1 : t[k] = q[k + 1]
  BY LenProperties, HeadTailProperties
<1> HIDE DEF t
<1>2. ASSUME NEW k \in DOMAIN t PROVE \E j \in DOMAIN q : q[j] = t[k]
  <2>1. k + 1 \in DOMAIN q
    BY <1>1
  <2> QED BY <1>1, <2>1
<1>3. ASSUME NEW j \in DOMAIN q, q[j] # Head(q) PROVE \E k \in DOMAIN t : t[k] = q[j]
  <2>1. j - 1 \in DOMAIN t
    BY <1>1, <1>3
  <2> QED BY <1>1, <2>1
<1>4. Updates(t) \subseteq Updates(q)
  BY <1>2 DEF Updates
<1>5. Updates(q) \subseteq Updates(t) \cup {Head(q)}
  BY <1>3 DEF Updates
<1>6. Head(q).kind # "unobserved" => Updates(q) \subseteq Updates(t)
  BY <1>3 DEF Updates
<1> QED BY <1>4, <1>5, <1>6 DEF t

LEMMA OtherAnswers ==
  ASSUME BoardInv, NEW kind, kind # "unobserved", Answered(kind)
  PROVE  Updates(pending') = Updates(pending)
<1>1. pending \in Seq(Call) /\ pending # <<>> /\ Head(pending).kind = kind /\ pending' = Tail(pending)
  BY DEF BoardInv, Answered
<1>2. Updates(Tail(pending)) \subseteq Updates(pending) /\ Updates(pending) \subseteq Updates(Tail(pending))
  BY <1>1, AnsweredUpdates
<1> QED BY <1>1, <1>2

LEMMA OtherQuestions ==
  ASSUME BoardInv, NEW c \in Call, c.kind # "unobserved", Pend(c)
  PROVE  Updates(pending') = Updates(pending)
<1>1. pending \in Seq(Call) /\ pending' = Append(pending, c)
  BY DEF BoardInv, Pend
<1> QED BY <1>1, PendedUpdates

\* What an interface shows goes on being its own as the board grows.
LEMMA ShownKept ==
  ASSUME BoardInv, Grows, made' \in Seq(PortMade), NEW f, ShowsOwn(f, made)
  PROVE  ShowsOwn(f, made')
BY LenProperties DEF ShowsOwn, Grows, BoardInv, Wired

\* Handlers that leave interfaces, observations and updates alone.
LEMMA ObserveUndisturbed ==
  ASSUME BoardInv, ObserveInv, Wired', Grows, UNCHANGED <<made_ifs, iface, observed>>,
         Updates(pending') = Updates(pending)
  PROVE  ObserveInv'
<1>1. \A f : ShowsOwn(f, made) => ShowsOwn(f, made')
  BY ShownKept DEF Wired
<1>2. \A i \in 1..Len(made_ifs') : ShowsOwn(made_ifs'[i], made')
  BY <1>1 DEF ObserveInv
<1>3. \A i : Awaited(i, pending') <=> Awaited(i, pending)
  BY DEF Awaited
<1>4. ASSUME NEW w \in Window, iface[w] # 0, made_ifs[iface[w]].port \in ports', ~Awaited(iface[w], pending)
      PROVE  made_ifs[iface[w]].root \in observed
  <2>1. iface[w] \in 1..Len(made_ifs)
    BY <1>4, LenProperties DEF BoardInv
  <2>2. made_ifs[iface[w]].port \in 1..Len(made)
    BY <2>1 DEF ObserveInv, ShowsOwn
  <2>3. made_ifs[iface[w]].port \in ports
    BY <1>4, <2>2 DEF Grows
  <2> QED BY <1>4, <2>3 DEF ObserveInv
<1>5. \A c \in Updates(pending') :
        /\ c.iface \in 1..Len(made_ifs') /\ c.element \in Element
        /\ Owner[c.element] = made_ifs'[c.iface].window
  BY DEF ObserveInv
<1> QED BY <1>2, <1>3, <1>4, <1>5 DEF ObserveInv

\* Ports that go take along the observations of trees that no port is left of: not that of an
\* interface whose port stays, for this port is of the window's root.
LEMMA ObserveDeleted ==
  ASSUME BoardInv, ObserveInv, NEW gone \in SUBSET ports, DeletePorts(gone),
         UNCHANGED <<made, made_ifs, pending>>, \A w \in Window : iface'[w] \in {iface[w], 0}
  PROVE  ObserveInv'
<1>1. /\ ports' = ports \ gone
      /\ observed' = observed \ ({made[p].tree : p \in gone} \ {made[p].tree : p \in ports'})
  BY DEF DeletePorts
<1>2. \A i : Awaited(i, pending') <=> Awaited(i, pending)
  BY DEF Awaited, ShowsOwn
<1>3. ASSUME NEW w \in Window, iface'[w] # 0, made_ifs[iface'[w]].port \in ports', ~Awaited(iface'[w], pending')
      PROVE  made_ifs[iface'[w]].root \in observed'
  <2> PICK f : f = made_ifs[iface[w]]
    OBVIOUS
  <2>1. iface'[w] = iface[w] /\ iface[w] \in 1..Len(made_ifs)
    BY <1>3, LenProperties DEF BoardInv
  <2>2. ShowsOwn(f, made) /\ f.window = w /\ f.port \in ports' /\ f.port \in ports
    BY <1>1, <1>3, <2>1 DEF ObserveInv
  <2>3. f.root \in observed
    BY <1>3, <2>1, <2>2 DEF ObserveInv
  <2>4. ASSUME NEW p \in gone, made[p].tree = f.root PROVE f.root = made[f.port].tree
    <3>1. made[p] \in PortMade
      BY ElementOfSeq DEF BoardInv, Wired
    <3>2. f.root \in Roots
      BY <2>2, <2>4, <3>1 DEF PortMade, ShowsOwn
    <3>3. f.root = Root[w]
      BY <2>2, <3>2 DEF Roots, ShowsOwn
    <3> QED BY <2>2, <3>3 DEF ShowsOwn
  <2> QED BY <1>1, <2>1, <2>2, <2>3, <2>4
<1>4. \A i \in 1..Len(made_ifs') : ShowsOwn(made_ifs'[i], made')
  BY <1>2 DEF ObserveInv
<1>5. \A w \in Window : iface'[w] # 0 => made_ifs'[iface'[w]].window = w
  BY DEF ObserveInv
<1>6. \A c \in Updates(pending') :
        /\ c.iface \in 1..Len(made_ifs') /\ c.element \in Element
        /\ Owner[c.element] = made_ifs'[c.iface].window
  BY DEF ObserveInv
<1> QED BY <1>2, <1>3, <1>4, <1>5, <1>6 DEF ObserveInv

\* A new interface observes its window's root.
LEMMA ObserveQueried ==
  ASSUME BoardInv, ObserveInv, MakeWindowQueried, Wired', Grows
  PROVE  ObserveInv'
<1> PICK r, w : r = Head(pending).element /\ w = Owner[r]
  OBVIOUS
<1>1. Head(pending) \in Call /\ Head(pending).kind = "root"
  BY AnsweredCall DEF MakeWindowQueried, BoardInv
<1>2. Updates(pending') = Updates(pending)
  BY OtherAnswers DEF MakeWindowQueried
<1>3. CASE UNCHANGED <<made_ifs, iface, observed>>
  BY <1>2, <1>3, ObserveUndisturbed
<1>4. CASE ~UNCHANGED <<made_ifs, iface, observed>>
  <2> PICK n, f : n = Len(made_ifs) + 1
                  /\ f = [window |-> w, find |-> <<"tree">>, root |-> r, port |-> Len(made) + 1]
    OBVIOUS
  <2>1. /\ made_ifs' = Append(made_ifs, f) /\ iface' = [iface EXCEPT ![w] = n]
        /\ observed' = observed \cup {r} /\ made' = Append(made, NewPort(w, r, "out", r))
    BY <1>4 DEF MakeWindowQueried, queried
  <2>2. r \in Roots /\ r = Root[w] /\ w \in Window /\ r \in Element
    BY <1>1 DEF Call, Roots
  <2>3. /\ f.window = w /\ f.root = r /\ f.port = Len(made) + 1
    OBVIOUS
  <2>4. Len(made) \in Nat /\ Len(made_ifs) \in Nat
    BY LenProperties DEF BoardInv, Wired
  <2>5. f \in Interface
    BY <2>2, <2>4 DEF Interface
  <2>6. /\ Len(made_ifs') = n /\ made_ifs'[n] = f
        /\ \A i \in 1..Len(made_ifs) : made_ifs'[i] = made_ifs[i]
    BY <2>1, <2>5, AppendProperties DEF BoardInv
  <2>7. NewPort(w, r, "out", r) \in PortMade /\ NewPort(w, r, "out", r).tree = r
    BY <2>2 DEF NewPort, PortMade
  <2>8. Len(made') = Len(made) + 1 /\ made'[Len(made) + 1].tree = r
    BY <2>1, <2>7, AppendProperties DEF BoardInv, Wired
  <2>9. ShowsOwn(f, made')
    BY <2>2, <2>3, <2>4, <2>8 DEF ShowsOwn
  <2>10. \A i \in 1..Len(made_ifs') : ShowsOwn(made_ifs'[i], made')
    <3>1. \A x : ShowsOwn(x, made) => ShowsOwn(x, made')
      BY ShownKept DEF Wired
    <3> QED BY <2>4, <2>6, <2>9, <3>1 DEF ObserveInv
  <2>11. ASSUME NEW v \in Window, iface'[v] # 0
         PROVE  /\ made_ifs'[iface'[v]].window = v
                /\ made_ifs'[iface'[v]].port \in ports' /\ ~Awaited(iface'[v], pending')
                     => made_ifs'[iface'[v]].root \in observed'
    <3>1. CASE v = w
      BY <2>1, <2>2, <2>3, <2>6, <3>1 DEF BoardInv
    <3>2. CASE v # w
      <4>1. iface'[v] = iface[v] /\ iface[v] \in 1..Len(made_ifs) /\ made_ifs'[iface[v]] = made_ifs[iface[v]]
        BY <2>1, <2>4, <2>6, <2>11, <3>2 DEF BoardInv
      <4>2. made_ifs[iface[v]].port \in 1..Len(made)
        BY <4>1 DEF ObserveInv, ShowsOwn
      <4>3. made_ifs[iface[v]].port \in ports' => made_ifs[iface[v]].port \in ports
        BY <4>2 DEF Grows
      <4>4. Awaited(iface[v], pending') <=> Awaited(iface[v], pending)
        BY <1>2 DEF Awaited
      <4> QED BY <2>1, <2>11, <4>1, <4>3, <4>4 DEF ObserveInv
    <3> QED BY <3>1, <3>2
  <2>12. \A c \in Updates(pending') :
           /\ c.iface \in 1..Len(made_ifs') /\ c.element \in Element
           /\ Owner[c.element] = made_ifs'[c.iface].window
    BY <1>2, <2>4, <2>6 DEF ObserveInv
  <2> QED BY <2>10, <2>11, <2>12 DEF ObserveInv
<1> QED BY <1>3, <1>4

\* A query that finds another element of its window unobserves the old one, which no other
\* interface shows to its window's profit, and has an update on its way.
LEMMA ObserveUpdated ==
  ASSUME FindsInWindow, BoardInv, ObserveInv, Wired', Grows, UNCHANGED <<made, ports>>,
         NEW w \in Window, NEW find \in Queries, UpdateInterfaceQuery(w, find)
  PROVE  ObserveInv'
<1> PICK i, found : i = iface[w] /\ found = Find(Root[w], find)
  OBVIOUS
<1>1. i \in 1..Len(made_ifs) /\ i # 0 /\ made_ifs[i].window = w /\ iface' = iface
  BY LenProperties DEF UpdateInterfaceQuery, BoardInv, ObserveInv
<1> PICK f : f = made_ifs[i]
  OBVIOUS
<1>2. f \in Interface /\ ShowsOwn(f, made) /\ f.window = w
  BY <1>1, ElementOfSeq DEF ObserveInv, BoardInv
<1> PICK g : g = [f EXCEPT !.find = find]
  OBVIOUS
<1>3. g.window = f.window /\ g.root = f.root /\ g.port = f.port /\ made_ifs' = [made_ifs EXCEPT ![i] = g]
  BY <1>2 DEF UpdateInterfaceQuery, Interface
<1>4. /\ Len(made_ifs') = Len(made_ifs)
      /\ \A k \in 1..Len(made_ifs) : /\ made_ifs'[k].window = made_ifs[k].window
                                     /\ made_ifs'[k].root = made_ifs[k].root
                                     /\ made_ifs'[k].port = made_ifs[k].port
  BY <1>1, <1>3, LenProperties DEF BoardInv
<1>5. \A k \in 1..Len(made_ifs') : ShowsOwn(made_ifs'[k], made')
  BY <1>4 DEF ObserveInv, ShowsOwn
<1>6. \A v \in Window : iface[v] # 0 => iface[v] \in 1..Len(made_ifs)
  BY LenProperties DEF BoardInv
<1>7. \A v \in Window : iface'[v] # 0 => made_ifs'[iface'[v]].window = v
  BY <1>1, <1>4, <1>6 DEF ObserveInv
<1>8. CASE UNCHANGED <<observed, pending>>
  <2>1. \A v \in Window : iface'[v] # 0 /\ made_ifs'[iface'[v]].port \in ports' /\ ~Awaited(iface'[v], pending')
                         => made_ifs'[iface'[v]].root \in observed'
    BY <1>1, <1>4, <1>6, <1>8 DEF ObserveInv
  <2>2. \A c \in Updates(pending') : /\ c.iface \in 1..Len(made_ifs') /\ c.element \in Element
                                     /\ Owner[c.element] = made_ifs'[c.iface].window
    BY <1>4, <1>8 DEF ObserveInv
  <2> QED BY <1>5, <1>7, <2>1, <2>2 DEF ObserveInv
<1>9. CASE /\ found # None /\ observed' = observed \ {f.root}
           /\ Pend([kind |-> "unobserved", element |-> found, iface |-> i])
  <2>1. found \in Found /\ found \in Element /\ Owner[found] = w
    <3>1. PICK left \in SUBSET Element : left = Live
      BY DEF Live
    <3>2. FindAmong(left, Root[w], find) = found
      BY <3>1 DEF Find
    <3>3. found \in {None} \cup {e \in Element : Owner[e] = w}
      BY <3>2 DEF FindsInWindow
    <3> QED BY <1>9, <3>2, <3>3, FindsFound
  <2> PICK u : u = [kind |-> "unobserved", element |-> found, iface |-> i]
    OBVIOUS
  <2>2. u.kind = "unobserved" /\ u.element = found /\ u.iface = i
    OBVIOUS
  <2>3. u \in Call
    BY <1>1, <2>1 DEF Call
  <2>4. Updates(pending') = Updates(pending) \cup {u}
    <3>1. pending \in Seq(Call) /\ pending' = Append(pending, u)
      BY <1>9 DEF BoardInv, Pend
    <3> QED BY <2>2, <2>3, <3>1, PendedUpdates
  <2>5. \A c \in Updates(pending') : /\ c.iface \in 1..Len(made_ifs') /\ c.element \in Element
                                     /\ Owner[c.element] = made_ifs'[c.iface].window
    BY <1>1, <1>4, <2>1, <2>2, <2>4 DEF ObserveInv
  <2>6. ASSUME NEW v \in Window, iface[v] # 0, made_ifs'[iface[v]].port \in ports', ~Awaited(iface[v], pending')
        PROVE  made_ifs'[iface[v]].root \in observed'
    <3>1. v # w /\ ~Awaited(iface[v], pending)
      BY <2>2, <2>4, <2>6 DEF Awaited
    <3>2. iface[v] \in 1..Len(made_ifs) /\ made_ifs[iface[v]].port \in ports
      BY <1>4, <1>6, <2>6
    <3>3. made_ifs[iface[v]].root \in observed
      BY <2>6, <3>1, <3>2 DEF ObserveInv
    <3>4. Owner[made_ifs[iface[v]].root] = v /\ Owner[f.root] = w
      BY <1>2, <2>6, <3>2 DEF ObserveInv, ShowsOwn
    <3> QED BY <1>4, <1>9, <3>1, <3>2, <3>3, <3>4
  <2> QED BY <1>1, <1>5, <1>7, <2>5, <2>6 DEF ObserveInv
<1> QED BY <1>8, <1>9 DEF UpdateInterfaceQuery

\* The rest of the update puts the element found in the old one's place and observes it.
LEMMA ObserveReplaced ==
  ASSUME BoardInv, ObserveInv, ObserveFound
  PROVE  ObserveInv'
<1> PICK u : u = Head(pending)
  OBVIOUS
<1> PICK i, found : i = u.iface /\ found = u.element
  OBVIOUS
<1>1. /\ pending \in Seq(Call) /\ pending # <<>> /\ pending' = Tail(pending)
      /\ u \in Call /\ u.kind = "unobserved"
  BY AnsweredCall DEF ObserveFound, BoardInv, Answered
<1>2. Updates(pending') \subseteq Updates(pending) /\ Updates(pending) \subseteq Updates(pending') \cup {u}
  BY <1>1, AnsweredUpdates
<1>3. u \in Updates(pending)
  <2>1. 1 \in DOMAIN pending /\ pending[1] = u
    BY <1>1, LenProperties, HeadTailProperties
  <2> QED BY <1>1, <2>1 DEF Updates
<1>4. i \in 1..Len(made_ifs) /\ found \in Element /\ Owner[found] = made_ifs[i].window
  BY <1>3 DEF ObserveInv
<1> PICK f : f = made_ifs[i]
  OBVIOUS
<1>5. f \in Interface /\ ShowsOwn(f, made)
  BY <1>4, ElementOfSeq DEF ObserveInv, BoardInv
<1> PICK g : g = [f EXCEPT !.root = found]
  OBVIOUS
<1>6. g.window = f.window /\ g.root = found /\ g.port = f.port /\ made_ifs' = [made_ifs EXCEPT ![i] = g]
  BY <1>5 DEF ObserveFound, Interface
<1>7. /\ Len(made_ifs') = Len(made_ifs) /\ made_ifs'[i] = g
      /\ \A k \in 1..Len(made_ifs) : k # i => made_ifs'[k] = made_ifs[k]
      /\ \A k \in 1..Len(made_ifs) : made_ifs'[k].window = made_ifs[k].window
  <2>1. found \in Found
    BY <1>1 DEF Call
  <2>2. g \in Interface
    BY <1>5, <2>1 DEF Interface
  <2>3. /\ Len(made_ifs') = Len(made_ifs)
        /\ \A k \in 1..Len(made_ifs) : made_ifs'[k] = IF k = i THEN g ELSE made_ifs[k]
    BY <1>4, <1>6, <2>2, ExceptSeq DEF BoardInv
  <2>4. g.window = f.window
    BY <1>6
  <2> QED BY <1>4, <2>3, <2>4
<1>8. /\ UNCHANGED <<made, ports, iface>> /\ observed' = observed \cup {found}
  BY DEF ObserveFound, wires
<1>9. \A k \in 1..Len(made_ifs') : ShowsOwn(made_ifs'[k], made')
  <2>1. ShowsOwn(g, made')
    BY <1>4, <1>5, <1>6, <1>8 DEF ShowsOwn
  <2> QED BY <1>7, <1>8, <2>1 DEF ObserveInv
<1>10. \A v \in Window : iface[v] # 0 => iface[v] \in 1..Len(made_ifs)
  BY LenProperties DEF BoardInv
<1>11. \A v \in Window : iface'[v] # 0 => made_ifs'[iface'[v]].window = v
  BY <1>7, <1>8, <1>10 DEF ObserveInv
<1>12. \A c \in Updates(pending') : /\ c.iface \in 1..Len(made_ifs') /\ c.element \in Element
                                    /\ Owner[c.element] = made_ifs'[c.iface].window
  BY <1>2, <1>7 DEF ObserveInv
<1>13. ASSUME NEW v \in Window, iface[v] # 0, made_ifs'[iface[v]].port \in ports', ~Awaited(iface[v], pending')
       PROVE  made_ifs'[iface[v]].root \in observed'
  <2>1. CASE iface[v] = i
    <3>1. made_ifs'[i].root = found /\ found \in observed'
      BY <1>6, <1>7, <1>8
    <3> QED BY <2>1, <3>1
  <2>2. CASE iface[v] # i
    <3>1. made_ifs'[iface[v]] = made_ifs[iface[v]]
      BY <1>7, <1>10, <1>13, <2>2
    <3>2. ~Awaited(iface[v], pending)
      BY <1>2, <1>13, <2>2 DEF Awaited
    <3> QED BY <1>8, <1>13, <3>1, <3>2 DEF ObserveInv
  <2> QED BY <2>1, <2>2
<1> QED BY <1>8, <1>9, <1>11, <1>12, <1>13 DEF ObserveInv

LEMMA ObserveKept ==
  ASSUME FindsInWindow, BoardInv, ObserveInv, [Next]_vars
  PROVE  ObserveInv'
<1>1. Wired' /\ Grows
  BY BoardSteps DEF BoardStep
<1>2. ASSUME UNCHANGED queried, Updates(pending') = Updates(pending) PROVE ObserveInv'
  BY <1>1, <1>2, ObserveUndisturbed DEF queried
<1>3. ASSUME UNCHANGED <<queried, pending>> PROVE ObserveInv'
  BY <1>2, <1>3
<1>4. ASSUME NEW w \in Window, WindowRemoved(w) PROVE ObserveInv'
  <2>1. \A v \in Window : iface'[v] \in {iface[v], 0}
    BY <1>4 DEF WindowRemoved, BoardInv
  <2> QED BY <1>4, <2>1, ObserveDeleted DEF WindowRemoved
<1>5. ASSUME NEW e \in Element, ElementRemoved(e) PROVE ObserveInv'
  BY <1>5, ObserveDeleted DEF ElementRemoved, PortsOf
<1>6. ASSUME NEW p \in 1..MaxPorts, DeletePort(p) PROVE ObserveInv'
  BY <1>6, ObserveDeleted DEF DeletePort, Visible
<1>7. ASSUME NEW e \in Element, Press(e) PROVE ObserveInv'
  <2>1. PICK c : /\ Pend(c)
                 /\ \/ e \in TextAreas /\ c = [kind |-> "press", element |-> e]
                    \/ c = [kind |-> "query", element |-> Root[Owner[e]]]
    BY <1>7 DEF Press
  <2>2. c \in Call /\ c.kind # "unobserved"
    BY <2>1 DEF Call
  <2>3. Updates(pending') = Updates(pending)
    BY <2>1, <2>2, OtherQuestions
  <2> QED BY <1>2, <1>7, <2>3 DEF Press
<1>8. ASSUME DropPort PROVE ObserveInv'
  <2>1. PICK e \in (Live \cap (Writable \cup TextAreas)) \cup {None} :
          Pend([kind |-> "drop", element |-> e, source |-> drag])
    BY <1>8 DEF DropPort
  <2>2. e \in (Element \cap (Writable \cup TextAreas)) \cup {None} /\ drag \in 1..MaxPorts
    BY <1>8, <2>1 DEF DropPort, Live, BoardInv
  <2> PICK c : c = [kind |-> "drop", element |-> e, source |-> drag]
    OBVIOUS
  <2>3. c \in Call /\ c.kind # "unobserved"
    BY <2>2 DEF Call
  <2>4. Updates(pending') = Updates(pending)
    BY <2>1, <2>3, OtherQuestions
  <2> QED BY <1>2, <1>8, <2>4 DEF DropPort
<1>9. ASSUME AskWindowRoot PROVE ObserveInv'
  <2> PICK w, rest : w = Owner[Head(pending).element] /\ rest = Tail(pending)
    OBVIOUS
  <2>1. /\ pending \in Seq(Call) /\ pending # <<>> /\ Head(pending) \in Call /\ rest \in Seq(Call)
        /\ Head(pending).kind = "query"
    BY <1>9, HeadTailProperties DEF AskWindowRoot, BoardInv
  <2>2. Updates(rest) = Updates(pending)
    <3>1. Updates(rest) \subseteq Updates(pending) /\ Updates(pending) \subseteq Updates(rest)
      BY <2>1, AnsweredUpdates
    <3> QED BY <3>1
  <2> PICK c : c = [kind |-> "root", element |-> Root[w]]
    OBVIOUS
  <2>3. c \in Call /\ c.kind # "unobserved"
    BY <2>1 DEF Call, Roots
  <2>4. Updates(Append(rest, c)) = Updates(rest)
    BY <2>1, <2>3, PendedUpdates
  <2>5. pending' = Append(rest, c) \/ pending' = rest
    BY <1>9 DEF AskWindowRoot
  <2> QED BY <1>2, <1>9, <2>2, <2>4, <2>5 DEF AskWindowRoot
<1>10. ASSUME MakeTransform \/ DropPortOnElement PROVE ObserveInv'
  <2>1. UNCHANGED queried
    BY <1>10 DEF MakeTransform, DropPortOnElement
  <2>2. Updates(pending') = Updates(pending)
    BY <1>10, OtherAnswers DEF MakeTransform, DropPortOnElement
  <2> QED BY <1>2, <2>1, <2>2
<1>11. ASSUME NEW w \in Window, NEW find \in Queries, UpdateInterfaceQuery(w, find) PROVE ObserveInv'
  <2>1. UNCHANGED <<made, ports>>
    BY <1>11 DEF UpdateInterfaceQuery, wires
  <2> QED BY <1>1, <1>11, <2>1, ObserveUpdated
<1>12. ASSUME \/ ToggleCreationMode \/ Escape \/ \E w \in Window : WindowAdded(w)
              \/ \E p \in 1..MaxPorts : StartPortDrag(p) \/ CompletePortDrag(p)
       PROVE  ObserveInv'
  BY <1>3, <1>12 DEF ToggleCreationMode, Escape, WindowAdded, StartPortDrag, CompletePortDrag
<1>13. CASE UNCHANGED vars
  BY <1>3, <1>13 DEF vars
<1> QED
  BY <1>1, <1>4, <1>5, <1>6, <1>7, <1>8, <1>9, <1>10, <1>11, <1>12, <1>13, ObserveQueried, ObserveReplaced
  DEF Next

\* Between re-rootings a queried window observes its root as long as it has its port
\* (makeWindowQueried, updateInterfaceQuery, deletePort), whatever the order of the answers:
\* given that queries find elements of the window they are asked of.
THEOREM QueriedStaysObserved ==
  ASSUME FindsInWindow
  PROVE  Spec => []QueriedIsObserved
<1>1. Init => ObserveInv
  <2> SUFFICES ASSUME Init PROVE ObserveInv
    OBVIOUS
  <2>1. 1..Len(made_ifs) = {} /\ Updates(pending) = {} /\ \A w \in Window : iface[w] = 0
    BY DEF Init, Updates
  <2> QED BY <2>1 DEF ObserveInv
<1>2. BoardInv /\ ObserveInv => QueriedIsObserved
  <2> SUFFICES ASSUME BoardInv, ObserveInv, NEW w \in windows, iface[w] # 0,
                      made_ifs[iface[w]].port \in ports,
                      \A i \in DOMAIN pending : pending[i].kind # "unobserved"
               PROVE  made_ifs[iface[w]].root \in observed
    BY DEF QueriedIsObserved
  <2>1. ~Awaited(iface[w], pending)
    BY DEF Awaited, Updates
  <2> QED BY <2>1 DEF ObserveInv, BoardInv
<1>3. BoardInv /\ ObserveInv /\ [Next]_vars => ObserveInv'
  BY ObserveKept
<1> QED BY <1>1, <1>2, <1>3, BoardIsWired, PTL DEF Spec
=============================================================================
