-------------------------------- MODULE Graph --------------------------------
(***************************************************************************)
(* The graph demo (graph.ts): a node for every element the page has heard  *)
(* of, a link from each to its parent, drawn by the ticks of a force       *)
(* simulation that comes to rest.  Elements arrive as events and as the    *)
(* answers to clicks and hovers; both come over one socket, but an answer  *)
(* was read before the events that the server sends ahead of it.           *)
(***************************************************************************)
EXTENDS Naturals, Sequences, FiniteSets, SequencesExt

CONSTANTS
  Element,     \* element ids
  None,        \* no parent_id: a root, or an orphan; and no node
  MaxPending   \* bound: requests, answers and events on their way

VARIABLES
  elements,   \* the server's: id -> parent
  asked,      \* requests on their way
  inbox,      \* events and answers on their way
  graph,      \* nodes (id -> parent), links (parent, child), needsRebuild, whether the simulation
              \* runs, and for the properties the nodes whose element is newer than the links
  drawn,      \* the nodes of nodeElements
  hovered,    \* hoveredNode
  overlay     \* the node whose bounds are shown

page == <<graph, drawn, hovered, overlay>>
vars == <<elements, asked, inbox, graph, drawn, hovered, overlay>>

Parent == Element \cup {None}

\* A map with n set to p.
With(map, n, p) == [m \in DOMAIN map \cup {n} |-> IF m = n THEN p ELSE map[m]]

\* A node as the page's functions hold it: still the one of the graph, or a former one.
Held(n) == [id |-> n, gone |-> FALSE]
Lost(n, node) == IF node = Held(n) THEN [node EXCEPT !.gone = TRUE] ELSE node
NodesOf(g) == {Held(n) : n \in DOMAIN g.nodes}

Init ==
  /\ elements = << >> /\ asked = <<>> /\ inbox = <<>>
  /\ graph = [nodes |-> << >>, links |-> {}, needsRebuild |-> FALSE, running |-> TRUE,
              refreshed |-> {}]
  /\ drawn = {}
  /\ hovered = None /\ overlay = None

----------------------------------------------------------------------------
\* The elements the server knows come, change and go; each is announced.
Room == Len(asked) + Len(inbox) < MaxPending

\* Where an event joins the inbox: last, or before an answer that was read but not yet sent.
Slots == {Len(inbox) + 1} \cup
         (IF inbox # <<>> /\ Last(inbox).kind = "answer" THEN {Len(inbox)} ELSE {})

Announce(kind, n, p) ==
  /\ Room
  /\ \E i \in Slots : inbox' = InsertAt(inbox, i, [kind |-> kind, id |-> n, parent |-> p])
  /\ UNCHANGED <<asked, page>>

Appear(n, p) ==
  /\ n \notin DOMAIN elements /\ elements' = With(elements, n, p) /\ Announce("added", n, p)

Alter(n, p) ==
  /\ n \in DOMAIN elements /\ p # elements[n]
  /\ elements' = [elements EXCEPT ![n] = p] /\ Announce("changed", n, p)

Vanish(n) ==
  /\ n \in DOMAIN elements
  /\ elements' = [e \in DOMAIN elements \ {n} |-> elements[e]] /\ Announce("removed", n, None)

\* A request is read in its turn: the elements it returns, in the order the server lists them,
\* and whether they are a fallback.
Read ==
  /\ asked # <<>>
  /\ LET r == Head(asked)
         found == CASE r.kind \in {"at", "retry"} -> {{e} : e \in DOMAIN elements} \cup {{}}
                    [] r.kind = "children" -> {{e \in DOMAIN elements : elements[e] = r.node.id}}
                    [] r.kind = "parent" -> {{e \in DOMAIN elements : r.node.id \in DOMAIN elements
                                                                    /\ elements[r.node.id] = e}}
                    [] OTHER -> {{r.node.id} \cap DOMAIN elements}
     IN  \E es \in found, f \in BOOLEAN : \E order \in SetToSeqs(es) :
           /\ f => r.kind = "at" /\ es # {}
           /\ inbox' = Append(inbox, [kind |-> "answer", to |-> r, fallback |-> f,
                found |-> [i \in DOMAIN order |-> [id |-> order[i], parent |-> elements[order[i]]]]])
  /\ asked' = Tail(asked)
  /\ UNCHANGED <<elements, page>>

----------------------------------------------------------------------------
\* updateLinks: links that are missing are added, none is taken away.
UpdateLinks(g) ==
  LET new == {<<g.nodes[n], n>> : n \in {m \in DOMAIN g.nodes : g.nodes[m] \in DOMAIN g.nodes}}
                \ g.links
  IN  [g EXCEPT !.links = @ \cup new, !.needsRebuild = @ \/ new # {}, !.refreshed = {}]

RestartSimulation(g) == [g EXCEPT !.running = TRUE]

\* addNode: only a node that is new is linked and restarts the simulation.
AddNode(g, n, p) ==
  IF n \in DOMAIN g.nodes
  THEN [g EXCEPT !.nodes[n] = p, !.refreshed = @ \cup {n}]
  ELSE RestartSimulation(UpdateLinks([g EXCEPT !.nodes = With(@, n, p), !.needsRebuild = TRUE]))

\* One after the other, in the order of the answer.
AddNodes(g, found) ==
  LET added[i \in 0..Len(found)] ==
        IF i = 0 THEN g ELSE AddNode(added[i - 1], found[i].id, found[i].parent)
  IN  added[Len(found)]

\* Mutant of OnElementChanged: the links are not looked at again.
OnElementChangedUnlinked(g, n, p) ==
  IF n \in DOMAIN g.nodes THEN [g EXCEPT !.nodes[n] = p] ELSE g

\* The simulation is not restarted for a link that this adds.
OnElementChanged(g, n, p) ==
  IF n \in DOMAIN g.nodes THEN UpdateLinks([g EXCEPT !.nodes[n] = p]) ELSE g

\* Mutant of OnElementRemoved: the simulation is not restarted.
OnElementRemovedAtRest(g, n) ==
  IF n \notin DOMAIN g.nodes THEN g
  ELSE [g EXCEPT !.nodes = [m \in DOMAIN g.nodes \ {n} |-> g.nodes[m]],
                 !.links = {l \in g.links : n \notin {l[1], l[2]}},
                 !.needsRebuild = TRUE, !.refreshed = @ \ {n}]

OnElementRemoved(g, n) ==
  IF n \notin DOMAIN g.nodes THEN g
  ELSE RestartSimulation(
         [g EXCEPT !.nodes = [m \in DOMAIN g.nodes \ {n} |-> g.nodes[m]],
                   !.links = {l \in g.links : n \notin {l[1], l[2]}},
                   !.needsRebuild = TRUE, !.refreshed = @ \ {n}])

\* An event is applied; functions that hold a removed node go on holding it.
ElementEvent ==
  /\ inbox # <<>> /\ Head(inbox).kind # "answer"
  /\ LET m == Head(inbox)
         lost(node) == IF m.kind = "removed" THEN Lost(m.id, node) ELSE node
         ask(r) == [r EXCEPT !.node = lost(@)]
         answer(a) == IF a.kind = "answer" THEN [a EXCEPT !.to = ask(@)] ELSE a
     IN  /\ graph' = CASE m.kind = "added" -> AddNode(graph, m.id, m.parent)
                       [] m.kind = "changed" -> OnElementChanged(graph, m.id, m.parent)
                       [] m.kind = "removed" -> OnElementRemoved(graph, m.id)
         /\ asked' = [i \in DOMAIN asked |-> ask(asked[i])]
         /\ inbox' = [i \in 1..Len(inbox) - 1 |-> answer(inbox[i + 1])]
         /\ drawn' = {lost(node) : node \in drawn}
         /\ hovered' = lost(hovered)
         /\ overlay' = lost(overlay)
  /\ UNCHANGED elements

\* An answer takes its function further.
Ask(kind, node) == asked' = Append(asked, [kind |-> kind, node |-> node])
Answered(kinds) == inbox # <<>> /\ Head(inbox).kind = "answer" /\ Head(inbox).to.kind \in kinds

\* The click's element is added; a fallback is asked for again on the next frame.
ElementAtAnswer ==
  /\ Answered({"at", "retry"})
  /\ LET m == Head(inbox)
     IN  IF m.fallback THEN Ask("retry", None) /\ UNCHANGED graph
         ELSE graph' = AddNodes(graph, m.found) /\ UNCHANGED asked
  /\ inbox' = Tail(inbox)
  /\ UNCHANGED <<elements, drawn, hovered, overlay>>

\* expandNode: the children, then the parent unless the node is a root, then the links.
ExpandAnswer ==
  /\ Answered({"children", "parent"})
  /\ LET m == Head(inbox)
         g == AddNodes(graph, m.found)
     IN  IF m.to.kind = "children"
         THEN \/ Ask("parent", m.to.node) /\ graph' = g
              \/ UNCHANGED asked /\ graph' = RestartSimulation(UpdateLinks(g))
         ELSE UNCHANGED asked /\ graph' = RestartSimulation(UpdateLinks(g))
  /\ inbox' = Tail(inbox)
  /\ UNCHANGED <<elements, drawn, hovered, overlay>>

\* Mutant of Reveal: whether the pointer is still there is not asked.
RevealAlways(node) == overlay' = node

\* The bounds are shown if the pointer is still on the node.  (While clicks fall through the page
\* nothing is shown, and ticks hide what is: that state is left out.)
Reveal(node) == overlay' = IF hovered = node THEN node ELSE overlay

\* The refreshed element of a hover, nothing if it failed; the links are not looked at.
HoverAnswer ==
  /\ Answered({"get"})
  /\ LET m == Head(inbox)
     IN  /\ graph' = IF m.to.node \in NodesOf(graph) /\ m.found # <<>>
                     THEN [graph EXCEPT !.nodes[m.to.node.id] = m.found[1].parent,
                                        !.refreshed = @ \cup {m.to.node.id}]
                     ELSE graph
         /\ Reveal(m.to.node)
  /\ inbox' = Tail(inbox)
  /\ UNCHANGED <<elements, asked, drawn, hovered>>

----------------------------------------------------------------------------
ClickBackground ==
  /\ Room /\ Ask("at", None)
  /\ UNCHANGED <<elements, inbox, page>>

ClickNode(node) ==
  /\ Room /\ Ask("children", node)
  /\ UNCHANGED <<elements, inbox, page>>

OnNodeHoverEnter(node) ==
  /\ Room /\ hovered = None
  /\ hovered' = node
  /\ Ask("get", node)
  /\ UNCHANGED <<elements, inbox, graph, drawn, overlay>>

\* Also when the node is drawn anew: the old drawing is left.
OnNodeHoverLeave ==
  /\ hovered # None
  /\ hovered' = None /\ overlay' = None
  /\ UNCHANGED <<elements, asked, inbox, graph, drawn>>

\* A node is dragged: the simulation runs again.
Drag(node) ==
  /\ ~graph.running
  /\ graph' = RestartSimulation(graph)
  /\ UNCHANGED <<elements, asked, inbox, drawn, hovered, overlay>>

Render(g) == IF g.needsRebuild THEN NodesOf(g) ELSE drawn

\* A tick of the simulation renders; the last one stops it.
Tick ==
  /\ graph.running
  /\ drawn' = Render(graph)
  /\ \E runs \in BOOLEAN : graph' = [graph EXCEPT !.needsRebuild = FALSE, !.running = runs]
  /\ UNCHANGED <<elements, asked, inbox, hovered, overlay>>

Next ==
  \/ \E n \in Element : \E p \in Parent \ {n} : Appear(n, p) \/ Alter(n, p)
  \/ \E n \in Element : Vanish(n)
  \/ Read \/ ElementEvent \/ ElementAtAnswer \/ ExpandAnswer \/ HoverAnswer
  \/ ClickBackground
  \/ \E node \in drawn : ClickNode(node) \/ OnNodeHoverEnter(node) \/ Drag(node)
  \/ OnNodeHoverLeave \/ Tick

Spec == Init /\ [][Next]_vars

----------------------------------------------------------------------------
\* A node whose parent is in the graph has its link, unless an answer gave it a new element
\* since the links were last updated: whatever order events and answers come in, no child waits
\* for a parent that is already there.
LinkedUnlessRefreshed ==
  \A n \in DOMAIN graph.nodes \ graph.refreshed :
    LET p == graph.nodes[n] IN p \in DOMAIN graph.nodes => <<p, n>> \in graph.links

\* Once the simulation rests the drawing has exactly the nodes of the graph: a node made or
\* removed late, by an event or by an answer, starts it again.
RestShowsNodes == ~graph.running => drawn = NodesOf(graph)

\* The bounds shown are those of the node under the pointer, however late its element comes.
OverlayFollowsPointer == overlay \in {None, hovered}

\* graph.ts:308, "Add new links and mark for rebuild": at rest there is nothing to rebuild.
RestShowsLinks == ~graph.running => ~graph.needsRebuild

\* graph.ts:244, "Re-check links (parent may have changed)": a link goes to a node's parent.
LinksShowParents ==
  \A l \in graph.links : l[2] \notin graph.refreshed => graph.nodes[l[2]] = l[1]
==============================================================================
