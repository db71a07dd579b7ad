------------------------------ MODULE ValueFlow ------------------------------
(***************************************************************************)
(* Values along the connections of the wiring demos (src-web/src/ports.ts, *)
(* and the same functions in src-web/src/query.ts): a change of a source   *)
(* element is written to the targets of its connections; a transform       *)
(* element holds the text of a function, keeps its last input and sends    *)
(* the function's output on.                                               *)
(*                                                                         *)
(* handleElementUpdate starts one asynchronous call per connection and     *)
(* never waits for it, so calls of older and newer values run side by      *)
(* side.  A call waits for one request at a time: the rest of its work is  *)
(* kept here with that request, as the stack of loops over connections it  *)
(* still has to finish.  Requests are answered in order on one socket; an  *)
(* answer is computed before, and sent after, the events that come between.*)
(*                                                                         *)
(* A port's element is the copy its drag took; from then on its changes    *)
(* are announced.  Deleting ports is the subject of Ports.                 *)
(***************************************************************************)
EXTENDS Naturals, Sequences, FiniteSets, SequencesExt

CONSTANTS
  None,
  Plain,       \* elements that hold a value
  Transform,   \* elements that hold a function's text
  Color,       \* plain elements that accept colours only; the others accept strings
  Value,       \* what a user enters into a plain element: sequences of strings
  ColorValue,  \* the values among them that are colours
  Code,        \* texts of functions
  BadCode,     \* a text that is no function, or one that throws
  Wiring,      \* connections the user may make
  Edited,      \* elements the user edits
  MaxEdits     \* bound: edits by the user

Node == Plain \cup Transform

\* A value is a sequence of strings, and only plain elements have a type.
Terms == Seq(STRING)

ValuesAreTerms ==
  /\ Value # {} /\ Code # {} /\ Value \cup Code \cup ColorValue \cup {BadCode} \subseteq Terms
  /\ None \notin Terms
  /\ Color \subseteq Plain /\ Plain \cap Transform = {}
  /\ {"text", "output"} \subseteq STRING  \* so it is, but the provers do not know

\* What the demos do not check and a user has to respect: a connection leads on (a cycle of
\* transforms would never end), no element is the target of two, nor edited besides.
WiringIsForest ==
  /\ Wiring \subseteq Node \X Node
  /\ \E depth \in [Node -> 0..Cardinality(Node)] : \A c \in Wiring : depth[c[1]] < depth[c[2]]
  /\ \A c, d \in Wiring : c[2] = d[2] => c = d
  /\ \A c \in Wiring : c[2] \in Edited => c[2] \in Transform

VARIABLES
  value,      \* what each element holds
  known,      \* what the element copy of its ports holds
  cache,      \* transformInputCache
  conns,      \* state.connections, in order
  raw,        \* connections that carried a transform's text when they were made (history)
  requests,   \* requests on their way to the server
  inbox,      \* answers and events on their way to the demo
  edits

vars == <<value, known, cache, conns, raw, requests, inbox, edits>>

Ported == {c[1] : c \in Range(conns)} \cup {c[2] : c \in Range(conns)}
Sources == Node \ {c[2] : c \in Wiring}

\* Values are terms: a tag or several, then what the user entered.  String() of a text is
\* itself; nothing is assumed of a function's output.
Text(v) == IF Head(v) = "text" THEN v ELSE <<"text">> \o v
Output(code, v) == <<"output">> \o code \o v

\* writeValueToElement: strings take the text of anything, colours what parses as one.
Accepted(n, v) ==
  IF n \notin Color THEN Text(v)
  ELSE IF \E c \in ColorValue : v \in {c, Text(c)}
       THEN CHOOSE c \in ColorValue : v \in {c, Text(c)}
       ELSE None

----------------------------------------------------------------------------
\* A call waits for a request: to evaluate a transform, or to write a value.
Task(n, v, rest) ==
  IF n \in Transform THEN [kind |-> "get", node |-> n, arg |-> v, code |-> None, rest |-> rest]
  ELSE [kind |-> "set", node |-> n, arg |-> Accepted(n, v), code |-> None, rest |-> rest]

\* The connections from n to elements that v can be sent to, from the i-th on.
Onward(n, v, i) ==
  {j \in i..Len(conns) : conns[j][1] = n /\ (conns[j][2] \in Color => Accepted(conns[j][2], v) # None)}

\* Mutant of Resumed: the loop does not move on.
ResumedInPlace(loops) ==
  LET open == {k \in DOMAIN loops : Onward(loops[k].node, loops[k].arg, loops[k].next) # {}}
  IN  IF open = {} THEN <<>>
      ELSE LET k == Max(open)
               j == Min(Onward(loops[k].node, loops[k].arg, loops[k].next))
           IN  <<Task(conns[j][2], loops[k].arg, SubSeq(loops, 1, k))>>

\* The next request of a call with these loops: the innermost that is not done goes on.
Resumed(loops) ==
  LET open == {k \in DOMAIN loops : Onward(loops[k].node, loops[k].arg, loops[k].next) # {}}
  IN  IF open = {} THEN <<>>
      ELSE LET k == Max(open)
               j == Min(Onward(loops[k].node, loops[k].arg, loops[k].next))
           IN  <<Task(conns[j][2], loops[k].arg,
                      Append(SubSeq(loops, 1, k - 1), [loops[k] EXCEPT !.next = j + 1]))>>

\* Mutant of Noted: only the first input of a transform is kept.
NotedOnce(tasks) ==
  [t \in Transform |-> LET mine == {i \in DOMAIN tasks : tasks[i].node = t} IN
                       IF mine = {} \/ cache[t] # None THEN cache[t] ELSE tasks[Max(mine)].arg]

\* propagateThroughTransform notes the input before it waits.
Noted(tasks) ==
  [t \in Transform |-> LET mine == {i \in DOMAIN tasks : tasks[i].node = t} IN
                       IF mine = {} THEN cache[t] ELSE tasks[Max(mine)].arg]

Propagate(tasks) ==
  /\ requests' = requests \o tasks
  /\ cache' = Noted(tasks)

----------------------------------------------------------------------------
Init ==
  /\ value = [n \in Node |-> IF n \in Transform THEN CHOOSE code \in Code : TRUE
                           ELSE IF n \in Sources THEN CHOOSE v \in Value : TRUE ELSE None]
  /\ known = value
  /\ cache = [t \in Transform |-> None]
  /\ conns = <<>>
  /\ raw = {}
  /\ requests = <<>>
  /\ inbox = <<>>
  /\ edits = 0

\* Where an event joins the inbox: last, or before an answer that was computed already.
Slots == {Len(inbox) + 1} \cup
         (IF inbox # <<>> /\ Last(inbox).kind # "changed" THEN {Len(inbox)} ELSE {})

\* The user edits an element.  Without a port nothing is announced, and the drag that makes
\* its port may have taken its copy before or after.
Edit(n, v) ==
  /\ edits < MaxEdits
  /\ v # value[n]
  /\ edits' = edits + 1
  /\ value' = [value EXCEPT ![n] = v]
  /\ IF n \in Ported
     THEN /\ \E i \in Slots : inbox' = InsertAt(inbox, i, [kind |-> "changed", node |-> n, arg |-> v])
          /\ UNCHANGED known
     ELSE /\ \E seen \in {known[n], v} : known' = [known EXCEPT ![n] = seen]
          /\ UNCHANGED inbox
  /\ UNCHANGED <<cache, conns, raw, requests>>

\* A connection is made and the source port's value propagated: for a transform its text.
Connect(c) ==
  /\ c \notin Range(conns)
  /\ conns' = Append(conns, c)
  /\ raw' = IF c[1] \in Transform THEN raw \cup {c} ELSE raw
  /\ IF known[c[1]] = None \/ (c[2] \in Color /\ Accepted(c[2], known[c[1]]) = None)
     THEN UNCHANGED <<requests, cache>>
     ELSE Propagate(<<Task(c[2], known[c[1]], <<>>)>>)
  /\ UNCHANGED <<value, known, inbox, edits>>

\* The server handles the next request: it reads the element, or writes it and announces the
\* change; the answer follows.
Serve ==
  /\ requests # <<>>
  /\ LET r == Head(requests)
         writes == r.kind = "set" /\ value[r.node] # r.arg
         event  == [kind |-> "changed", node |-> r.node, arg |-> r.arg]
         answer == IF r.kind = "get" THEN [r EXCEPT !.code = value[r.node]] ELSE r
     IN /\ requests' = Tail(requests)
        /\ value' = IF writes THEN [value EXCEPT ![r.node] = r.arg] ELSE value
        /\ inbox' = inbox \o (IF writes /\ r.node \in Ported THEN <<event>> ELSE <<>>) \o <<answer>>
  /\ UNCHANGED <<known, cache, conns, raw, edits>>

\* handleElementUpdate: the copy is replaced; a transform is evaluated with its last input, a
\* plain element's value goes to every connection, without waiting for calls under way.
HandleElementUpdate ==
  /\ inbox # <<>> /\ Head(inbox).kind = "changed"
  /\ LET m == Head(inbox) IN
     /\ known' = [known EXCEPT ![m.node] = m.arg]
     /\ IF m.node \in Transform
        THEN /\ requests' = IF cache[m.node] = None THEN requests
                            ELSE Append(requests, Task(m.node, cache[m.node], <<>>))
             /\ UNCHANGED cache
        ELSE \E out \in SetToSeqs(Onward(m.node, m.arg, 1)) :
               /\ \A i, j \in DOMAIN out : i < j => out[i] < out[j]
               /\ Propagate([i \in DOMAIN out |-> Task(conns[out[i]][2], m.arg, <<>>)])
  /\ inbox' = Tail(inbox)
  /\ UNCHANGED <<value, conns, raw, edits>>

\* A call goes on: an evaluated transform's output is sent down its connections, unless its
\* text is no function; then, or after a write, the loops that wait continue.
ResumeCall ==
  /\ inbox # <<>> /\ Head(inbox).kind \in {"get", "set"}
  /\ LET m == Head(inbox)
         evaluated == m.kind = "get" /\ m.code # BadCode
         loops == IF evaluated
                  THEN Append(m.rest, [node |-> m.node, arg |-> Output(m.code, m.arg), next |-> 1])
                  ELSE m.rest
     IN /\ Propagate(Resumed(loops))
        /\ raw' = IF evaluated THEN {c \in raw : c[1] # m.node} ELSE raw
  /\ inbox' = Tail(inbox)
  /\ UNCHANGED <<value, known, conns, edits>>

Propagation == Serve \/ HandleElementUpdate \/ ResumeCall

Next ==
  \/ \E n \in Edited \cap Plain, v \in Value : Edit(n, v)
  \/ \E n \in Edited \cap Transform, v \in Code \cup {BadCode} : Edit(n, v)
  \/ \E c \in Wiring : Connect(c)
  \/ Propagation

\* The server and the browser's event loop do not both stop; nothing is asked of the user.
FairSpec == Init /\ [][Next]_vars /\ WF_vars(Propagation)

----------------------------------------------------------------------------
Quiet == requests = <<>> /\ inbox = <<>>

\* An element that takes a call one request to get past, whatever is sent to it.
Brief(n) == n \in Plain \ Color \/ (n \in Transform /\ \A c \in Range(conns) : c[1] # n)

\* Calls come to the i-th connection in the order in which they came to its source.
InStep(i) == \A j \in 1..i - 1 : conns[j][1] = conns[i][1] => Brief(conns[j][2])

Delivered(n, v) ==
  IF n \in Transform THEN cache[n] = v ELSE Accepted(n, v) \in {None, value[n]}

\* What the last input and the present text of its source make of the i-th connection.
PassesOutput(i) ==
  LET source == conns[i][1] IN
  cache[source] # None /\ conns[i] \notin raw /\ value[source] # BadCode
    => Delivered(conns[i][2], Output(value[source], cache[source]))

\* Whenever nothing is on its way, every target holds what its source last showed, at any depth:
\* a function edited while its input changed was applied to the last input, and calls of older
\* values have not overwritten the work of newer ones, unless they may overtake each other below
\* an earlier connection of the same transform.
FlowSettles ==
  Quiet => \A i \in DOMAIN conns :
    LET c == conns[i] IN
    IF c[1] \in Plain THEN known[c[1]] # None => Delivered(c[2], known[c[1]])
    ELSE InStep(i) => PassesOutput(i)

\* The same of every connection: a newer call that finds less to do below an earlier target of
\* its transform gets to a later one first, and there the older call writes last.
FlowSettlesAnyhow ==
  Quiet => \A i \in DOMAIN conns : conns[i][1] \in Transform => PassesOutput(i)

\* Propagation ends: calls start calls through the events of what they write, and a call
\* only ends when its whole downstream tree is written.
ComesToRest == <>[]Quiet
============================================================================
