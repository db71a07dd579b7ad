----------------------------- MODULE PageProofs -----------------------------
(***************************************************************************)
(* What holds of a page's machines for every value of the constants.       *)
(***************************************************************************)
EXTENDS Page, SequenceTheorems, FiniteSetTheorems, WellFoundedInduction,
        NaturalsInduction, TLAPS

\* The decision is on the frame, or the last of the requests, or seen by the host.
Travels ==
  last # Null /\ ~crossed =>
    IF frame THEN last = TRUE
    ELSE IF sent = <<>> THEN seen = last ELSE sent[Len(sent)] = last

\* What the host saw last is the last change on its way, or what the window does.
Arrives ==
  ~swapped /\ ~toggled =>
    IF threads = <<>> THEN ignores = seen ELSE threads[Len(threads)] = seen

MouseInv == Mouse!TypeOK /\ Travels /\ Arrives

LEMMA EmptyLength == Len(<<>>) = 0
OBVIOUS

\* Taking the head of a sequence leaves its end.
LEMMA TailKeepsEnd ==
  ASSUME NEW S, NEW s \in Seq(S), s # <<>>
  PROVE  /\ Tail(s) \in Seq(S)
         /\ Tail(s) = <<>> => s[Len(s)] = Head(s)
         /\ Tail(s) # <<>> => Tail(s)[Len(Tail(s))] = s[Len(s)]
<1>1. Len(s) \in Nat \ {0}
  BY EmptySeq
<1>2. /\ Tail(s) \in Seq(S) /\ Len(Tail(s)) = Len(s) - 1 /\ Head(s) = s[1]
      /\ \A i \in 1..Len(Tail(s)) : Tail(s)[i] = s[i + 1]
  BY <1>1, HeadTailProperties
<1>3. ASSUME Tail(s) = <<>> PROVE s[Len(s)] = Head(s)
  <2>1. Len(s) - 1 = 0 /\ Len(s) \in Nat
    BY ONLY <1>1, <1>2, <1>3, EmptyLength
  <2>2. Len(s) = 1
    BY ONLY <2>1
  <2> QED BY <2>2, <1>2
<1>4. ASSUME Tail(s) # <<>> PROVE Tail(s)[Len(Tail(s))] = s[Len(s)]
  <2>1. Len(Tail(s)) \in Nat \ {0}
    BY <1>2, <1>4, EmptySeq
  <2> QED BY <1>1, <1>2, <2>1
<1> QED BY <1>2, <1>3, <1>4

\* Appending makes a new end.
LEMMA AppendMakesEnd ==
  ASSUME NEW S, NEW s \in Seq(S), NEW x \in S
  PROVE  /\ Append(s, x) \in Seq(S) /\ Append(s, x) # <<>>
         /\ Append(s, x)[Len(Append(s, x))] = x
<1>1. /\ Append(s, x) \in Seq(S) /\ Len(Append(s, x)) = Len(s) + 1
      /\ Append(s, x)[Len(s) + 1] = x
  BY AppendProperties
<1>2. Len(s) \in Nat /\ Len(<<>>) = 0
  BY LenProperties, EmptySeq
<1> QED BY <1>1, <1>2

\* Taking an element other than the last leaves the end.
LEMMA RemovalKeepsEnd ==
  ASSUME NEW S, NEW s \in Seq(S), NEW i \in 1..Len(s)
  PROVE  LET r == SubSeq(s, 1, i - 1) \o SubSeq(s, i + 1, Len(s))
         IN  /\ r \in Seq(S)
             /\ Len(s) = 1 => r = <<>>
             /\ i < Len(s) => r # <<>> /\ r[Len(r)] = s[Len(s)]
<1> DEFINE n == Len(s)
           a == SubSeq(s, 1, i - 1)
           b == SubSeq(s, i + 1, n)
           r == a \o b
<1>1. n \in Nat /\ i \in 1..n
  BY LenProperties
<1>2. a \in Seq(S) /\ Len(a) = i - 1
  BY <1>1, SubSeqProperties
<1>3. b \in Seq(S) /\ Len(b) = n - i /\ (i < n => b[n - i] = s[n])
  BY <1>1, SubSeqProperties
<1>4. /\ r \in Seq(S) /\ Len(r) = n - 1
      /\ \A j \in 1..n - 1 : r[j] = IF j <= i - 1 THEN a[j] ELSE b[j - (i - 1)]
  <2> HIDE DEF a, b
  <2>1. /\ r \in Seq(S) /\ Len(r) = Len(a) + Len(b)
        /\ \A j \in 1..Len(a) + Len(b) : r[j] = IF j <= Len(a) THEN a[j] ELSE b[j - Len(a)]
    BY <1>2, <1>3, ConcatProperties
  <2>2. Len(a) + Len(b) = n - 1
    BY <1>1, <1>2, <1>3
  <2> HIDE DEF r
  <2> QED BY <1>2, <2>1, <2>2
<1> HIDE DEF a, b, r
<1>5. n = 1 => r = <<>>
  BY <1>4, EmptySeq
<1>6. i < n => r # <<>> /\ r[Len(r)] = s[n]
  <2>1. ASSUME i < n PROVE n - 1 \in 1..n - 1 /\ ~(n - 1 <= i - 1) /\ n - 1 - (i - 1) = n - i
    BY <1>1, <2>1
  <2>2. ASSUME i < n PROVE r # <<>>
    BY <1>1, <1>4, <2>1, <2>2, EmptyLength
  <2>3. ASSUME i < n PROVE r[n - 1] = s[n]
    BY <1>3, <1>4, <2>1, <2>3
  <2> QED BY <1>4, <2>2, <2>3
<1> QED BY <1>4, <1>5, <1>6 DEF a, b, r

LEMMA MouseStarts == Mouse!Init => MouseInv
<1>1. <<>> \in Seq(BOOLEAN)
  BY EmptySeq
<1> QED BY <1>1 DEF Mouse!Init, MouseInv, Mouse!TypeOK, Travels, Arrives, Mouse!Mode

LEMMA SetModeKeeps == ASSUME MouseInv, NEW m \in Mouse!Mode, Mouse!SetMode(m) PROVE MouseInv'
BY DEF MouseInv, Mouse!TypeOK, Travels, Arrives, Mouse!SetMode, Mouse!host

LEMMA MouseMoveKeeps == ASSUME MouseInv, NEW p \in Mouse!Place, Mouse!HandleMouseMove(p) PROVE MouseInv'
<1> DEFINE through == Mouse!ComputePassthrough(p)
<1>0. through \in BOOLEAN
  BY DEF Mouse!ComputePassthrough
<1>1. Mouse!TypeOK /\ Arrives /\ sent \in Seq(BOOLEAN)
  BY DEF MouseInv, Mouse!TypeOK
<1>2. Arrives'
  BY <1>1 DEF Mouse!HandleMouseMove, Arrives, Mouse!host
<1>3. CASE through
  <2>1. /\ last' = TRUE /\ frame' = TRUE /\ crossed' = FALSE /\ UNCHANGED sent
    BY <1>0, <1>3 DEF Mouse!HandleMouseMove
  <2> QED BY <1>1, <1>2, <2>1 DEF MouseInv, Mouse!TypeOK, Travels, Mouse!HandleMouseMove, Mouse!host
<1>4. CASE ~through
  <2>1. /\ last' = FALSE /\ UNCHANGED frame /\ crossed' = frame /\ sent' = Append(sent, FALSE)
    BY <1>0, <1>4 DEF Mouse!HandleMouseMove
  <2>2. sent' \in Seq(BOOLEAN) /\ sent' # <<>> /\ sent'[Len(sent')] = FALSE
    BY <1>1, <2>1, AppendMakesEnd
  <2> QED BY <1>1, <1>2, <2>1, <2>2 DEF MouseInv, Mouse!TypeOK, Travels, Mouse!HandleMouseMove, Mouse!host
<1> QED BY <1>3, <1>4

LEMMA FrameKeeps == ASSUME MouseInv, Mouse!AnimationFrame PROVE MouseInv'
<1>1. sent' \in Seq(BOOLEAN) /\ sent' # <<>> /\ sent'[Len(sent')] = TRUE
  BY AppendMakesEnd DEF Mouse!AnimationFrame, MouseInv, Mouse!TypeOK
<1> QED BY <1>1 DEF MouseInv, Mouse!TypeOK, Travels, Arrives, Mouse!AnimationFrame, Mouse!host

LEMMA SwitchKeeps == ASSUME MouseInv, Mouse!SwitchOverlay PROVE MouseInv'
BY DEF MouseInv, Mouse!TypeOK, Travels, Arrives, Mouse!SwitchOverlay, Mouse!host, Mouse!Mode

LEMMA RequestKeeps == ASSUME MouseInv, Mouse!HandleSetPassthrough PROVE MouseInv'
<1> DEFINE v == Head(sent)
<1>1. /\ Mouse!TypeOK /\ Travels /\ Arrives
      /\ sent # <<>> /\ sent \in Seq(BOOLEAN) /\ threads \in Seq(BOOLEAN)
      /\ sent' = Tail(sent) /\ v \in BOOLEAN
      /\ UNCHANGED <<mac, mode, last, frame, crossed>>
  BY DEF MouseInv, Mouse!TypeOK, Mouse!HandleSetPassthrough, Mouse!page
<1>2. seen' = v
  BY <1>1 DEF Mouse!HandleSetPassthrough, Mouse!host
<1>3. Travels' /\ sent' \in Seq(BOOLEAN)
  BY <1>1, <1>2, TailKeepsEnd DEF Travels
<1>4. CASE v = seen
  BY <1>1, <1>3, <1>4 DEF Mouse!HandleSetPassthrough, Mouse!host, MouseInv, Mouse!TypeOK, Arrives
<1>5. CASE v # seen /\ mac
  <2>1. threads' = Append(threads, v) /\ swapped' = FALSE /\ toggled' = FALSE /\ UNCHANGED ignores /\ enabled' = v
    BY <1>5 DEF Mouse!HandleSetPassthrough
  <2>2. threads' \in Seq(BOOLEAN) /\ threads' # <<>> /\ threads'[Len(threads')] = v
    BY <1>1, <2>1, AppendMakesEnd
  <2> QED BY <1>1, <1>2, <1>3, <1>5, <2>1, <2>2 DEF MouseInv, Mouse!TypeOK, Arrives
<1>6. CASE v # seen /\ ~mac
  <2>1. ignores' = v /\ UNCHANGED <<threads, swapped>> /\ toggled' = FALSE /\ enabled' = v
    BY <1>6 DEF Mouse!HandleSetPassthrough
  <2> QED BY <1>1, <1>2, <1>3, <1>6, <2>1 DEF MouseInv, Mouse!TypeOK, Arrives
<1> QED BY <1>4, <1>5, <1>6

LEMMA MainThreadKeeps == ASSUME MouseInv, Mouse!RunOnMainThread PROVE MouseInv'
<1>1. threads \in Seq(BOOLEAN) /\ Len(threads) \in Nat
  BY DEF MouseInv, Mouse!TypeOK
<1>2. PICK i \in 1..Len(threads) :
        /\ ignores' = threads[i]
        /\ threads' = SubSeq(threads, 1, i - 1) \o SubSeq(threads, i + 1, Len(threads))
        /\ swapped' = (swapped \/ (i = Len(threads) /\ i > 1))
        /\ UNCHANGED <<mac, Mouse!page, sent, seen, enabled, toggled>>
  BY DEF Mouse!RunOnMainThread
<1>3. /\ threads' \in Seq(BOOLEAN)
      /\ Len(threads) = 1 => threads' = <<>>
      /\ i < Len(threads) => threads' # <<>> /\ threads'[Len(threads')] = threads[Len(threads)]
  BY <1>1, <1>2, RemovalKeepsEnd
<1>4. ignores' \in BOOLEAN /\ threads # <<>>
  BY <1>1, <1>2
<1>5. Arrives'
  <2> SUFFICES ASSUME ~swapped', ~toggled'
               PROVE  IF threads' = <<>> THEN ignores' = seen' ELSE threads'[Len(threads')] = seen'
    BY DEF Arrives
  <2>1. ~swapped /\ ~toggled /\ ~(i = Len(threads) /\ i > 1)
    BY <1>2
  <2>2. threads[Len(threads)] = seen /\ seen' = seen
    BY <1>2, <1>4, <2>1 DEF MouseInv, Arrives
  <2>3. CASE i < Len(threads)
    BY <1>3, <2>2, <2>3
  <2>4. CASE i = Len(threads) /\ i = 1
    BY <1>2, <1>3, <2>2, <2>4
  <2> QED BY <1>1, <2>1, <2>3, <2>4
<1>6. swapped' \in BOOLEAN
  BY <1>2
<1>7. mac
  BY <1>4 DEF MouseInv, Mouse!TypeOK
<1> QED BY <1>2, <1>3, <1>4, <1>5, <1>6, <1>7 DEF MouseInv, Mouse!TypeOK, Travels, Mouse!page

LEMMA ToggleKeeps == ASSUME MouseInv, Mouse!TogglePassthrough PROVE MouseInv'
BY DEF MouseInv, Mouse!TypeOK, Travels, Arrives, Mouse!TogglePassthrough, Mouse!page

LEMMA MouseStepKeeps == MouseInv /\ [Mouse!Next]_(Mouse!vars) => MouseInv'
<1> SUFFICES ASSUME MouseInv, [Mouse!Next]_(Mouse!vars) PROVE MouseInv'
  OBVIOUS
<1>1. CASE UNCHANGED Mouse!vars
  BY <1>1 DEF MouseInv, Mouse!TypeOK, Travels, Arrives, Mouse!vars, Mouse!page, Mouse!host
<1>2. ASSUME NEW m \in Mouse!Mode, Mouse!SetMode(m) PROVE MouseInv'
  BY <1>2, SetModeKeeps
<1>3. ASSUME NEW p \in Mouse!Place, Mouse!HandleMouseMove(p) PROVE MouseInv'
  BY <1>3, MouseMoveKeeps
<1> QED BY <1>1, <1>2, <1>3, FrameKeeps, SwitchKeeps, RequestKeeps, MainThreadKeeps, ToggleKeeps DEF Mouse!Next

\* The page, the requests and the host keep their types, whatever the bounds.
THEOREM MouseTyped == Mouse!Spec => []Mouse!TypeOK
<1>1. MouseInv => Mouse!TypeOK
  BY DEF MouseInv
<1> QED BY <1>1, MouseStarts, MouseStepKeeps, PTL DEF Mouse!Spec

\* Deduplication on both sides loses no decision: once nothing is on its way the window does
\* what the page last decided, but for the three named crossings.
THEOREM DecisionSettles == Mouse!Spec => []SettlesAsDecided
<1>1. MouseInv => SettlesAsDecided
  BY DEF MouseInv, Travels, Arrives, SettlesAsDecided, Mouse!SettlesAsDecided
<1> QED BY <1>1, MouseStarts, MouseStepKeeps, PTL DEF Mouse!Spec

----------------------------------------------------------------------------
\* A set of naturals that is not empty has a least element.
LEMMA Least ==
  ASSUME NEW T \in SUBSET Nat, T # {}
  PROVE  \E x \in T : \A y \in T : x <= y
<1> DEFINE R == {ss \in Nat \X Nat : ss[1] < ss[2]}
<1>1. IsWellFoundedOn(R, Nat)
  BY NatLessThanWellFounded DEF OpToRel
<1>2. PICK x \in T : \A y \in T : <<y, x>> \notin R
  <2> HIDE DEF R
  <2> QED BY <1>1, WFMin
<1>3. \A y \in T : x <= y
  <2> TAKE y \in T
  <2>1. y \in Nat /\ x \in Nat /\ (<<y, x>> \in R <=> y < x)
    OBVIOUS
  <2>2. ~(y < x)
    BY <1>2, <2>1
  <2> QED BY ONLY <2>1, <2>2
<1> QED BY <1>3

----------------------------------------------------------------------------
(***************************************************************************)
(* Values along connections.  Calls under way stand in one line, the mail  *)
(* and behind it the requests: the first goes on, and behind the last.     *)
(***************************************************************************)
Frame == [node : Transform, arg : Flow!Terms, next : Nat \ {0}]
Call == [kind : {"get", "set"}, node : Flow!Node, arg : Flow!Terms, code : Flow!Terms \cup {Null}, rest : Seq(Frame)]
Change == [kind : {"changed"}, node : Flow!Node, arg : Flow!Terms]

FlowTyped ==
  /\ value \in [Flow!Node -> Flow!Terms \cup {Null}] /\ \A t \in Transform : value[t] # Null
  /\ known \in [Flow!Node -> Flow!Terms \cup {Null}]
  /\ inputs \in [Transform -> Flow!Terms \cup {Null}]
  /\ conns \in Seq(Wiring) /\ \A i, j \in 1..Len(conns) : conns[i] = conns[j] => i = j
  /\ requests \in Seq(Call) /\ \A k \in 1..Len(requests) : requests[k].code = Null
  /\ mail \in Seq(Call \cup Change)
  /\ \A k \in 1..Len(mail) : mail[k].kind = "get" => mail[k].code # Null

Line == mail \o requests
Asks(m, t) == m.kind = "get" /\ m.node = t
Writes(m, x) == m.kind = "set" /\ m.node = x
Loop(m) == m.rest[Len(m.rest)]

\* Each of a call's loops waits for what it sent down its last connection.
Chained(m, cs) ==
  \A k \in 1..Len(m.rest) :
    /\ m.rest[k].next - 1 \in 1..Len(cs)
    /\ cs[m.rest[k].next - 1] = <<m.rest[k].node, IF k = Len(m.rest) THEN m.node ELSE m.rest[k + 1].node>>

Placed(m, cs, in) ==
  /\ \E i \in 1..Len(cs) : m.node \in {cs[i][1], cs[i][2]}
  /\ m.kind # "changed" => /\ m.kind = "get" <=> m.node \in Transform
                           /\ m.kind = "get" => in[m.node] # Null
                           /\ Chained(m, cs)

LinePlaced == \A k \in 1..Len(Line) : Placed(Line[k], conns, inputs)

\* The last evaluation of a transform has the last input and the present text.
LatestAsks(L, t, in, code) ==
  \/ \A k \in 1..Len(L) : ~Asks(L[k], t)
  \/ \E k \in 1..Len(L) : /\ Asks(L[k], t) /\ L[k].arg = in /\ L[k].code \in {Null, code}
                          /\ \A l \in 1..Len(L) : l > k => ~Asks(L[l], t)

\* A call comes to the i-th connection, a connection of t, once its innermost loop goes on.
Under(m, t, i) == m.kind # "changed" /\ m.rest # <<>> /\ Loop(m).node = t /\ Loop(m).next <= i

\* The other calls come to that connection before the k-th.
Hindmost(L, k, t, i) ==
  \A l \in 1..Len(L) : l # k /\ Under(L[l], t, i) =>
    Loop(L[k]).next < Loop(L[l]).next \/ (Loop(L[k]).next = Loop(L[l]).next /\ l < k)

\* The call that comes to it last has the value v.
NewestBears(L, t, i, v) ==
  \E k \in 1..Len(L) : Under(L[k], t, i) /\ Loop(L[k]).arg = v /\ Hindmost(L, k, t, i)

\* What is on its way to x, and else what x holds, comes of v.
Written(x, v) ==
  IF x \in Transform THEN inputs[x] = v
  ELSE \/ Flow!Accepted(x, v) = Null
       \/ \E k \in 1..Len(requests) : /\ Writes(requests[k], x) /\ requests[k].arg = Flow!Accepted(x, v)
                                      /\ \A l \in 1..Len(requests) : l > k => ~Writes(requests[l], x)
       \/ value[x] = Flow!Accepted(x, v) /\ \A k \in 1..Len(requests) : ~Writes(requests[k], x)

NoNews(t) == \A k \in 1..Len(Line) : ~(Line[k].kind = "changed" /\ Line[k].node = t)

\* A transform's output has been sent to its connections, the i-th in step.
Carries(t, i) ==
  /\ Flow!InStep(i) /\ conns[i] \notin raw /\ NoNews(t) /\ value[t] # BadCode /\ inputs[t] # Null
  /\ \A k \in 1..Len(Line) : ~Asks(Line[k], t)

Borne(t, i) ==
  LET v == Flow!Output(value[t], inputs[t]) IN
  \/ NewestBears(Line, t, i, v)
  \/ Written(conns[i][2], v) /\ \A k \in 1..Len(Line) : ~Under(Line[k], t, i)

Conveyed(i) ==
  LET t == conns[i][1] IN
  IF t \in Plain THEN known[t] # Null => Written(conns[i][2], known[t])
  ELSE Carries(t, i) => Borne(t, i)

FlowInv ==
  /\ FlowTyped /\ LinePlaced
  /\ \A t \in Transform : NoNews(t) => LatestAsks(Line, t, inputs[t], value[t])
  /\ \A i \in 1..Len(conns) : Conveyed(i)

----------------------------------------------------------------------------
LEMMA Forest ==
  /\ Plain \cap Transform = {} /\ Color \subseteq Plain /\ Null \notin Flow!Terms
  /\ Entered \cup Code \cup ColorValue \cup {BadCode} \subseteq Flow!Terms
  /\ Entered # {} /\ Code # {}
  /\ \A c \in Wiring : c = <<c[1], c[2]>> /\ c[1] \in Flow!Node /\ c[2] \in Flow!Node
  /\ \A c, d \in Wiring : c[2] = d[2] => c = d
  /\ \A c \in Wiring : c[2] \in Edited => c[2] \in Transform
BY FlowAssumption DEF Flow!ValuesAreTerms, Flow!WiringIsForest

LEMMA OneLong == ASSUME NEW S, NEW x \in S PROVE <<x>> \in Seq(S) /\ Len(<<x>>) = 1 /\ <<x>>[1] = x
OBVIOUS

LEMMA TermsAccepted ==
  ASSUME NEW n \in Flow!Node, NEW v \in Flow!Terms
  PROVE  /\ Flow!Accepted(n, v) \in Flow!Terms \cup {Null}
         /\ n \notin Color => Flow!Accepted(n, v) # Null
<1>1. Flow!Text(v) \in Flow!Terms
  <2>1. v \in Seq(STRING) /\ "text" \in STRING
    BY FlowAssumption DEF Flow!Terms, Flow!ValuesAreTerms
  <2>2. <<"text">> \o v \in Seq(STRING)
    BY <2>1, OneLong, ConcatProperties
  <2> QED BY <2>1, <2>2 DEF Flow!Text, Flow!Terms
<1>2. CASE n \notin Color
  BY <1>1, <1>2, Forest DEF Flow!Accepted
<1>3. CASE n \in Color
  BY <1>3, Forest DEF Flow!Accepted
<1> QED BY <1>2, <1>3

LEMMA TermsOut == ASSUME NEW code \in Flow!Terms, NEW v \in Flow!Terms PROVE Flow!Output(code, v) \in Flow!Terms
<1>1. code \in Seq(STRING) /\ v \in Seq(STRING) /\ "output" \in STRING
  BY FlowAssumption DEF Flow!Terms, Flow!ValuesAreTerms
<1>2. <<"output">> \o code \in Seq(STRING)
  BY <1>1, OneLong, ConcatProperties
<1>3. (<<"output">> \o code) \o v \in Seq(STRING)
  BY <1>1, <1>2, ConcatProperties
<1> QED BY <1>3 DEF Flow!Output, Flow!Terms

\* Among the places of a sequence there is a last one.
LEMMA Greatest ==
  ASSUME NEW n \in Nat, NEW T \in SUBSET (1..n), T # {}
  PROVE  \E x \in T : \A y \in T : y <= x
<1> DEFINE D == {m \in Nat : n - m \in T}
<1>1. D \in SUBSET Nat
  OBVIOUS
<1>2. \A i \in T : n - i \in D
  <2> TAKE i \in T
  <2>1. n - i \in Nat /\ n - (n - i) = i
    OBVIOUS
  <2> QED BY <2>1
<1>3. PICK x \in D : \A y \in D : x <= y
  <2> HIDE DEF D
  <2> QED BY <1>1, <1>2, Least
<1>4. ASSUME NEW j \in T PROVE j <= n - x
  <2>1. x <= n - j /\ j \in Nat /\ x \in Nat
    BY <1>2, <1>3
  <2> QED BY <2>1
<1> QED BY <1>3, <1>4

\* A line that lost its first member or none, and gained these behind.
Grows(L, M, d, tasks) ==
  /\ d \in {0, 1} /\ d <= Len(L) /\ Len(M) = Len(L) - d + Len(tasks)
  /\ \A k \in 1..Len(L) - d : M[k] = L[k + d]
  /\ \A k \in 1..Len(tasks) : M[Len(L) - d + k] = tasks[k]

LEMMA GrownFrom ==
  ASSUME NEW S, NEW L \in Seq(S), NEW M \in Seq(S), NEW tasks \in Seq(S), NEW d, Grows(L, M, d, tasks)
  PROVE  /\ \A k \in 1..Len(M) : \/ k + d \in 1..Len(L) /\ M[k] = L[k + d]
                                 \/ k - (Len(L) - d) \in 1..Len(tasks) /\ M[k] = tasks[k - (Len(L) - d)]
         /\ \A k \in 1..Len(L) : k > d => k - d \in 1..Len(M) /\ M[k - d] = L[k]
         /\ \A k \in 1..Len(tasks) : Len(L) - d + k \in 1..Len(M) /\ M[Len(L) - d + k] = tasks[k]
<1>1. Len(L) \in Nat /\ Len(M) \in Nat /\ Len(tasks) \in Nat /\ d \in {0, 1} /\ d <= Len(L)
  BY DEF Grows
<1>2. ASSUME NEW k \in 1..Len(M)
      PROVE  \/ k + d \in 1..Len(L) /\ M[k] = L[k + d]
             \/ k - (Len(L) - d) \in 1..Len(tasks) /\ M[k] = tasks[k - (Len(L) - d)]
  <2>1. CASE k <= Len(L) - d
    BY <1>1, <2>1 DEF Grows
  <2>2. CASE k > Len(L) - d
    <3>1. k - (Len(L) - d) \in 1..Len(tasks) /\ Len(L) - d + (k - (Len(L) - d)) = k
      BY <1>1, <2>2 DEF Grows
    <3> QED BY <3>1 DEF Grows
  <2> QED BY <1>1, <2>1, <2>2
<1>3. ASSUME NEW k \in 1..Len(L), k > d PROVE k - d \in 1..Len(M) /\ M[k - d] = L[k]
  <2>1. k - d \in 1..Len(L) - d /\ k - d + d = k
    BY <1>1, <1>3
  <2> QED BY <1>1, <2>1 DEF Grows
<1>4. ASSUME NEW k \in 1..Len(tasks) PROVE Len(L) - d + k \in 1..Len(M) /\ M[Len(L) - d + k] = tasks[k]
  BY <1>1 DEF Grows
<1> QED BY <1>2, <1>3, <1>4

\* The last evaluation stays the last, or a new one is.
LEMMA GrownAsks ==
  ASSUME NEW S, NEW L \in Seq(S), NEW M \in Seq(S), NEW tasks \in Seq(S), NEW d, Grows(L, M, d, tasks),
         NEW t, NEW in, NEW code, LatestAsks(L, t, in, code),
         \A k \in 1..Len(tasks) : ~Asks(tasks[k], t)
  PROVE  LatestAsks(M, t, in, code)
<1>1. Len(L) \in Nat /\ Len(M) \in Nat /\ d \in {0, 1}
  BY DEF Grows
<1>2. \A k \in 1..Len(M) : Asks(M[k], t) => k + d \in 1..Len(L) /\ M[k] = L[k + d]
  BY GrownFrom
<1>3. CASE \A k \in 1..Len(L) : ~Asks(L[k], t)
  BY <1>2, <1>3 DEF LatestAsks
<1>4. ASSUME NEW k \in 1..Len(L), Asks(L[k], t), L[k].arg = in, L[k].code \in {Null, code},
             \A l \in 1..Len(L) : l > k => ~Asks(L[l], t)
      PROVE  LatestAsks(M, t, in, code)
  <2>1. CASE k > d
    <3>1. k - d \in 1..Len(M) /\ M[k - d] = L[k]
      BY <2>1, GrownFrom
    <3>2. ASSUME NEW l \in 1..Len(M), l > k - d PROVE ~Asks(M[l], t)
      <4>1. l + d > k
        BY <1>1, <3>2
      <4> QED BY <1>2, <1>4, <4>1
    <3> QED BY <1>4, <3>1, <3>2 DEF LatestAsks
  <2>2. CASE k <= d
    <3>1. \A l \in 1..Len(M) : l + d > k
      BY <1>1, <2>2
    <3> QED BY <1>2, <1>4, <3>1 DEF LatestAsks
  <2> QED BY <1>1, <2>1, <2>2
<1> QED BY <1>3, <1>4 DEF LatestAsks

LEMMA NewAsks ==
  ASSUME NEW S, NEW L \in Seq(S), NEW M \in Seq(S), NEW tasks \in Seq(S), NEW d, Grows(L, M, d, tasks),
         NEW t, NEW in, NEW code, NEW a \in 1..Len(tasks),
         Asks(tasks[a], t), tasks[a].arg = in, tasks[a].code = Null,
         \A k \in 1..Len(tasks) : Asks(tasks[k], t) => k = a
  PROVE  LatestAsks(M, t, in, code)
<1>1. Len(L) \in Nat /\ Len(M) \in Nat /\ Len(tasks) \in Nat /\ d \in {0, 1} /\ d <= Len(L)
  BY DEF Grows
<1>2. Len(L) - d + a \in 1..Len(M) /\ M[Len(L) - d + a] = tasks[a]
  BY GrownFrom
<1>3. ASSUME NEW l \in 1..Len(M), l > Len(L) - d + a PROVE ~Asks(M[l], t)
  <2>1. l + d > Len(L) /\ l - (Len(L) - d) > a
    BY <1>1, <1>3
  <2>2. l - (Len(L) - d) \in 1..Len(tasks) /\ M[l] = tasks[l - (Len(L) - d)]
    <3>1. \/ l + d \in 1..Len(L) /\ M[l] = L[l + d]
          \/ l - (Len(L) - d) \in 1..Len(tasks) /\ M[l] = tasks[l - (Len(L) - d)]
      BY GrownFrom
    <3> QED BY <1>1, <2>1, <3>1
  <2> QED BY <2>1, <2>2
<1> QED BY <1>2, <1>3 DEF LatestAsks

\* The newest call stays the newest in front of a new one, unless the first was the newest.
LEMMA GrownBears ==
  ASSUME NEW S, NEW L \in Seq(S), NEW M \in Seq(S), NEW tasks \in Seq(S), NEW d, Grows(L, M, d, tasks),
         NEW t, NEW i \in Nat, NEW v, NEW k \in 1..Len(L), k > d, Under(L[k], t, i), Loop(L[k]).arg = v,
         Hindmost(L, k, t, i),
         \A l \in 1..Len(tasks) : Under(tasks[l], t, i) => Loop(L[k]).next < Loop(tasks[l]).next
  PROVE  NewestBears(M, t, i, v)
<1>1. Len(L) \in Nat /\ Len(M) \in Nat /\ d \in {0, 1}
  BY DEF Grows
<1>2. k - d \in 1..Len(M) /\ M[k - d] = L[k]
  BY GrownFrom
<1>3. ASSUME NEW l \in 1..Len(M), l # k - d, Under(M[l], t, i)
      PROVE  \/ Loop(M[k - d]).next < Loop(M[l]).next
             \/ Loop(M[k - d]).next = Loop(M[l]).next /\ l < k - d
  <2>1. CASE l + d \in 1..Len(L) /\ M[l] = L[l + d]
    <3>1. l + d # k /\ (l + d < k => l < k - d)
      BY <1>1, <1>3
    <3> QED BY <1>2, <1>3, <2>1, <3>1 DEF Hindmost
  <2>2. CASE l - (Len(L) - d) \in 1..Len(tasks) /\ M[l] = tasks[l - (Len(L) - d)]
    BY <1>2, <1>3, <2>2
  <2> QED BY <2>1, <2>2, GrownFrom
<1> QED BY <1>2, <1>3 DEF NewestBears, Hindmost

\* The first call is followed by a new one, which is the newest.
LEMMA NewBears ==
  ASSUME NEW S, NEW L \in Seq(S), NEW M \in Seq(S), NEW tasks \in Seq(S), Grows(L, M, 1, tasks),
         NEW t, NEW i \in Nat, NEW v, Len(tasks) = 1, Under(tasks[1], t, i), Loop(tasks[1]).arg = v,
         \A l \in 2..Len(L) : Under(L[l], t, i) =>
           Loop(L[l]).next \in Nat /\ Loop(tasks[1]).next \in Nat /\ Loop(tasks[1]).next <= Loop(L[l]).next
  PROVE  NewestBears(M, t, i, v)
<1>1. Len(L) \in Nat /\ Len(M) = Len(L) /\ 1 <= Len(L)
  BY DEF Grows
<1>2. M[Len(M)] = tasks[1] /\ Len(M) \in 1..Len(M)
  <2>1. Len(L) - 1 + 1 = Len(M)
    BY <1>1
  <2>2. 1 \in 1..Len(tasks)
    OBVIOUS
  <2> QED BY <2>1, <2>2, <1>1, GrownFrom
<1>3. ASSUME NEW l \in 1..Len(M), l # Len(M), Under(M[l], t, i)
      PROVE  \/ Loop(M[Len(M)]).next < Loop(M[l]).next
             \/ Loop(M[Len(M)]).next = Loop(M[l]).next /\ l < Len(M)
  <2>1. l \in 1..Len(L) - 1 /\ l + 1 \in 2..Len(L) /\ l < Len(M)
    BY <1>1, <1>3
  <2>2. M[l] = L[l + 1]
    BY <2>1 DEF Grows
  <2>3. Loop(tasks[1]).next <= Loop(L[l + 1]).next /\ Loop(L[l + 1]).next \in Nat /\ Loop(tasks[1]).next \in Nat
    BY <1>3, <2>1, <2>2
  <2> QED BY <1>2, <2>1, <2>2, <2>3
<1> QED BY <1>2, <1>3 DEF NewestBears, Hindmost

\* A line with an event more, whose calls are the same, up to an answer.
Carried(L, M, f, val) ==
  /\ f \in [1..Len(L) -> 1..Len(M)]
  /\ \A k, l \in 1..Len(L) : k < l => f[k] < f[l]
  /\ \A k \in 1..Len(L) : LET a == L[k]  b == M[f[k]] IN
       /\ b.kind = a.kind /\ b.node = a.node /\ b.arg = a.arg
       /\ a.kind # "changed" => b.rest = a.rest /\ (b = a \/ (a.kind = "get" /\ b.code = val[a.node]))
  /\ \A m \in 1..Len(M) : M[m].kind = "changed" \/ \E k \in 1..Len(L) : m = f[k]

LEMMA CarriedAsks ==
  ASSUME NEW S, NEW L \in Seq(S), NEW M \in Seq(S), NEW f, NEW val, NEW t, Carried(L, M, f, val),
         NEW in, LatestAsks(L, t, in, val[t])
  PROVE  LatestAsks(M, t, in, val[t])
<1>1. Len(L) \in Nat /\ Len(M) \in Nat
  OBVIOUS
<1>2. ASSUME NEW m \in 1..Len(M), Asks(M[m], t) PROVE \E k \in 1..Len(L) : m = f[k] /\ Asks(L[k], t)
  <2>1. PICK k \in 1..Len(L) : m = f[k]
    BY <1>2 DEF Carried, Asks
  <2>2. M[f[k]].kind = L[k].kind /\ M[f[k]].node = L[k].node
    BY DEF Carried
  <2> QED BY <1>2, <2>1, <2>2 DEF Asks
<1>3. CASE \A k \in 1..Len(L) : ~Asks(L[k], t)
  BY <1>2, <1>3 DEF LatestAsks
<1>4. ASSUME NEW k \in 1..Len(L), Asks(L[k], t), L[k].arg = in, L[k].code \in {Null, val[t]},
             \A l \in 1..Len(L) : l > k => ~Asks(L[l], t)
      PROVE  LatestAsks(M, t, in, val[t])
  <2>1. f[k] \in 1..Len(M) /\ Asks(M[f[k]], t) /\ M[f[k]].arg = in /\ M[f[k]].code \in {Null, val[t]}
    BY <1>4 DEF Carried, Asks
  <2>2. ASSUME NEW m \in 1..Len(M), m > f[k], Asks(M[m], t) PROVE FALSE
    <3>1. PICK l \in 1..Len(L) : m = f[l] /\ Asks(L[l], t)
      BY <1>2, <2>2
    <3>2. ~(l < k) /\ l # k
      BY <2>1, <2>2, <3>1 DEF Carried
    <3> QED BY <1>4, <3>1, <3>2
  <2> QED BY <2>1, <2>2 DEF LatestAsks
<1> QED BY <1>3, <1>4 DEF LatestAsks

LEMMA CarriedBears ==
  ASSUME NEW S, NEW L \in Seq(S), NEW M \in Seq(S), NEW f, NEW val, Carried(L, M, f, val),
         NEW t, NEW i, NEW v
  PROVE  /\ NewestBears(L, t, i, v) => NewestBears(M, t, i, v)
         /\ (\A k \in 1..Len(L) : ~Under(L[k], t, i)) => \A m \in 1..Len(M) : ~Under(M[m], t, i)
<1>1. ASSUME NEW k \in 1..Len(L)
      PROVE  /\ f[k] \in 1..Len(M) /\ M[f[k]].kind = L[k].kind
             /\ L[k].kind # "changed" => M[f[k]].rest = L[k].rest
  BY DEF Carried
<1>2. ASSUME NEW k \in 1..Len(L)
      PROVE  /\ Under(L[k], t, i) <=> Under(M[f[k]], t, i)
             /\ Under(L[k], t, i) => Loop(M[f[k]]) = Loop(L[k])
  BY <1>1 DEF Under, Loop
<1>3. ASSUME NEW m \in 1..Len(M), Under(M[m], t, i) PROVE \E k \in 1..Len(L) : m = f[k]
  BY <1>3 DEF Carried, Under
<1>4. ASSUME NewestBears(L, t, i, v) PROVE NewestBears(M, t, i, v)
  <2>1. PICK k \in 1..Len(L) :
          /\ Under(L[k], t, i) /\ Loop(L[k]).arg = v
          /\ Hindmost(L, k, t, i)
    BY <1>4 DEF NewestBears
  <2>2. f[k] \in 1..Len(M) /\ Under(M[f[k]], t, i) /\ Loop(M[f[k]]) = Loop(L[k])
    BY <1>1, <1>2, <2>1
  <2>3. ASSUME NEW m \in 1..Len(M), m # f[k], Under(M[m], t, i)
        PROVE  \/ Loop(M[f[k]]).next < Loop(M[m]).next
               \/ Loop(M[f[k]]).next = Loop(M[m]).next /\ m < f[k]
    <3>1. PICK l \in 1..Len(L) : m = f[l]
      BY <1>3, <2>3
    <3>2. Under(L[l], t, i) /\ Loop(M[m]) = Loop(L[l])
      BY <1>2, <2>3, <3>1
    <3>3. l # k /\ (l < k => f[l] < f[k])
      BY <2>3, <3>1 DEF Carried
    <3> QED BY <2>1, <2>2, <3>1, <3>2, <3>3 DEF Hindmost
  <2> QED BY <2>1, <2>2, <2>3 DEF NewestBears, Hindmost
<1> QED BY <1>2, <1>3, <1>4

----------------------------------------------------------------------------
LEMMA LineTyped ==
  ASSUME FlowTyped
  PROVE  /\ Line \in Seq(Call \cup Change) /\ Len(Line) = Len(mail) + Len(requests)
         /\ Len(mail) \in Nat /\ Len(requests) \in Nat
         /\ \A k \in 1..Len(mail) : Line[k] = mail[k]
         /\ \A k \in 1..Len(requests) : Line[Len(mail) + k] = requests[k] /\ requests[k] \in Call
         /\ \A k \in 1..Len(Line) : Line[k] \in Call \/ Line[k] \in Change
<1>1. requests \in Seq(Call \cup Change) /\ mail \in Seq(Call \cup Change)
  BY SeqMonotonic DEF FlowTyped
<1>2. /\ Line \in Seq(Call \cup Change) /\ Len(Line) = Len(mail) + Len(requests)
      /\ \A k \in 1..Len(mail) + Len(requests) : Line[k] = IF k <= Len(mail) THEN mail[k] ELSE requests[k - Len(mail)]
  BY <1>1, ConcatProperties DEF Line
<1>3. Len(mail) \in Nat /\ Len(requests) \in Nat
  BY <1>1
<1>4. ASSUME NEW k \in 1..Len(requests) PROVE Line[Len(mail) + k] = requests[k] /\ requests[k] \in Call
  <2>1. /\ Len(mail) + k \in 1..Len(mail) + Len(requests) /\ ~(Len(mail) + k <= Len(mail))
        /\ Len(mail) + k - Len(mail) = k
    BY <1>3
  <2>2. requests[k] \in Call
    BY ElementOfSeq DEF FlowTyped
  <2> QED BY <1>2, <2>1, <2>2
<1>5. ASSUME NEW k \in 1..Len(Line) PROVE Line[k] \in Call \/ Line[k] \in Change
  BY <1>2, ElementOfSeq
<1>6. \A k \in 1..Len(mail) : Line[k] = mail[k]
  BY <1>2, <1>3
<1> QED BY <1>2, <1>3, <1>4, <1>5, <1>6

LEMMA CallFields ==
  /\ \A m \in Call : /\ m.kind \in {"get", "set"} /\ m.node \in Flow!Node /\ m.arg \in Flow!Terms
                     /\ m.rest \in Seq(Frame) /\ m.code \in Flow!Terms \cup {Null}
  /\ \A m \in Change : m.kind = "changed" /\ m.node \in Flow!Node /\ m.arg \in Flow!Terms
BY DEF Call, Change

\* Each transform's last input is noted.
LEMMA NotedInputs ==
  ASSUME FlowTyped, NEW tasks \in Seq(Call),
         \A k, l \in 1..Len(tasks) : tasks[k].node = tasks[l].node => k = l
  PROVE  /\ Flow!Noted(tasks) \in [Transform -> Flow!Terms \cup {Null}]
         /\ \A t \in Transform : (\A k \in 1..Len(tasks) : tasks[k].node # t) => Flow!Noted(tasks)[t] = inputs[t]
         /\ \A k \in 1..Len(tasks) : tasks[k].node \in Transform => Flow!Noted(tasks)[tasks[k].node] = tasks[k].arg
<1> DEFINE Mine(t) == {i \in DOMAIN tasks : tasks[i].node = t}
<1>1. DOMAIN tasks = 1..Len(tasks) /\ Len(tasks) \in Nat
  BY LenProperties
<1>2. ASSUME NEW t \in Transform
      PROVE  Flow!Noted(tasks)[t] = IF Mine(t) = {} THEN inputs[t] ELSE tasks[Flow!Max(Mine(t))].arg
  BY DEF Flow!Noted
<1>3. ASSUME NEW k \in 1..Len(tasks) PROVE Mine(tasks[k].node) = {k} /\ Flow!Max({k}) = k
  <2>1. Mine(tasks[k].node) = {k}
    BY <1>1
  <2>2. Flow!Max({k}) = k
    BY DEF Flow!Max
  <2> QED BY <2>1, <2>2
<1>4. ASSUME NEW t \in Transform, \A k \in 1..Len(tasks) : tasks[k].node # t PROVE Flow!Noted(tasks)[t] = inputs[t]
  <2>1. Mine(t) = {}
    BY <1>1, <1>4
  <2> HIDE DEF Mine
  <2> QED BY <1>2, <2>1
<1>5. ASSUME NEW k \in 1..Len(tasks), tasks[k].node \in Transform
      PROVE  Flow!Noted(tasks)[tasks[k].node] = tasks[k].arg /\ tasks[k].arg \in Flow!Terms
  <2>1. tasks[k].arg \in Flow!Terms
    BY ElementOfSeq, CallFields
  <2> HIDE DEF Mine
  <2>2. {k} # {}
    OBVIOUS
  <2> QED BY <1>2, <1>3, <1>5, <2>1, <2>2
<1>6. ASSUME NEW t \in Transform PROVE Flow!Noted(tasks)[t] \in Flow!Terms \cup {Null}
  <2>1. CASE \A k \in 1..Len(tasks) : tasks[k].node # t
    BY <1>4, <2>1 DEF FlowTyped
  <2>2. CASE \E k \in 1..Len(tasks) : tasks[k].node = t
    BY <1>5, <2>2
  <2> QED BY <2>1, <2>2
<1>7. Flow!Noted(tasks) = [t \in Transform |-> Flow!Noted(tasks)[t]]
  BY DEF Flow!Noted
<1> HIDE DEF Mine
<1> QED BY <1>4, <1>5, <1>6, <1>7

\* Calls start or go on: the line may lose its first member and gains these.
Spread(d, tasks) ==
  /\ tasks \in Seq(Call) /\ \A k \in 1..Len(tasks) : tasks[k].code = Null
  /\ \A k, l \in 1..Len(tasks) : tasks[k].node = tasks[l].node => k = l
  /\ \A k \in 1..Len(tasks) : Placed(tasks[k], conns', inputs')
  /\ Grows(Line, Line', d, tasks)
  /\ requests' = requests \o tasks
  /\ inputs' = Flow!Noted(tasks)
  /\ value' = value
  /\ conns' \in Seq(Wiring) /\ Len(conns) <= Len(conns') /\ \A k \in 1..Len(conns) : conns'[k] = conns[k]

LEMMA SpreadInputs ==
  ASSUME FlowTyped, NEW d, NEW tasks, Spread(d, tasks)
  PROVE  /\ inputs' \in [Transform -> Flow!Terms \cup {Null}]
         /\ \A t \in Transform : (\A k \in 1..Len(tasks) : tasks[k].node # t) => inputs'[t] = inputs[t]
         /\ \A k \in 1..Len(tasks) : tasks[k].node \in Transform =>
              inputs'[tasks[k].node] = tasks[k].arg /\ tasks[k].kind = "get"
         /\ \A k \in 1..Len(tasks) : tasks[k] \in Call
         /\ \A t \in Transform : inputs[t] # Null => inputs'[t] # Null
<1>1. \A k \in 1..Len(tasks) : tasks[k] \in Call
  BY ElementOfSeq DEF Spread
<1>2. ASSUME NEW k \in 1..Len(tasks), tasks[k].node \in Transform PROVE tasks[k].kind = "get"
  <2>1. tasks[k].kind # "changed" /\ Placed(tasks[k], conns', inputs')
    BY <1>1, CallFields DEF Spread
  <2> QED BY <1>2, <2>1 DEF Placed
<1>3. /\ inputs' \in [Transform -> Flow!Terms \cup {Null}]
      /\ \A t \in Transform : (\A k \in 1..Len(tasks) : tasks[k].node # t) => inputs'[t] = inputs[t]
      /\ \A k \in 1..Len(tasks) : tasks[k].node \in Transform => inputs'[tasks[k].node] = tasks[k].arg
  BY NotedInputs DEF Spread
<1>4. ASSUME NEW t \in Transform, inputs[t] # Null PROVE inputs'[t] # Null
  BY <1>1, <1>3, <1>4, CallFields, Forest
<1> QED BY <1>1, <1>2, <1>3, <1>4

LEMMA GrownLine ==
  ASSUME FlowTyped, NEW d, NEW tasks, Spread(d, tasks), mail' \in Seq(Call \cup Change)
  PROVE  /\ requests' \in Seq(Call) /\ \A k \in 1..Len(requests') : requests'[k].code = Null
         /\ Line' \in Seq(Call \cup Change) /\ tasks \in Seq(Call \cup Change)
<1>1. requests \in Seq(Call) /\ tasks \in Seq(Call) /\ requests' = requests \o tasks
  BY DEF FlowTyped, Spread
<1>2. /\ requests' \in Seq(Call)
      /\ \A k \in 1..Len(requests) + Len(tasks) :
           requests'[k] = IF k <= Len(requests) THEN requests[k] ELSE tasks[k - Len(requests)]
      /\ Len(requests') = Len(requests) + Len(tasks) /\ Len(requests) \in Nat /\ Len(tasks) \in Nat
  BY <1>1, ConcatProperties
<1>3. ASSUME NEW k \in 1..Len(requests') PROVE requests'[k].code = Null
  BY <1>2 DEF FlowTyped, Spread
<1>4. requests' \in Seq(Call \cup Change) /\ tasks \in Seq(Call \cup Change)
  BY <1>1, <1>2, SeqMonotonic
<1>5. mail' \o requests' \in Seq(Call \cup Change)
  BY <1>4, ConcatProperties
<1> QED BY <1>2, <1>3, <1>4, <1>5 DEF Line

\* A member of the line is one of before, or one of those that it gained.
Gained(d, tasks) ==
  /\ d \in {0, 1}
  /\ \A k \in 1..Len(Line') : \/ \E l \in 1..Len(Line) : l > d /\ Line'[k] = Line[l]
                              \/ \E l \in 1..Len(tasks) : Line'[k] = tasks[l]
  /\ \A l \in 1..Len(Line) : l > d => \E k \in 1..Len(Line') : Line'[k] = Line[l]
  /\ \A l \in 1..Len(tasks) : \E k \in 1..Len(Line') : Line'[k] = tasks[l]

LEMMA LineGrows ==
  ASSUME FlowTyped, NEW d, NEW tasks, Spread(d, tasks), mail' \in Seq(Call \cup Change)
  PROVE  Gained(d, tasks)
<1>1. Line \in Seq(Call \cup Change) /\ Line' \in Seq(Call \cup Change) /\ tasks \in Seq(Call \cup Change)
  BY LineTyped, GrownLine
<1>2. Grows(Line, Line', d, tasks)
  BY DEF Spread
<1>3. /\ \A k \in 1..Len(Line') : \/ k + d \in 1..Len(Line) /\ Line'[k] = Line[k + d]
                                  \/ k - (Len(Line) - d) \in 1..Len(tasks) /\ Line'[k] = tasks[k - (Len(Line) - d)]
      /\ \A k \in 1..Len(Line) : k > d => k - d \in 1..Len(Line') /\ Line'[k - d] = Line[k]
      /\ \A k \in 1..Len(tasks) : Len(Line) - d + k \in 1..Len(Line') /\ Line'[Len(Line) - d + k] = tasks[k]
  BY <1>1, <1>2, GrownFrom
<1>4. d \in {0, 1} /\ \A k \in 1..Len(Line') : k + d > d
  BY <1>2 DEF Grows
<1> QED BY <1>3, <1>4 DEF Gained

LEMMA StillPlaced ==
  ASSUME FlowTyped, NEW m \in Call \cup Change, Placed(m, conns, inputs),
         Len(conns) <= Len(conns'), \A k \in 1..Len(conns) : conns'[k] = conns[k], conns' \in Seq(Wiring),
         \A t \in Transform : inputs[t] # Null => inputs'[t] # Null
  PROVE  Placed(m, conns', inputs')
<1>1. Len(conns) \in Nat /\ Len(conns') \in Nat
  BY DEF FlowTyped
<1>2. PICK i \in 1..Len(conns) : m.node \in {conns[i][1], conns[i][2]}
  BY DEF Placed
<1>3. i \in 1..Len(conns') /\ m.node \in {conns'[i][1], conns'[i][2]}
  BY <1>1, <1>2
<1>4. m.kind # "changed" => Chained(m, conns')
  <2>1. SUFFICES ASSUME m.kind # "changed", NEW k \in 1..Len(m.rest)
                 PROVE  /\ m.rest[k].next - 1 \in 1..Len(conns')
                        /\ conns'[m.rest[k].next - 1] =
                             <<m.rest[k].node, IF k = Len(m.rest) THEN m.node ELSE m.rest[k + 1].node>>
    BY DEF Chained
  <2>2. /\ m.rest[k].next - 1 \in 1..Len(conns)
        /\ conns[m.rest[k].next - 1] =
             <<m.rest[k].node, IF k = Len(m.rest) THEN m.node ELSE m.rest[k + 1].node>>
    BY <2>1 DEF Placed, Chained
  <2> QED BY <1>1, <2>2
<1> QED BY <1>3, <1>4 DEF Placed

LEMMA SpreadPlaced ==
  ASSUME FlowInv, NEW d, NEW tasks, Spread(d, tasks), mail' \in Seq(Call \cup Change)
  PROVE  LinePlaced'
<1> USE DEF FlowInv
<1>1. ASSUME NEW l \in 1..Len(Line) PROVE Placed(Line[l], conns', inputs')
  <2>1. Line[l] \in Call \cup Change
    BY LineTyped
  <2>2. Placed(Line[l], conns, inputs)
    BY DEF LinePlaced
  <2>3. /\ Len(conns) <= Len(conns') /\ conns' \in Seq(Wiring)
        /\ \A k \in 1..Len(conns) : conns'[k] = conns[k]
    BY DEF Spread
  <2>4. \A t \in Transform : inputs[t] # Null => inputs'[t] # Null
    BY SpreadInputs
  <2> QED BY <2>1, <2>2, <2>3, <2>4, StillPlaced
<1>2. ASSUME NEW k \in 1..Len(Line') PROVE Placed(Line'[k], conns', inputs')
  <2>1. CASE \E l \in 1..Len(Line) : Line'[k] = Line[l]
    BY <1>1, <2>1
  <2>2. CASE \E l \in 1..Len(tasks) : Line'[k] = tasks[l]
    BY <2>2 DEF Spread
  <2>3. Gained(d, tasks)
    BY LineGrows
  <2> QED BY <2>1, <2>2, <2>3 DEF Gained
<1> QED BY <1>2 DEF LinePlaced

LEMMA SpreadAsks ==
  ASSUME FlowInv, NEW d, NEW tasks, Spread(d, tasks), mail' \in Seq(Call \cup Change), NEW t \in Transform,
         NoNews(t) \/ inputs[t] = Null \/ \E k \in 1..Len(tasks) : tasks[k].node = t
  PROVE  LatestAsks(Line', t, inputs'[t], value'[t])
<1> USE DEF FlowInv
<1>1. Line \in Seq(Call \cup Change) /\ Line' \in Seq(Call \cup Change) /\ tasks \in Seq(Call \cup Change)
  BY LineTyped, GrownLine
<1>2. Grows(Line, Line', d, tasks) /\ value' = value /\ \A k \in 1..Len(tasks) : tasks[k].code = Null
  BY DEF Spread
<1>3. ASSUME NEW a \in 1..Len(tasks), tasks[a].node = t
      PROVE  LatestAsks(Line', t, inputs'[t], value'[t])
  <2>1. Asks(tasks[a], t) /\ inputs'[t] = tasks[a].arg
    BY <1>3, SpreadInputs DEF Asks
  <2>2. \A k \in 1..Len(tasks) : Asks(tasks[k], t) => k = a
    BY <1>3 DEF Asks, Spread
  <2>3. tasks[a].code = Null
    BY <1>2
  <2> QED BY <1>1, <1>2, <2>1, <2>2, <2>3, NewAsks
<1>4. ASSUME \A k \in 1..Len(tasks) : tasks[k].node # t
      PROVE  LatestAsks(Line', t, inputs'[t], value'[t])
  <2>1. inputs'[t] = inputs[t] /\ \A k \in 1..Len(tasks) : ~Asks(tasks[k], t)
    BY <1>4, SpreadInputs DEF Asks
  <2>2. LatestAsks(Line, t, inputs[t], value[t])
    <3>1. CASE NoNews(t)
      BY <3>1
    <3>2. CASE inputs[t] = Null
      <4>1. \A k \in 1..Len(Line) : ~Asks(Line[k], t)
        BY <3>2 DEF LinePlaced, Placed, Asks
      <4> QED BY <4>1 DEF LatestAsks
    <3> QED BY <1>4, <3>1, <3>2
  <2>3. LatestAsks(Line', t, inputs[t], value[t])
    BY <1>1, <1>2, <2>1, <2>2, GrownAsks
  <2> QED BY <1>2, <2>1, <2>3
<1> QED BY <1>3, <1>4

----------------------------------------------------------------------------
\* Nothing new is sent to x, or the last thing sent is v.
LEMMA WrittenStays ==
  ASSUME FlowTyped, NEW d, NEW tasks, Spread(d, tasks), NEW x \in Flow!Node, NEW v, Written(x, v),
         \A k \in 1..Len(tasks) : tasks[k].node = x => x \in Transform /\ tasks[k].arg = inputs[x]
  PROVE  Written(x, v)'
<1>1. CASE x \in Transform
  <2>1. inputs'[x] = inputs[x]
    BY <1>1, SpreadInputs
  <2> QED BY <1>1, <2>1 DEF Written
<1>2. CASE x \notin Transform
  <2>1. \A k \in 1..Len(tasks) : ~Writes(tasks[k], x)
    BY <1>2 DEF Writes
  <2>2. requests \in Seq(Call) /\ tasks \in Seq(Call) /\ requests' = requests \o tasks /\ value' = value
    BY DEF FlowTyped, Spread
  <2>3. /\ \A k \in 1..Len(requests) + Len(tasks) :
             requests'[k] = IF k <= Len(requests) THEN requests[k] ELSE tasks[k - Len(requests)]
        /\ Len(requests') = Len(requests) + Len(tasks) /\ Len(requests) \in Nat /\ Len(tasks) \in Nat
    BY <2>2, ConcatProperties
  <2>4. \A k \in 1..Len(requests) : k \in 1..Len(requests') /\ requests'[k] = requests[k]
    BY <2>3
  <2>5. ASSUME NEW k \in 1..Len(requests'), Writes(requests'[k], x) PROVE k \in 1..Len(requests)
    <3>1. CASE k > Len(requests)
      <4>1. requests'[k] = tasks[k - Len(requests)] /\ k - Len(requests) \in 1..Len(tasks)
        BY <2>3, <3>1
      <4> QED BY <2>1, <2>5, <4>1
    <3> QED BY <2>3, <3>1
  <2>6. ASSUME NEW k \in 1..Len(requests), Writes(requests[k], x), requests[k].arg = Flow!Accepted(x, v),
               \A l \in 1..Len(requests) : l > k => ~Writes(requests[l], x)
        PROVE  Written(x, v)'
    <3>1. k \in 1..Len(requests') /\ requests'[k] = requests[k]
      BY <2>4
    <3>2. \A l \in 1..Len(requests') : l > k => ~Writes(requests'[l], x)
      BY <2>4, <2>5, <2>6
    <3> QED BY <1>2, <2>6, <3>1, <3>2 DEF Written
  <2>7. ASSUME \A k \in 1..Len(requests) : ~Writes(requests[k], x), value[x] = Flow!Accepted(x, v)
        PROVE  Written(x, v)'
    <3>1. \A k \in 1..Len(requests') : ~Writes(requests'[k], x)
      BY <2>4, <2>5, <2>7
    <3> QED BY <1>2, <2>2, <2>7, <3>1 DEF Written
  <2> QED BY <1>2, <2>6, <2>7 DEF Written
<1> QED BY <1>1, <1>2

LEMMA WrittenNow ==
  ASSUME FlowTyped, NEW d, NEW tasks, Spread(d, tasks), NEW x \in Flow!Node, NEW v,
         NEW a \in 1..Len(tasks), NEW rest, tasks[a] = Flow!Task(x, v, rest)
  PROVE  Written(x, v)'
<1>1. tasks[a].node = x
  BY DEF Flow!Task
<1>2. CASE x \in Transform
  <2>1. tasks[a].arg = v
    BY <1>2 DEF Flow!Task
  <2>2. inputs'[x] = v
    BY <1>1, <1>2, <2>1, SpreadInputs
  <2> QED BY <1>2, <2>2 DEF Written
<1>3. CASE x \notin Transform
  <2>1. Writes(tasks[a], x) /\ tasks[a].arg = Flow!Accepted(x, v)
    BY <1>3 DEF Flow!Task, Writes
  <2>2. requests \in Seq(Call) /\ tasks \in Seq(Call) /\ requests' = requests \o tasks
    BY DEF FlowTyped, Spread
  <2>3. /\ \A k \in 1..Len(requests) + Len(tasks) :
             requests'[k] = IF k <= Len(requests) THEN requests[k] ELSE tasks[k - Len(requests)]
        /\ Len(requests') = Len(requests) + Len(tasks) /\ Len(requests) \in Nat /\ Len(tasks) \in Nat
    BY <2>2, ConcatProperties
  <2>4. /\ Len(requests) + a \in 1..Len(requests') /\ ~(Len(requests) + a <= Len(requests))
        /\ Len(requests) + a - Len(requests) = a
    BY <2>3
  <2>5. requests'[Len(requests) + a] = tasks[a]
    BY <2>3, <2>4
  <2>6. ASSUME NEW l \in 1..Len(requests'), l > Len(requests) + a, Writes(requests'[l], x) PROVE FALSE
    <3>1. requests'[l] = tasks[l - Len(requests)] /\ l - Len(requests) \in 1..Len(tasks) /\ l - Len(requests) # a
      BY <2>3, <2>6
    <3> QED BY <1>1, <2>6, <3>1 DEF Writes, Spread
  <2> QED BY <1>3, <2>1, <2>4, <2>5, <2>6 DEF Written
<1> QED BY <1>2, <1>3

----------------------------------------------------------------------------
LEMMA Connection ==
  ASSUME conns \in Seq(Wiring)
  PROVE  /\ Len(conns) \in Nat /\ DOMAIN conns = 1..Len(conns)
         /\ \A i \in 1..Len(conns) : /\ conns[i] \in Wiring /\ conns[i] = <<conns[i][1], conns[i][2]>>
                                     /\ conns[i][1] \in Flow!Node /\ conns[i][2] \in Flow!Node
                                     /\ conns[i][1] \notin Plain => conns[i][1] \in Transform
<1>1. Len(conns) \in Nat /\ DOMAIN conns = 1..Len(conns) /\ \A i \in 1..Len(conns) : conns[i] \in Wiring
  BY LenProperties, ElementOfSeq
<1> QED BY <1>1, Forest DEF Flow!Node

\* Connections made behind it let no connection come into step.
LEMMA OutOfStep ==
  ASSUME FlowTyped, conns' \in Seq(Wiring), Len(conns) <= Len(conns'),
         \A k \in 1..Len(conns) : conns'[k] = conns[k],
         NEW i \in 1..Len(conns), Flow!InStep(i)'
  PROVE  Flow!InStep(i)
<1>1. Len(conns) \in Nat /\ Len(conns') \in Nat /\ DOMAIN conns = 1..Len(conns) /\ DOMAIN conns' = 1..Len(conns')
  BY LenProperties DEF FlowTyped
<1>2. \A c \in Flow!Range(conns) : c \in Flow!Range(conns')
  BY <1>1 DEF Flow!Range
<1>3. \A n : Flow!Brief(n)' => Flow!Brief(n)
  BY <1>2 DEF Flow!Brief
<1>4. SUFFICES ASSUME NEW j \in 1..i - 1, conns[j][1] = conns[i][1] PROVE Flow!Brief(conns[j][2])
  BY DEF Flow!InStep
<1>5. j \in 1..Len(conns)
  BY <1>1
<1> QED BY <1>3, <1>4, <1>5 DEF Flow!InStep

\* Who is brief accepts strings, and has no connections of its own.
LEMMA BriefNode ==
  ASSUME FlowTyped, NEW n, Flow!Brief(n)
  PROVE  n \notin Color /\ \A i \in 1..Len(conns) : conns[i][1] = n => n \in Plain
<1>1. DOMAIN conns = 1..Len(conns)
  BY LenProperties DEF FlowTyped
<1> QED BY <1>1, Forest DEF Flow!Brief, Flow!Range

\* What a connection conveys it still does when no call that concerns it starts or goes on.
LEMMA StaysBorne ==
  ASSUME FlowInv, NEW d, NEW tasks, Spread(d, tasks), mail' \in Seq(Call \cup Change),
         NEW i \in 1..Len(conns), conns[i][1] \in Transform, Carries(conns[i][1], i)',
         conns[i] \in raw => conns[i] \in raw',
         NoNews(conns[i][1]) \/ \E k \in 1..Len(tasks) : tasks[k].node = conns[i][1],
         \A k \in 1..Len(tasks) : tasks[k].node = conns[i][2] =>
           conns[i][2] \in Transform /\ tasks[k].arg = inputs[conns[i][2]],
         \A k \in 1..Len(tasks) : ~Under(tasks[k], conns[i][1], i),
         d = 1 => ~Asks(Line[1], conns[i][1]) /\ ~Under(Line[1], conns[i][1], i)
  PROVE  Borne(conns[i][1], i)'
<1> USE DEF FlowInv
<1> DEFINE t == conns[i][1]
           x == conns[i][2]
<1>0. /\ conns'[i] = conns[i] /\ value' = value /\ Grows(Line, Line', d, tasks) /\ i \in Nat /\ t \notin Plain
      /\ t \in Transform /\ x \in Flow!Node
  BY Forest, Connection DEF Spread, FlowTyped
<1>1. /\ d \in {0, 1}
      /\ \A k \in 1..Len(Line') : \/ \E l \in 1..Len(Line) : l > d /\ Line'[k] = Line[l]
                                  \/ \E l \in 1..Len(tasks) : Line'[k] = tasks[l]
      /\ \A l \in 1..Len(Line) : l > d => \E k \in 1..Len(Line') : Line'[k] = Line[l]
      /\ \A l \in 1..Len(tasks) : \E k \in 1..Len(Line') : Line'[k] = tasks[l]
  <2>1. FlowTyped
    OBVIOUS
  <2>2. Gained(d, tasks)
    BY <2>1, LineGrows
  <2> QED BY ONLY <2>2 DEF Gained
<1> HIDE DEF FlowInv
<1>2. \A k \in 1..Len(tasks) : tasks[k].node # t
  <2>1. SUFFICES ASSUME NEW k \in 1..Len(tasks), tasks[k].node = t PROVE FALSE
    OBVIOUS
  <2>2. Asks(tasks[k], t)
    BY <1>0, <2>1, SpreadInputs DEF Asks, FlowInv
  <2> HIDE DEF t
  <2>3. \A m \in 1..Len(Line') : ~Asks(Line'[m], t)
    BY <1>0 DEF Carries, t
  <2> QED BY <1>1, <2>2, <2>3
<1>3. inputs'[t] = inputs[t]
  <2> HIDE DEF t
  <2> QED BY <1>0, <1>2, SpreadInputs DEF FlowInv
<1>4. Carries(t, i)
  <2>1. Flow!InStep(i)
    BY OutOfStep DEF Carries, Spread, FlowInv
  <2>2. \A k \in 1..Len(Line) : ~Asks(Line[k], t)
    <3>1. SUFFICES ASSUME NEW k \in 1..Len(Line), Asks(Line[k], t) PROVE FALSE
      OBVIOUS
    <3>2. k > d
      BY <1>1, <3>1
    <3> HIDE DEF t
    <3>3. \A m \in 1..Len(Line') : ~Asks(Line'[m], t)
      BY <1>0 DEF Carries, t
    <3> QED BY <1>1, <3>1, <3>2, <3>3
  <2>3. conns[i] \notin raw /\ NoNews(t)
    BY <1>0, <1>2 DEF Carries
  <2>4. value[t] # BadCode /\ inputs[t] # Null
    BY <1>0, <1>3 DEF Carries
  <2> QED BY <2>1, <2>2, <2>3, <2>4 DEF Carries
<1> DEFINE v == Flow!Output(value[t], inputs[t])
<1>5. Borne(t, i) /\ Flow!Output(value'[t], inputs'[t]) = v
  BY <1>0, <1>3, <1>4 DEF FlowInv, Conveyed
<1>6. Line \in Seq(Call \cup Change) /\ Line' \in Seq(Call \cup Change) /\ tasks \in Seq(Call \cup Change)
  BY LineTyped, GrownLine DEF FlowInv
<1>7. ASSUME NewestBears(Line, t, i, v) PROVE NewestBears(Line', t, i, v)
  <2>1. PICK k \in 1..Len(Line) :
          /\ Under(Line[k], t, i) /\ Loop(Line[k]).arg = v
          /\ Hindmost(Line, k, t, i)
    BY <1>7 DEF NewestBears
  <2>2. k > d
    BY <1>1, <2>1
  <2> HIDE DEF t, v
  <2>3. \A l \in 1..Len(tasks) : Under(tasks[l], t, i) => Loop(Line[k]).next < Loop(tasks[l]).next
    BY DEF t
  <2> QED BY <1>0, <1>6, <2>1, <2>2, <2>3, GrownBears
<1>8. ASSUME Written(x, v), \A k \in 1..Len(Line) : ~Under(Line[k], t, i)
      PROVE  Written(x, v)' /\ \A k \in 1..Len(Line') : ~Under(Line'[k], t, i)
  <2>1. Written(x, v)'
    <3>1. FlowTyped
      BY DEF FlowInv
    <3> HIDE DEF v, t
    <3>2. Written(x, v) /\ v = v'
      BY <1>3, <1>0, <1>8 DEF v, t
    <3>3. \A k \in 1..Len(tasks) : tasks[k].node = x => x \in Transform /\ tasks[k].arg = inputs[x]
      OBVIOUS
    <3> HIDE DEF x
    <3>4. x' = x /\ x \in Flow!Node
      BY <1>0 DEF x
    <3>5. PICK y \in Flow!Node : y = x
      BY <3>4
    <3>6. PICK w : w = v
      OBVIOUS
    <3>7. Written(y, w)
      BY ONLY <1>8, <3>5, <3>6
    <3>8. \A k \in 1..Len(tasks) : tasks[k].node = y => y \in Transform /\ tasks[k].arg = inputs[y]
      BY ONLY <3>3, <3>5
    <3>9. Written(y, w)'
      BY <3>1, <3>7, <3>8, WrittenStays
    <3>10. x' = y /\ v' = w
      BY ONLY <3>2, <3>4, <3>5, <3>6
    <3> QED BY ONLY <3>9, <3>10 DEF Written
  <2>2. \A k \in 1..Len(Line') : ~Under(Line'[k], t, i)
    BY <1>1, <1>8
  <2> QED BY <2>1, <2>2
<1> QED BY <1>0, <1>5, <1>7, <1>8 DEF Borne

----------------------------------------------------------------------------
LEMMA OnwardFrom ==
  ASSUME conns \in Seq(Wiring), NEW n, NEW v, NEW i \in Nat \ {0}
  PROVE  /\ Flow!Onward(n, v, i) \in SUBSET (1..Len(conns))
         /\ \A j \in 1..Len(conns) : j \in Flow!Onward(n, v, i) <=>
              j >= i /\ conns[j][1] = n /\ (conns[j][2] \in Color => Flow!Accepted(conns[j][2], v) # Null)
<1>1. Len(conns) \in Nat
  BY LenProperties
<1>2. \A j \in i..Len(conns) : j \in 1..Len(conns)
  BY <1>1
<1>3. \A j \in 1..Len(conns) : j \in i..Len(conns) <=> j >= i
  BY <1>1
<1> QED BY <1>2, <1>3 DEF Flow!Onward

\* The innermost loop that is not done goes on with its next connection.
LEMMA ResumedShape ==
  ASSUME conns \in Seq(Wiring), NEW loops \in Seq(Frame)
  PROVE  \/ /\ Flow!Resumed(loops) = <<>>
            /\ \A k \in 1..Len(loops) : Flow!Onward(loops[k].node, loops[k].arg, loops[k].next) = {}
         \/ \E k \in 1..Len(loops) : \E j \in Flow!Onward(loops[k].node, loops[k].arg, loops[k].next) :
              /\ \A l \in 1..Len(loops) : l > k => Flow!Onward(loops[l].node, loops[l].arg, loops[l].next) = {}
              /\ \A l \in Flow!Onward(loops[k].node, loops[k].arg, loops[k].next) : j <= l
              /\ Flow!Resumed(loops) =
                   <<Flow!Task(conns[j][2], loops[k].arg,
                               Append(SubSeq(loops, 1, k - 1), [loops[k] EXCEPT !.next = j + 1]))>>
<1> DEFINE Ahead(k) == Flow!Onward(loops[k].node, loops[k].arg, loops[k].next)
           open == {k \in DOMAIN loops : Ahead(k) # {}}
<1>1. DOMAIN loops = 1..Len(loops) /\ Len(loops) \in Nat
  BY LenProperties
<1>2. Flow!Resumed(loops) =
        IF open = {} THEN <<>>
        ELSE <<Flow!Task(conns[Flow!Min(Ahead(Flow!Max(open)))][2], loops[Flow!Max(open)].arg,
                         Append(SubSeq(loops, 1, Flow!Max(open) - 1),
                                [loops[Flow!Max(open)] EXCEPT !.next = Flow!Min(Ahead(Flow!Max(open))) + 1]))>>
  BY DEF Flow!Resumed
<1>3. CASE open = {}
  <2>1. \A k \in 1..Len(loops) : Ahead(k) = {}
    BY <1>1, <1>3
  <2> HIDE DEF Ahead
  <2>2. Flow!Resumed(loops) = <<>>
    BY <1>2, <1>3
  <2> QED BY <2>1, <2>2 DEF Ahead
<1>4. CASE open # {}
  <2> DEFINE k == Flow!Max(open)
  <2>1. open \in SUBSET (1..Len(loops))
    BY <1>1
  <2>2. k \in open /\ \A l \in open : k >= l
    <3> HIDE DEF open
    <3>1. \E e \in open : \A y \in open : y <= e
      BY <1>1, <1>4, <2>1, Greatest
    <3>2. \E e \in open : \A y \in open : e >= y
      <4>1. PICK e \in open : \A y \in open : y <= e
        BY <3>1
      <4>2. \A y \in open : y \in Nat /\ e \in Nat
        BY <2>1, <4>1
      <4> QED BY <4>1, <4>2
    <3> QED BY <3>2 DEF Flow!Max
  <2>3. k \in 1..Len(loops) /\ Ahead(k) # {}
    BY <2>1, <2>2
  <2> DEFINE j == Flow!Min(Ahead(k))
  <2>4. loops[k] \in Frame /\ loops[k].next \in Nat \ {0}
    <3> HIDE DEF k
    <3>1. loops[k] \in Frame
      BY <2>3, ElementOfSeq
    <3> QED BY <3>1 DEF Frame
  <2>5. j \in Ahead(k) /\ \A l \in Ahead(k) : j <= l
    <3> HIDE DEF k
    <3>1. Ahead(k) \in SUBSET Nat
      <4>1. Ahead(k) \in SUBSET (1..Len(conns))
        BY <2>4, OnwardFrom
      <4>2. 1..Len(conns) \subseteq Nat
        OBVIOUS
      <4> HIDE DEF Ahead
      <4> QED BY <4>1, <4>2
    <3> HIDE DEF Ahead
    <3>2. \E e \in Ahead(k) : \A y \in Ahead(k) : e <= y
      BY <2>3, <3>1, Least
    <3> QED BY <3>2 DEF Flow!Min
  <2>6. ASSUME NEW l \in 1..Len(loops), l > k PROVE Ahead(l) = {}
    <3> HIDE DEF k, Ahead
    <3>1. l \notin open
      BY <1>1, <2>2, <2>3, <2>6
    <3> QED BY <1>1, <3>1
  <2>7. Flow!Resumed(loops) =
          <<Flow!Task(conns[j][2], loops[k].arg, Append(SubSeq(loops, 1, k - 1), [loops[k] EXCEPT !.next = j + 1]))>>
    <3> HIDE DEF Ahead, open
    <3> QED BY <1>2, <1>4
  <2> HIDE DEF j, k, open
  <2> QED BY <2>3, <2>5, <2>6, <2>7
<1> QED BY <1>3, <1>4

\* The loops of a call that goes on: a transform that was evaluated adds its own.
Loops(m) ==
  IF m.kind = "get" /\ m.code # BadCode
  THEN Append(m.rest, [node |-> m.node, arg |-> Flow!Output(m.code, m.arg), next |-> 1])
  ELSE m.rest

LEMMA LoopsFrom ==
  ASSUME FlowTyped, NEW m \in Call, Placed(m, conns, inputs), m.kind = "get" => m.code # Null
  PROVE  /\ Loops(m) \in Seq(Frame) /\ Len(m.rest) \in Nat
         /\ Len(Loops(m)) = IF m.kind = "get" /\ m.code # BadCode THEN Len(m.rest) + 1 ELSE Len(m.rest)
         /\ \A k \in 1..Len(m.rest) : Loops(m)[k] = m.rest[k]
         /\ m.kind = "get" /\ m.code # BadCode =>
              Loops(m)[Len(m.rest) + 1] = [node |-> m.node, arg |-> Flow!Output(m.code, m.arg), next |-> 1]
         /\ \A k \in 1..Len(Loops(m)) - 1 :
              /\ Loops(m)[k].next - 1 \in 1..Len(conns)
              /\ conns[Loops(m)[k].next - 1] = <<Loops(m)[k].node, Loops(m)[k + 1].node>>
<1>1. m.rest \in Seq(Frame) /\ Len(m.rest) \in Nat /\ m.kind # "changed"
  BY CallFields
<1>2. \A k \in 1..Len(m.rest) :
        /\ m.rest[k].next - 1 \in 1..Len(conns)
        /\ conns[m.rest[k].next - 1] = <<m.rest[k].node, IF k = Len(m.rest) THEN m.node ELSE m.rest[k + 1].node>>
  BY <1>1 DEF Placed, Chained
<1>3. CASE m.kind = "get" /\ m.code # BadCode
  <2> DEFINE f == [node |-> m.node, arg |-> Flow!Output(m.code, m.arg), next |-> 1]
  <2>1. f \in Frame
    <3>1. m.node \in Transform /\ m.code \in Flow!Terms /\ m.arg \in Flow!Terms
      BY <1>1, <1>3, CallFields DEF Placed
    <3>2. Flow!Output(m.code, m.arg) \in Flow!Terms
      BY <3>1, TermsOut
    <3> QED BY <3>1, <3>2 DEF Frame
  <2>2. f.node = m.node /\ Loops(m) = Append(m.rest, f)
    BY <1>3 DEF Loops
  <2> HIDE DEF f
  <2>3. /\ Loops(m) \in Seq(Frame) /\ Len(Loops(m)) = Len(m.rest) + 1
        /\ \A k \in 1..Len(m.rest) : Loops(m)[k] = m.rest[k]
        /\ Loops(m)[Len(m.rest) + 1] = f
    BY <1>1, <2>1, <2>2
  <2>4. ASSUME NEW k \in 1..Len(Loops(m)) - 1
        PROVE  Loops(m)[k + 1].node = IF k = Len(m.rest) THEN m.node ELSE m.rest[k + 1].node
    <3>1. CASE k = Len(m.rest)
      BY <2>2, <2>3, <3>1
    <3>2. CASE k # Len(m.rest)
      <4>1. k + 1 \in 1..Len(m.rest)
        BY <1>1, <2>3, <3>2
      <4> QED BY <2>3, <3>2, <4>1
    <3> QED BY <3>1, <3>2
  <2>5. ASSUME NEW k \in 1..Len(Loops(m)) - 1
        PROVE  /\ Loops(m)[k].next - 1 \in 1..Len(conns)
               /\ conns[Loops(m)[k].next - 1] = <<Loops(m)[k].node, Loops(m)[k + 1].node>>
    <3>1. k \in 1..Len(m.rest)
      BY <1>1, <2>3
    <3>2. Loops(m)[k] = m.rest[k]
      BY <2>3, <3>1
    <3> QED BY <1>2, <2>4, <3>1, <3>2
  <2> QED BY <1>1, <1>3, <2>3, <2>5 DEF f
<1>4. CASE ~(m.kind = "get" /\ m.code # BadCode)
  <2>1. Loops(m) = m.rest
    BY <1>4 DEF Loops
  <2>2. ASSUME NEW k \in 1..Len(m.rest) - 1
        PROVE  /\ m.rest[k].next - 1 \in 1..Len(conns)
               /\ conns[m.rest[k].next - 1] = <<m.rest[k].node, m.rest[k + 1].node>>
    <3>1. k \in 1..Len(m.rest) /\ k # Len(m.rest)
      BY <1>1
    <3> QED BY <1>2, <3>1
  <2> QED BY <1>1, <1>4, <2>1, <2>2
<1> QED BY <1>3, <1>4

----------------------------------------------------------------------------
LEMMA LineTail ==
  ASSUME FlowTyped, mail # <<>>, mail' = Tail(mail), NEW tasks \in Seq(Call), requests' = requests \o tasks
  PROVE  /\ Grows(Line, Line', 1, tasks) /\ 1 \in 1..Len(Line) /\ 1 \in 1..Len(mail)
         /\ Line[1] = Head(mail) /\ Line[1] = mail[1]
         /\ mail' \in Seq(Call \cup Change) /\ \A k \in 1..Len(mail') : mail'[k] = mail[k + 1] /\ k + 1 \in 1..Len(mail)
<1>1. mail \in Seq(Call \cup Change) /\ requests \in Seq(Call) /\ tasks \in Seq(Call)
  BY DEF FlowTyped
<1>2. /\ mail' \in Seq(Call \cup Change) /\ Len(mail') = Len(mail) - 1
      /\ \A k \in 1..Len(mail') : mail'[k] = mail[k + 1]
      /\ Len(mail) \in Nat \ {0} /\ Len(requests) \in Nat /\ Len(tasks) \in Nat
  BY <1>1, HeadTailProperties, EmptySeq
<1>3. requests \in Seq(Call \cup Change) /\ tasks \in Seq(Call \cup Change) /\ requests' \in Seq(Call \cup Change)
  <2>1. requests \in Seq(Call \cup Change) /\ tasks \in Seq(Call \cup Change)
    BY <1>1, SeqMonotonic
  <2> QED BY <2>1, ConcatProperties
<1>4. /\ Len(requests') = Len(requests) + Len(tasks)
      /\ \A k \in 1..Len(requests) + Len(tasks) :
           requests'[k] = IF k <= Len(requests) THEN requests[k] ELSE tasks[k - Len(requests)]
  BY <1>1, ConcatProperties
<1>5. /\ Len(Line') = Len(mail') + Len(requests')
      /\ \A k \in 1..Len(mail') + Len(requests') :
           Line'[k] = IF k <= Len(mail') THEN mail'[k] ELSE requests'[k - Len(mail')]
  BY <1>2, <1>3, ConcatProperties DEF Line
<1>6. /\ Len(Line) = Len(mail) + Len(requests)
      /\ \A k \in 1..Len(mail) + Len(requests) : Line[k] = IF k <= Len(mail) THEN mail[k] ELSE requests[k - Len(mail)]
  BY <1>1, <1>3, ConcatProperties DEF Line
<1>7. Line[1] = mail[1] /\ mail[1] = Head(mail)
  BY <1>1, <1>2, <1>6
<1>8. ASSUME NEW k \in 1..Len(Line) - 1 PROVE Line'[k] = Line[k + 1]
  <2>1. CASE k <= Len(mail) - 1
    <3>1. /\ k \in 1..Len(mail') /\ k \in 1..Len(mail') + Len(requests') /\ k <= Len(mail')
          /\ k + 1 \in 1..Len(mail) + Len(requests) /\ k + 1 <= Len(mail)
      BY <1>2, <1>4, <2>1
    <3>2. Line'[k] = mail'[k] /\ Line[k + 1] = mail[k + 1]
      BY <1>5, <1>6, <3>1
    <3> QED BY <1>2, <3>1, <3>2
  <2>2. CASE k > Len(mail) - 1
    <3>1. k - Len(mail') \in 1..Len(requests) /\ k + 1 - Len(mail) = k - Len(mail') /\ ~(k <= Len(mail')) /\ ~(k + 1 <= Len(mail))
      BY <1>2, <1>6, <2>2
    <3>2. Line'[k] = requests'[k - Len(mail')]
      BY <1>2, <1>4, <1>5, <1>6, <3>1
    <3>3. requests'[k - Len(mail')] = requests[k - Len(mail')]
      BY <1>2, <1>4, <3>1
    <3> QED BY <1>2, <1>6, <3>1, <3>2, <3>3
  <2> QED BY <1>2, <2>1, <2>2
<1>9. ASSUME NEW k \in 1..Len(tasks) PROVE Line'[Len(Line) - 1 + k] = tasks[k]
  <2> DEFINE p == Len(Line) - 1 + k
             q == Len(requests) + k
  <2>1. /\ p \in 1..Len(mail') + Len(requests') /\ ~(p <= Len(mail')) /\ p - Len(mail') = q
        /\ q \in 1..Len(requests) + Len(tasks) /\ ~(q <= Len(requests)) /\ q - Len(requests) = k
    BY <1>2, <1>4, <1>6
  <2> HIDE DEF p, q
  <2>2. Line'[p] = requests'[q]
    BY <1>5, <2>1
  <2>3. requests'[q] = tasks[k]
    BY <1>4, <2>1
  <2> QED BY <2>2, <2>3 DEF p
<1> QED BY <1>2, <1>4, <1>5, <1>6, <1>7, <1>8, <1>9 DEF Grows

LEMMA LineStands ==
  ASSUME FlowTyped, mail' = mail, NEW tasks \in Seq(Call), requests' = requests \o tasks
  PROVE  Grows(Line, Line', 0, tasks)
<1>1. mail \in Seq(Call \cup Change) /\ requests \in Seq(Call \cup Change) /\ tasks \in Seq(Call \cup Change)
  BY SeqMonotonic DEF FlowTyped
<1>2. Line \in Seq(Call \cup Change) /\ Line' = Line \o tasks
  BY <1>1, ConcatProperties, ConcatAssociative DEF Line
<1>3. /\ Len(Line') = Len(Line) + Len(tasks) /\ Len(Line) \in Nat /\ Len(tasks) \in Nat
      /\ \A k \in 1..Len(Line) + Len(tasks) : Line'[k] = IF k <= Len(Line) THEN Line[k] ELSE tasks[k - Len(Line)]
  BY <1>1, <1>2, ConcatProperties
<1>4. \A k \in 1..Len(tasks) : Len(Line) - 0 + k \in 1..Len(Line) + Len(tasks) /\ ~(Len(Line) - 0 + k <= Len(Line))
                              /\ Len(Line) - 0 + k - Len(Line) = k
  BY <1>3
<1> QED BY <1>3, <1>4 DEF Grows

\* A task that was sent down a connection.
LEMMA TaskTyped ==
  ASSUME NEW n \in Flow!Node, NEW v \in Flow!Terms, NEW rest \in Seq(Frame), n \in Color => Flow!Accepted(n, v) # Null
  PROVE  /\ Flow!Task(n, v, rest) \in Call /\ Flow!Task(n, v, rest).code = Null
         /\ Flow!Task(n, v, rest).node = n /\ Flow!Task(n, v, rest).rest = rest
         /\ Flow!Task(n, v, rest).kind = "get" <=> n \in Transform
         /\ n \in Transform => Flow!Task(n, v, rest).arg = v
<1>1. CASE n \in Transform
  BY <1>1 DEF Flow!Task, Call
<1>2. CASE n \notin Transform
  <2>1. Flow!Accepted(n, v) \in Flow!Terms
    BY TermsAccepted
  <2> QED BY <1>2, <2>1 DEF Flow!Task, Call
<1> QED BY <1>1, <1>2

LEMMA SpreadTyped ==
  ASSUME FlowTyped, NEW d, NEW tasks, Spread(d, tasks), mail' = mail \/ (mail # <<>> /\ mail' = Tail(mail)),
         known' \in [Flow!Node -> Flow!Terms \cup {Null}],
         \A i, j \in 1..Len(conns') : conns'[i] = conns'[j] => i = j
  PROVE  FlowTyped' /\ mail' \in Seq(Call \cup Change)
<1>1. /\ mail' \in Seq(Call \cup Change)
      /\ \A k \in 1..Len(mail') : mail'[k].kind = "get" => mail'[k].code # Null
  <2>1. CASE mail' = mail
    BY <2>1 DEF FlowTyped
  <2>2. CASE mail # <<>> /\ mail' = Tail(mail)
    <3>1. mail' \in Seq(Call \cup Change) /\ \A k \in 1..Len(mail') : mail'[k] = mail[k + 1] /\ k + 1 \in 1..Len(mail)
      BY <2>2, LineTail DEF Spread
    <3> QED BY <3>1 DEF FlowTyped
  <2> QED BY <2>1, <2>2
<1>2. requests' \in Seq(Call) /\ \A k \in 1..Len(requests') : requests'[k].code = Null
  BY <1>1, GrownLine
<1>3. inputs' \in [Transform -> Flow!Terms \cup {Null}]
  BY SpreadInputs
<1> QED BY <1>1, <1>2, <1>3 DEF FlowTyped, Spread

----------------------------------------------------------------------------
Ahead(f) == Flow!Onward(f.node, f.arg, f.next)

\* The k-th loop goes on with the j-th connection, by this task.
Sent(loops, tasks, k, j) ==
  /\ k \in 1..Len(loops) /\ j \in 1..Len(conns) /\ j \in Ahead(loops[k])
  /\ \A l \in 1..Len(loops) : l > k => Ahead(loops[l]) = {}
  /\ \A l \in Ahead(loops[k]) : j <= l
  /\ Len(tasks) = 1 /\ tasks[1].node = conns[j][2] /\ tasks[1].rest # <<>>
  /\ Loop(tasks[1]) = [loops[k] EXCEPT !.next = j + 1]
  /\ \E rest : tasks[1] = Flow!Task(conns[j][2], loops[k].arg, rest)

LEMMA NoTasks == Len(<<>>) = 0 /\ <<>> \in Seq(Call)
OBVIOUS

LEMMA ResumedTyped ==
  ASSUME FlowTyped, NEW m \in Call, Placed(m, conns, inputs), m.kind = "get" => m.code # Null,
         NEW tasks, tasks = Flow!Resumed(Loops(m))
  PROVE  /\ tasks \in Seq(Call) /\ \A k \in 1..Len(tasks) : tasks[k].code = Null
         /\ Len(tasks) = 0 \/ Len(tasks) = 1
         /\ \A k \in 1..Len(tasks) : Placed(tasks[k], conns, Flow!Noted(tasks))
         /\ \/ tasks = <<>> /\ \A k \in 1..Len(Loops(m)) : Ahead(Loops(m)[k]) = {}
            \/ \E k, j : Sent(Loops(m), tasks, k, j)
<1> DEFINE loops == Loops(m)
<1>1. /\ loops \in Seq(Frame) /\ Len(loops) \in Nat
      /\ \A k \in 1..Len(loops) - 1 :
           /\ loops[k].next - 1 \in 1..Len(conns)
           /\ conns[loops[k].next - 1] = <<loops[k].node, loops[k + 1].node>>
  BY LoopsFrom, LenProperties
<1>2. conns \in Seq(Wiring) /\ tasks = Flow!Resumed(loops)
  BY DEF FlowTyped
<1> HIDE DEF loops
<1>3. CASE tasks = <<>> /\ \A k \in 1..Len(loops) : Ahead(loops[k]) = {}
  BY <1>3, NoTasks DEF loops
<1>4. ASSUME NEW k \in 1..Len(loops), NEW j \in Ahead(loops[k]),
             \A l \in 1..Len(loops) : l > k => Ahead(loops[l]) = {}, \A l \in Ahead(loops[k]) : j <= l,
             tasks = <<Flow!Task(conns[j][2], loops[k].arg,
                                 Append(SubSeq(loops, 1, k - 1), [loops[k] EXCEPT !.next = j + 1]))>>
      PROVE  /\ tasks \in Seq(Call) /\ tasks[1].code = Null /\ Len(tasks) = 1
             /\ Placed(tasks[1], conns, Flow!Noted(tasks)) /\ Sent(loops, tasks, k, j)
  <2> DEFINE f == [loops[k] EXCEPT !.next = j + 1]
             rest == Append(SubSeq(loops, 1, k - 1), f)
             x == conns[j][2]
             v == loops[k].arg
  <2>1. /\ loops[k] \in Frame /\ loops[k].next \in Nat \ {0}
        /\ \A l \in 1..Len(loops) : loops[l] \in Frame
    <3>1. \A l \in 1..Len(loops) : loops[l] \in Frame
      BY <1>1, ElementOfSeq
    <3> QED BY <3>1 DEF Frame
  <2>2. /\ j \in 1..Len(conns) /\ conns[j][1] = loops[k].node /\ j + 1 \in Nat \ {0} /\ j + 1 - 1 = j
        /\ x \in Color => Flow!Accepted(x, v) # Null
    <3>1. Ahead(loops[k]) \in SUBSET (1..Len(conns))
      BY <1>2, <2>1, OnwardFrom DEF Ahead
    <3>2. j \in 1..Len(conns) /\ j + 1 \in Nat \ {0} /\ j + 1 - 1 = j
      BY <1>2, <3>1
    <3> QED BY <1>2, <2>1, <3>2, OnwardFrom DEF Ahead
  <2>3. /\ x \in Flow!Node /\ v \in Flow!Terms /\ conns[j] = <<loops[k].node, x>>
    <3>1. conns[j] = <<conns[j][1], conns[j][2]>> /\ x \in Flow!Node
      BY <1>2, <2>2, Connection
    <3> QED BY <2>1, <2>2, <3>1 DEF Frame
  <2>4. f \in Frame /\ f.node = loops[k].node /\ f.arg = v /\ f.next = j + 1
    BY <2>1, <2>2 DEF Frame
  <2>5. /\ rest \in Seq(Frame) /\ Len(rest) = k /\ rest[k] = f /\ \A l \in 1..k - 1 : rest[l] = loops[l]
    <3> HIDE DEF f
    <3>1. /\ SubSeq(loops, 1, k - 1) \in Seq(Frame) /\ Len(SubSeq(loops, 1, k - 1)) = k - 1
          /\ \A l \in 1..k - 1 : SubSeq(loops, 1, k - 1)[l] = loops[l]
      <4>1. k - 1 \in Int /\ \A l \in 1..k - 1 : l \in 1..Len(loops)
        BY <1>1
      <4>2. /\ SubSeq(loops, 1, k - 1) \in Seq(Frame)
            /\ Len(SubSeq(loops, 1, k - 1)) = IF 1 <= k - 1 THEN k - 1 - 1 + 1 ELSE 0
            /\ \A l \in 1..k - 1 - 1 + 1 : SubSeq(loops, 1, k - 1)[l] = loops[1 + l - 1]
        BY <2>1, <4>1, SubSeqProperties
      <4>3. \A l \in 1..k - 1 : l \in 1..k - 1 - 1 + 1 /\ 1 + l - 1 = l
        BY <1>1
      <4> QED BY <1>1, <4>2, <4>3
    <3> DEFINE s == SubSeq(loops, 1, k - 1)
    <3> HIDE DEF s
    <3>2. s \in Seq(Frame) /\ Len(s) = k - 1 /\ \A l \in 1..k - 1 : s[l] = loops[l]
      BY <3>1 DEF s
    <3>3. /\ Append(s, f) \in Seq(Frame) /\ Len(Append(s, f)) = k /\ Append(s, f)[k] = f
          /\ \A l \in 1..k - 1 : Append(s, f)[l] = s[l]
      BY <1>1, <2>4, <3>2
    <3> QED BY <3>2, <3>3 DEF s
  <2> HIDE DEF rest
  <2>6. /\ Flow!Task(x, v, rest) \in Call /\ Flow!Task(x, v, rest).code = Null
        /\ Flow!Task(x, v, rest).node = x /\ Flow!Task(x, v, rest).rest = rest
        /\ Flow!Task(x, v, rest).kind = "get" <=> x \in Transform
        /\ x \in Transform => Flow!Task(x, v, rest).arg = v
    <3> HIDE DEF x, v
    <3>1. x \in Color => Flow!Accepted(x, v) # Null
      BY <2>2 DEF x, v
    <3> QED BY <2>3, <2>5, <3>1, TaskTyped
  <2>7. tasks = <<Flow!Task(x, v, rest)>>
    BY <1>4 DEF rest
  <2>8. Len(tasks) = 1 /\ tasks[1] = Flow!Task(x, v, rest) /\ tasks \in Seq(Call)
    <3> HIDE DEF x, v, f
    <3> QED BY <2>6, <2>7, OneLong
  <2> HIDE DEF x, v, f
  <2>9. Placed(tasks[1], conns, Flow!Noted(tasks))
    <3>1. tasks[1].kind = "get" => Flow!Noted(tasks)[tasks[1].node] # Null
      <4>1. \A a, b \in 1..Len(tasks) : tasks[a].node = tasks[b].node => a = b
        BY <2>8
      <4>2. 1 \in 1..Len(tasks)
        BY <2>8
      <4>3. tasks[1].node \in Transform => Flow!Noted(tasks)[tasks[1].node] = tasks[1].arg
        BY <2>8, <4>1, <4>2, NotedInputs
      <4> QED BY <2>3, <2>6, <2>8, <4>3, Forest
    <3>2. \E i \in 1..Len(conns) : tasks[1].node \in {conns[i][1], conns[i][2]}
      BY <2>2, <2>6, <2>8 DEF x
    <3>3. ASSUME NEW l \in 1..Len(rest)
          PROVE  /\ rest[l].next - 1 \in 1..Len(conns)
                 /\ conns[rest[l].next - 1] = <<rest[l].node, IF l = Len(rest) THEN x ELSE rest[l + 1].node>>
      <4>1. CASE l = k
        BY <2>2, <2>3, <2>4, <2>5, <4>1
      <4>2. CASE l # k
        <5>1. l \in 1..k - 1 /\ l \in 1..Len(loops) - 1 /\ l # Len(rest) /\ rest[l] = loops[l]
          BY <1>1, <2>5, <4>2
        <5>2. rest[l + 1].node = loops[l + 1].node
          <6>1. CASE l + 1 = k
            BY <2>4, <2>5, <6>1
          <6>2. CASE l + 1 # k
            <7>1. l + 1 \in 1..k - 1
              BY <5>1, <6>2
            <7> QED BY <2>5, <7>1
          <6> QED BY <6>1, <6>2
        <5> QED BY <1>1, <5>1, <5>2
      <4> QED BY <4>1, <4>2
    <3>4. Chained(tasks[1], conns)
      BY <2>6, <2>8, <3>3 DEF Chained
    <3> QED BY <2>6, <2>8, <3>1, <3>2, <3>4 DEF Placed
  <2>10. Sent(loops, tasks, k, j)
    <3>1. tasks[1].node = conns[j][2] /\ \E r : tasks[1] = Flow!Task(conns[j][2], loops[k].arg, r)
      BY <2>6, <2>8 DEF x, v
    <3>2. tasks[1].rest # <<>> /\ Loop(tasks[1]) = f
      <4>1. tasks[1].rest = rest
        BY <2>6, <2>8
      <4>2. rest # <<>>
        BY <2>5, NoTasks
      <4> QED BY <2>5, <4>1, <4>2 DEF Loop
    <3> QED BY <1>4, <2>2, <2>8, <3>1, <3>2 DEF Sent, f
  <2> QED BY <2>6, <2>8, <2>9, <2>10
<1>5. \/ tasks = <<>> /\ \A k \in 1..Len(loops) : Ahead(loops[k]) = {}
      \/ \E k \in 1..Len(loops) : \E j \in Ahead(loops[k]) :
           /\ \A l \in 1..Len(loops) : l > k => Ahead(loops[l]) = {}
           /\ \A l \in Ahead(loops[k]) : j <= l
           /\ tasks = <<Flow!Task(conns[j][2], loops[k].arg,
                                  Append(SubSeq(loops, 1, k - 1), [loops[k] EXCEPT !.next = j + 1]))>>
  BY <1>1, <1>2, ResumedShape DEF Ahead
<1>6. ASSUME NEW k \in 1..Len(loops), NEW j \in Ahead(loops[k]),
             \A l \in 1..Len(loops) : l > k => Ahead(loops[l]) = {}, \A l \in Ahead(loops[k]) : j <= l,
             tasks = <<Flow!Task(conns[j][2], loops[k].arg,
                                 Append(SubSeq(loops, 1, k - 1), [loops[k] EXCEPT !.next = j + 1]))>>
      PROVE  /\ tasks \in Seq(Call) /\ \A n \in 1..Len(tasks) : tasks[n].code = Null
             /\ Len(tasks) = 0 \/ Len(tasks) = 1
             /\ \A n \in 1..Len(tasks) : Placed(tasks[n], conns, Flow!Noted(tasks))
             /\ \/ tasks = <<>> /\ \A n \in 1..Len(loops) : Ahead(loops[n]) = {}
                \/ \E n, i : Sent(loops, tasks, n, i)
  <2>1. /\ tasks \in Seq(Call) /\ tasks[1].code = Null /\ Len(tasks) = 1
        /\ Placed(tasks[1], conns, Flow!Noted(tasks)) /\ Sent(loops, tasks, k, j)
    BY <1>4, <1>6
  <2>2. \E n, i : Sent(loops, tasks, n, i)
    BY <2>1
  <2>3. \A n \in 1..Len(tasks) : n = 1
    BY <2>1
  <2> QED BY <2>1, <2>2, <2>3
<1> QED BY <1>3, <1>5, <1>6 DEF loops

----------------------------------------------------------------------------
LEMMA Resumes ==
  ASSUME FlowInv, Flow!ResumeCall, NEW tasks, tasks = Flow!Resumed(Loops(Line[1]))
  PROVE  /\ Line[1] \in Call /\ Placed(Line[1], conns, inputs) /\ 1 \in 1..Len(Line)
         /\ Line[1].kind = "get" => Line[1].code # Null
         /\ Spread(1, tasks) /\ Len(tasks) \in {0, 1}
         /\ mail # <<>> /\ mail' = Tail(mail) /\ mail' \in Seq(Call \cup Change) /\ known' = known /\ conns' = conns
         /\ raw' = IF Line[1].kind = "get" /\ Line[1].code # BadCode THEN {c \in raw : c[1] # Line[1].node} ELSE raw
         /\ \/ tasks = <<>> /\ \A k \in 1..Len(Loops(Line[1])) : Ahead(Loops(Line[1])[k]) = {}
            \/ \E k, j : Sent(Loops(Line[1]), tasks, k, j)
         /\ \A t \in Transform : NoNews(t)' => NoNews(t)
<1> USE DEF FlowInv
<1> DEFINE m == Head(mail)
<1>1. /\ mail # <<>> /\ m.kind \in {"get", "set"} /\ mail' = Tail(mail)
      /\ requests' = requests \o Flow!Resumed(Loops(m)) /\ inputs' = Flow!Noted(Flow!Resumed(Loops(m)))
      /\ raw' = IF m.kind = "get" /\ m.code # BadCode THEN {c \in raw : c[1] # m.node} ELSE raw
      /\ value' = value /\ known' = known /\ conns' = conns
  BY DEF Flow!ResumeCall, Flow!Propagate, Loops
<1> HIDE DEF m
<1>2. m = Line[1] /\ Line[1] = mail[1] /\ 1 \in 1..Len(mail) /\ 1 \in 1..Len(Line)
  <2>1. mail \in Seq(Call \cup Change) /\ Len(mail) \in Nat \ {0} /\ mail[1] = Head(mail)
    BY <1>1, EmptySeq DEF FlowTyped
  <2>2. 1 \in 1..Len(mail) /\ Len(Line) = Len(mail) + Len(requests) /\ Len(requests) \in Nat
    BY <2>1, LineTyped
  <2> QED BY <2>1, <2>2, LineTyped DEF m
<1>3. m \in Call /\ Placed(m, conns, inputs) /\ (m.kind = "get" => m.code # Null)
  <2>1. m \in Call
    BY <1>1, <1>2, LineTyped, CallFields
  <2> QED BY <1>2, <2>1 DEF LinePlaced, FlowTyped
<1>4. tasks = Flow!Resumed(Loops(m))
  BY <1>2
<1>5. /\ tasks \in Seq(Call) /\ \A k \in 1..Len(tasks) : tasks[k].code = Null
      /\ Len(tasks) = 0 \/ Len(tasks) = 1
      /\ \A k \in 1..Len(tasks) : Placed(tasks[k], conns, Flow!Noted(tasks))
      /\ \/ tasks = <<>> /\ \A k \in 1..Len(Loops(m)) : Ahead(Loops(m)[k]) = {}
         \/ \E k, j : Sent(Loops(m), tasks, k, j)
  BY <1>3, <1>4, ResumedTyped
<1>6. Grows(Line, Line', 1, tasks) /\ mail' \in Seq(Call \cup Change)
  BY <1>1, <1>4, <1>5, LineTail
<1>7. Spread(1, tasks)
  <2>1. \A k, l \in 1..Len(tasks) : tasks[k].node = tasks[l].node => k = l
    BY <1>5
  <2>2. conns' \in Seq(Wiring) /\ Len(conns) <= Len(conns') /\ \A k \in 1..Len(conns) : conns'[k] = conns[k]
    BY <1>1 DEF FlowTyped
  <2>3. \A k \in 1..Len(tasks) : Placed(tasks[k], conns', inputs')
    BY <1>1, <1>4, <1>5
  <2> QED BY <1>1, <1>4, <1>5, <1>6, <2>1, <2>2, <2>3 DEF Spread
<1>8. ASSUME NEW t \in Transform, NoNews(t)' PROVE NoNews(t)
  <2>1. SUFFICES ASSUME NEW k \in 1..Len(Line), Line[k].kind = "changed", Line[k].node = t PROVE FALSE
    BY DEF NoNews
  <2>2. k > 1
    <3>1. k # 1
      BY <1>1, <1>2, <2>1
    <3> QED BY <3>1
  <2>3. \E l \in 1..Len(Line') : Line'[l] = Line[k]
    <3>1. Gained(1, tasks)
      BY <1>6, <1>7, LineGrows
    <3> QED BY <2>2, <3>1 DEF Gained
  <2> QED BY <1>8, <2>1, <2>3 DEF NoNews
<1> QED BY <1>1, <1>2, <1>3, <1>5, <1>6, <1>7, <1>8

\* Below an earlier connection in step no loop waits for a transform with connections.
LEMMA NoneBelow ==
  ASSUME FlowTyped, NEW i \in 1..Len(conns), Flow!InStep(i), NEW f \in Frame, f.node = conns[i][1],
         NEW y \in Transform, f.next - 1 \in 1..Len(conns), conns[f.next - 1] = <<f.node, y>>,
         NEW e \in 1..Len(conns), conns[e][1] = y
  PROVE  f.next > i
<1>1. f.next \in Nat /\ i \in Nat /\ conns[f.next - 1][1] = f.node /\ conns[f.next - 1][2] = y
  BY DEF Frame
<1>2. SUFFICES ASSUME f.next <= i PROVE FALSE
  BY <1>1
<1>3. f.next - 1 \in 1..i - 1
  BY <1>1, <1>2
<1>4. Flow!Brief(y)
  BY <1>1, <1>3 DEF Flow!InStep
<1> QED BY <1>4, BriefNode, Forest

LEMMA OuterLoops ==
  ASSUME FlowTyped, NEW m \in Call, Placed(m, conns, inputs), NEW i \in 1..Len(conns), Flow!InStep(i),
         NEW k \in 1..Len(m.rest), m.rest[k].node = conns[i][1],
         k < Len(m.rest) \/ (m.kind = "get" /\ m.node = conns[i][1])
  PROVE  m.rest[k].next > i
<1>1. m.rest \in Seq(Frame) /\ Len(m.rest) \in Nat /\ m.kind # "changed" /\ \A n \in 1..Len(m.rest) : m.rest[n] \in Frame
  BY CallFields, ElementOfSeq
<1>2. \A n \in 1..Len(m.rest) :
        /\ m.rest[n].next - 1 \in 1..Len(conns)
        /\ conns[m.rest[n].next - 1] = <<m.rest[n].node, IF n = Len(m.rest) THEN m.node ELSE m.rest[n + 1].node>>
  BY <1>1 DEF Placed, Chained
<1>3. CASE k < Len(m.rest)
  <2>1. k + 1 \in 1..Len(m.rest) /\ k # Len(m.rest)
    BY <1>1, <1>3
  <2>2. m.rest[k + 1].node \in Transform
    BY <1>1, <2>1 DEF Frame
  <2>3. conns[m.rest[k + 1].next - 1][1] = m.rest[k + 1].node /\ m.rest[k + 1].next - 1 \in 1..Len(conns)
    BY <1>2, <2>1
  <2>4. conns[m.rest[k].next - 1] = <<m.rest[k].node, m.rest[k + 1].node>>
    BY <1>2, <2>1
  <2> QED BY <1>1, <1>2, <2>2, <2>3, <2>4, NoneBelow
<1>4. CASE k = Len(m.rest) /\ m.kind = "get" /\ m.node = conns[i][1]
  <2>1. m.node \in Transform
    BY <1>1, <1>4 DEF Placed
  <2>2. conns[m.rest[k].next - 1] = <<m.rest[k].node, m.node>>
    BY <1>2, <1>4
  <2> QED BY <1>1, <1>2, <1>4, <2>1, <2>2, NoneBelow
<1> QED BY <1>1, <1>3, <1>4

LEMMA SentFrom ==
  ASSUME FlowTyped, NEW loops \in Seq(Frame), NEW tasks, NEW k, NEW j, Sent(loops, tasks, k, j)
  PROVE  /\ k \in 1..Len(loops) /\ loops[k] \in Frame /\ loops[k].next \in Nat \ {0} /\ loops[k].node \in Transform
         /\ j \in 1..Len(conns) /\ j >= loops[k].next /\ conns[j][1] = loops[k].node
         /\ Loop(tasks[1]).node = loops[k].node /\ Loop(tasks[1]).arg = loops[k].arg /\ Loop(tasks[1]).next = j + 1
<1>1. k \in 1..Len(loops) /\ loops[k] \in Frame /\ loops[k].next \in Nat \ {0} /\ loops[k].node \in Transform
  <2>1. k \in 1..Len(loops)
    BY DEF Sent
  <2>2. loops[k] \in Frame
    BY <2>1, ElementOfSeq
  <2> QED BY <2>1, <2>2 DEF Frame
<1>2. j \in 1..Len(conns) /\ j >= loops[k].next /\ conns[j][1] = loops[k].node
  BY <1>1, OnwardFrom DEF Sent, Ahead, FlowTyped
<1>3. Loop(tasks[1]) = [loops[k] EXCEPT !.next = j + 1]
  BY DEF Sent
<1>4. /\ [loops[k] EXCEPT !.next = j + 1].node = loops[k].node /\ [loops[k] EXCEPT !.next = j + 1].arg = loops[k].arg
      /\ [loops[k] EXCEPT !.next = j + 1].next = j + 1
  BY <1>1 DEF Frame
<1> QED BY <1>1, <1>2, <1>3, <1>4

\* A loop that does not go on with the i-th connection sends nothing that concerns it.
LEMMA SentElsewhere ==
  ASSUME FlowTyped, NEW loops \in Seq(Frame), NEW tasks, NEW k, NEW j, Sent(loops, tasks, k, j),
         NEW i \in 1..Len(conns), loops[k].node = conns[i][1] => loops[k].next > i
  PROVE  tasks[1].node # conns[i][2] /\ ~Under(tasks[1], conns[i][1], i)
<1>1. /\ k \in 1..Len(loops) /\ loops[k] \in Frame /\ loops[k].next \in Nat \ {0}
      /\ j \in 1..Len(conns) /\ j >= loops[k].next /\ conns[j][1] = loops[k].node
      /\ Loop(tasks[1]).node = loops[k].node /\ Loop(tasks[1]).next = j + 1
  BY SentFrom
<1>2. ASSUME tasks[1].node = conns[i][2] PROVE FALSE
  <2>1. conns[j][2] = conns[i][2]
    BY <1>2 DEF Sent
  <2>2. conns[i] \in Wiring /\ conns[j] \in Wiring
    BY <1>1, Connection DEF FlowTyped
  <2>3. j = i
    BY <1>1, <2>1, <2>2, Forest DEF FlowTyped
  <2> QED BY <1>1, <2>3
<1>3. ASSUME Under(tasks[1], conns[i][1], i) PROVE FALSE
  <2>1. Loop(tasks[1]).node = conns[i][1] /\ Loop(tasks[1]).next <= i
    BY <1>3 DEF Under
  <2> QED BY <1>1, <2>1
<1> QED BY <1>2, <1>3

\* A loop of t in front of the others that have yet to come to the i-th connection goes on:
\* it is still in front, or comes to that connection itself.
LEMMA HandsOn ==
  ASSUME FlowInv, NEW loops \in Seq(Frame), NEW tasks, Spread(1, tasks), mail' \in Seq(Call \cup Change),
         Len(tasks) = 0 \/ Len(tasks) = 1,
         \/ tasks = <<>> /\ \A k \in 1..Len(loops) : Ahead(loops[k]) = {}
         \/ \E k, j : Sent(loops, tasks, k, j),
         NEW i \in 1..Len(conns), NEW t, t = conns[i][1], Flow!InStep(i),
         NEW h \in 1..Len(loops), loops[h].node = t, loops[h].next <= i,
         \A k \in 1..Len(loops) : k > h => Ahead(loops[k]) = {},
         \A k \in 1..Len(loops) : k < h /\ loops[k].node = t => loops[k].next > i,
         \A l \in 2..Len(Line) : Under(Line[l], t, i) => loops[h].next < Loop(Line[l]).next
  PROVE  \/ NewestBears(Line', t, i, loops[h].arg)
         \/ Written(conns[i][2], loops[h].arg)' /\ \A k \in 1..Len(Line') : ~Under(Line'[k], t, i)
<1> USE DEF FlowInv
<1> DEFINE f == loops[h]
           x == conns[i][2]
<1>1. /\ f \in Frame /\ f.next \in Nat \ {0} /\ f.node = t /\ f.arg \in Flow!Terms
      /\ conns \in Seq(Wiring) /\ i \in Nat /\ x \in Flow!Node /\ t \in Transform
  <2>1. f \in Frame
    BY ElementOfSeq
  <2> QED BY <2>1, Connection DEF Frame, FlowTyped
<1>2. ASSUME NEW e \in 1..Len(conns), e < i, e >= f.next, conns[e][1] = t PROVE e \in Ahead(f)
  <2>1. e \in 1..i - 1
    BY <1>1, <1>2
  <2>2. Flow!Brief(conns[e][2])
    BY <1>2, <2>1 DEF Flow!InStep
  <2>3. conns[e][2] \notin Color
    BY <2>2, BriefNode
  <2> QED BY <1>1, <1>2, <2>3, OnwardFrom DEF Ahead
<1>3. ASSUME NEW l \in 2..Len(Line), Under(Line[l], t, i)
      PROVE  Loop(Line[l]).next \in Nat /\ Loop(Line[l]).next - 1 \in Ahead(f) /\ Loop(Line[l]).next - 1 < i
  <2>1. l \in 1..Len(Line) /\ Line[l].kind # "changed" /\ Loop(Line[l]).node = t /\ Loop(Line[l]).next <= i
    BY <1>3 DEF Under
  <2>2. Line[l] \in Call /\ Placed(Line[l], conns, inputs)
    BY <2>1, LineTyped, CallFields DEF LinePlaced
  <2>3. Line[l].rest \in Seq(Frame) /\ Line[l].rest # <<>>
    BY <1>3, <2>2, CallFields DEF Under
  <2>4. Len(Line[l].rest) \in 1..Len(Line[l].rest)
    BY <2>3, EmptySeq
  <2>5. /\ Loop(Line[l]).next - 1 \in 1..Len(conns)
        /\ conns[Loop(Line[l]).next - 1] = <<t, Line[l].node>>
    BY <2>1, <2>2, <2>4 DEF Placed, Chained, Loop
  <2>6. Loop(Line[l]).next \in Nat
    <3>1. Loop(Line[l]) \in Frame
      BY <2>3, <2>4, ElementOfSeq DEF Loop
    <3> QED BY <3>1 DEF Frame
  <2>7. f.next < Loop(Line[l]).next
    BY <1>3
  <2> DEFINE e == Loop(Line[l]).next - 1
  <2>8. e \in 1..Len(conns) /\ e < i /\ e >= f.next /\ conns[e][1] = t
    BY <1>1, <2>1, <2>5, <2>6, <2>7
  <2> HIDE DEF e, f
  <2>9. e \in Ahead(f)
    BY <1>2, <2>8
  <2> QED BY <2>6, <2>8, <2>9 DEF e
<1>4. ASSUME NEW k, NEW j, Sent(loops, tasks, k, j)
      PROVE  /\ k \in 1..Len(loops) /\ j \in 1..Len(conns) /\ k <= h /\ (Ahead(f) # {} => k = h)
             /\ 1 \in 1..Len(tasks)
  <2>1. k \in 1..Len(loops) /\ j \in 1..Len(conns) /\ j \in Ahead(loops[k]) /\ Len(tasks) = 1
        /\ \A l \in 1..Len(loops) : l > k => Ahead(loops[l]) = {}
    BY <1>4 DEF Sent
  <2>2. ~(k > h)
    BY <2>1
  <2>3. k < h => Ahead(f) = {}
    BY <2>1
  <2> HIDE DEF f
  <2> QED BY <2>1, <2>2, <2>3
<1>5. CASE \E e \in Ahead(f) : e < i
  <2>1. PICK k, j : Sent(loops, tasks, k, j)
    <3> HIDE DEF f
    <3>1. ~ \A k \in 1..Len(loops) : Ahead(loops[k]) = {}
      BY <1>5 DEF f
    <3> QED BY <3>1
  <2>2. k = h /\ j \in 1..Len(conns)
    BY <1>4, <1>5, <2>1
  <2>3. /\ \A e \in Ahead(f) : j <= e
        /\ Loop(tasks[1]).node = t /\ Loop(tasks[1]).arg = f.arg /\ Loop(tasks[1]).next = j + 1
        /\ tasks[1].rest # <<>> /\ Len(tasks) = 1
    <3>1. Loop(tasks[1]).node = f.node /\ Loop(tasks[1]).arg = f.arg /\ Loop(tasks[1]).next = j + 1
      BY <2>1, <2>2, SentFrom
    <3> QED BY <1>1, <2>1, <2>2, <3>1 DEF Sent
  <2>4. j + 1 <= i /\ j + 1 \in Nat
    <3>1. PICK e \in Ahead(f) : e < i
      BY <1>5
    <3>2. j <= e /\ e \in 1..Len(conns)
      BY <1>1, <2>3, <3>1, OnwardFrom DEF Ahead
    <3> QED BY <1>1, <2>2, <3>1, <3>2
  <2>5. Under(tasks[1], t, i)
    <3>1. tasks[1] \in Call
      BY <2>3, SpreadInputs
    <3>2. tasks[1].kind # "changed"
      BY <3>1, CallFields
    <3> QED BY <2>3, <2>4, <3>2 DEF Under
  <2>6. ASSUME NEW l \in 2..Len(Line), Under(Line[l], t, i)
        PROVE  /\ Loop(Line[l]).next \in Nat /\ Loop(tasks[1]).next \in Nat
               /\ Loop(tasks[1]).next <= Loop(Line[l]).next
    <3>1. Loop(Line[l]).next \in Nat /\ Loop(Line[l]).next - 1 \in Ahead(f)
      BY <1>3, <2>6
    <3>2. j <= Loop(Line[l]).next - 1
      BY <2>3, <3>1
    <3> QED BY <2>2, <2>3, <2>4, <3>1, <3>2
  <2>7. Line \in Seq(Call \cup Change) /\ Line' \in Seq(Call \cup Change) /\ tasks \in Seq(Call \cup Change)
    BY LineTyped, GrownLine
  <2>8. Grows(Line, Line', 1, tasks) /\ Loop(tasks[1]).arg = f.arg
    BY <2>3 DEF Spread
  <2> HIDE DEF f
  <2>9. NewestBears(Line', t, i, f.arg)
    BY <1>1, <2>3, <2>5, <2>6, <2>7, <2>8, NewBears
  <2> QED BY <2>9 DEF f
<1>6. CASE \A e \in Ahead(f) : e >= i
  <2>1. ASSUME NEW k \in 1..Len(Line'), Under(Line'[k], t, i) PROVE FALSE
    <3>1. ASSUME NEW l \in 1..Len(Line), l > 1, Line'[k] = Line[l] PROVE FALSE
      <4>1. l \in 2..Len(Line)
        BY <3>1
      <4>2. Loop(Line[l]).next \in Nat /\ Loop(Line[l]).next - 1 \in Ahead(f) /\ Loop(Line[l]).next - 1 < i
        BY <1>3, <2>1, <3>1, <4>1
      <4>3. Loop(Line[l]).next - 1 >= i
        BY <1>6, <4>2
      <4> QED BY <1>1, <4>2, <4>3
    <3>2. ASSUME NEW l \in 1..Len(tasks), Line'[k] = tasks[l] PROVE FALSE
      <4>1. l = 1 /\ tasks # <<>>
        BY <3>2, NoTasks
      <4>2. PICK n, j : Sent(loops, tasks, n, j)
        BY <4>1
      <4>3. n \in 1..Len(loops) /\ j \in 1..Len(conns) /\ n <= h
        BY <1>4, <4>2
      <4>4. CASE n = h
        <5>1. j \in Ahead(f) /\ Loop(tasks[1]).next = j + 1
          BY <4>2, <4>4, SentFrom DEF Sent
        <5>2. j >= i
          BY <1>6, <5>1
        <5>3. Loop(tasks[1]).next <= i
          BY <2>1, <3>2, <4>1 DEF Under
        <5> QED BY <1>1, <4>3, <5>1, <5>2, <5>3
      <4>5. CASE n # h
        <5>1. n < h
          BY <4>3, <4>5
        <5>2. loops[n].node = conns[i][1] => loops[n].next > i
          BY <4>3, <5>1
        <5>3. ~Under(tasks[1], conns[i][1], i)
          BY <4>2, <5>2, SentElsewhere
        <5> QED BY <2>1, <3>2, <4>1, <5>3
      <4> QED BY <4>4, <4>5
    <3>3. \/ \E l \in 1..Len(Line) : l > 1 /\ Line'[k] = Line[l]
          \/ \E l \in 1..Len(tasks) : Line'[k] = tasks[l]
      <4>1. Gained(1, tasks)
        BY LineGrows
      <4> QED BY <4>1 DEF Gained
    <3> QED BY <3>1, <3>2, <3>3
  <2>2. Written(x, f.arg)'
    <3>1. CASE i \in Ahead(f)
      <4>1. PICK k, j : Sent(loops, tasks, k, j)
        <5>1. ~ \A k \in 1..Len(loops) : Ahead(loops[k]) = {}
          BY <3>1
        <5> QED BY <5>1
      <4>2. k = h /\ j \in 1..Len(conns) /\ 1 \in 1..Len(tasks)
        BY <1>4, <3>1, <4>1
      <4>3. j \in Ahead(f) /\ j <= i
        BY <3>1, <4>1, <4>2 DEF Sent
      <4>4. j = i
        <5>1. j >= i
          BY <1>6, <4>3
        <5> QED BY <1>1, <4>2, <4>3, <5>1
      <4>5. PICK rest : tasks[1] = Flow!Task(x, f.arg, rest)
        BY <4>1, <4>2, <4>4 DEF Sent
      <4> DEFINE v == f.arg
      <4>6. x' = x /\ v' = v
        BY DEF Spread
      <4>7. tasks[1] = Flow!Task(x, v, rest) /\ x \in Flow!Node
        BY <1>1, <4>5
      <4> HIDE DEF x, v
      <4>8. Written(x, v)'
        <5>1. PICK y \in Flow!Node, w \in {v} : y = x
          BY <4>7
        <5>2. Written(y, w)'
          BY <4>2, <4>7, <5>1, WrittenNow
        <5> QED BY <4>6, <5>1, <5>2 DEF Written
      <4> QED BY <4>8 DEF v
    <3>2. CASE i \notin Ahead(f)
      <4>1. x \in Color /\ Flow!Accepted(x, f.arg) = Null
        BY <1>1, <3>2, OnwardFrom DEF Ahead
      <4>2. x \notin Transform
        BY <4>1, Forest
      <4>3. x' = x
        BY DEF Spread
      <4> HIDE DEF x, f
      <4> QED BY <4>1, <4>2, <4>3 DEF Written
    <3> QED BY <3>1, <3>2
  <2> QED BY <2>1, <2>2 DEF Spread
<1> HIDE DEF f
<1>7. \A e \in Ahead(f) : e \in Nat
  <2>1. Ahead(f) \in SUBSET (1..Len(conns))
    BY <1>1, OnwardFrom DEF Ahead
  <2> QED BY <2>1
<1> QED BY <1>1, <1>5, <1>6, <1>7

----------------------------------------------------------------------------
\* A call goes on: what each connection conveys.
LEMMA ResumePlain ==
  ASSUME FlowInv, Flow!ResumeCall, NEW i \in 1..Len(conns), conns[i][1] \in Plain PROVE Conveyed(i)'
<1> USE DEF FlowInv
<1>a. PICK tasks, loops : tasks = Flow!Resumed(Loops(Line[1])) /\ loops = Loops(Line[1])
  OBVIOUS
<1>1. /\ Line[1] \in Call /\ Placed(Line[1], conns, inputs) /\ (Line[1].kind = "get" => Line[1].code # Null)
      /\ Spread(1, tasks) /\ Len(tasks) \in {0, 1}
      /\ known' = known /\ conns' = conns
      /\ \/ tasks = <<>> /\ \A k \in 1..Len(loops) : Ahead(loops[k]) = {}
         \/ \E k, j : Sent(loops, tasks, k, j)
  BY <1>a, Resumes
<1>2. loops \in Seq(Frame)
  BY <1>a, <1>1, LoopsFrom
<1> HIDE DEF FlowInv
<1>3. FlowTyped /\ Conveyed(i) /\ conns[i][1] \notin Transform /\ conns[i][2] \in Flow!Node
  BY Forest, Connection DEF FlowInv, FlowTyped
<1>4. ASSUME NEW a \in 1..Len(tasks), tasks[a].node = conns[i][2] PROVE FALSE
  <2>1. a = 1 /\ tasks # <<>>
    BY <1>1, <1>4, NoTasks
  <2>2. PICK k, j : Sent(loops, tasks, k, j)
    BY <1>1, <2>1
  <2>3. loops[k].node \in Transform
    BY <1>2, <1>3, <2>2, SentFrom
  <2> QED BY <1>2, <1>3, <1>4, <2>1, <2>2, <2>3, SentElsewhere
<1>5. CASE known[conns[i][1]] = Null
  BY <1>1, <1>5 DEF Conveyed
<1>6. CASE known[conns[i][1]] # Null
  <2>1. PICK y \in Flow!Node, w \in {known[conns[i][1]]} : y = conns[i][2]
    BY <1>3
  <2>2. Written(y, w)
    BY <1>3, <1>6, <2>1 DEF Conveyed
  <2>3. Written(y, w)'
    BY <1>1, <1>3, <1>4, <2>1, <2>2, WrittenStays
  <2> QED BY <1>1, <2>1, <2>3 DEF Conveyed, Written
<1> QED BY <1>5, <1>6

LEMMA ResumeCarries ==
  ASSUME FlowInv, Flow!ResumeCall, NEW i \in 1..Len(conns), conns[i][1] \in Transform, Carries(conns[i][1], i)'
  PROVE  Borne(conns[i][1], i)'
<1> USE DEF FlowInv
<1>a. PICK m, tasks, loops, x :
        m = Line[1] /\ tasks = Flow!Resumed(Loops(Line[1])) /\ loops = Loops(Line[1]) /\ x = conns[i][2]
  OBVIOUS
<1>1. /\ m \in Call /\ Placed(m, conns, inputs) /\ 1 \in 1..Len(Line) /\ (m.kind = "get" => m.code # Null)
      /\ Spread(1, tasks) /\ Len(tasks) \in {0, 1}
      /\ mail' \in Seq(Call \cup Change) /\ conns' = conns
      /\ raw' = IF m.kind = "get" /\ m.code # BadCode THEN {c \in raw : c[1] # m.node} ELSE raw
      /\ \/ tasks = <<>> /\ \A k \in 1..Len(loops) : Ahead(loops[k]) = {}
         \/ \E k, j : Sent(loops, tasks, k, j)
      /\ \A u \in Transform : NoNews(u)' => NoNews(u)
  BY <1>a, Resumes
<1>2. /\ loops \in Seq(Frame) /\ Len(m.rest) \in Nat
      /\ Len(loops) = IF m.kind = "get" /\ m.code # BadCode THEN Len(m.rest) + 1 ELSE Len(m.rest)
      /\ \A k \in 1..Len(m.rest) : loops[k] = m.rest[k]
      /\ m.kind = "get" /\ m.code # BadCode =>
           loops[Len(m.rest) + 1] = [node |-> m.node, arg |-> Flow!Output(m.code, m.arg), next |-> 1]
  BY <1>a, <1>1, LoopsFrom
<1>3. PICK t \in Transform : t = conns[i][1]
  OBVIOUS
<1> HIDE DEF FlowInv
<1>4. /\ FlowTyped /\ LinePlaced /\ Conveyed(i) /\ conns \in Seq(Wiring) /\ i \in Nat /\ i >= 1 /\ value' = value
      /\ NoNews(t) /\ LatestAsks(Line, t, inputs[t], value[t]) /\ conns[i][1] \notin Plain
      /\ m = Line[1] /\ Carries(t, i)' /\ m.kind # "changed"
  <2>1. NoNews(t)'
    BY <1>1, <1>3 DEF Carries
  <2>2. i \in Nat /\ i >= 1
    OBVIOUS
  <2> QED BY <1>a, <1>1, <1>3, <2>1, <2>2, Forest, CallFields DEF FlowInv, FlowTyped, Spread
<1>5. Flow!InStep(i)
  BY <1>1, <1>4, OutOfStep DEF Carries, Spread
<1>6. /\ \A k \in 1..Len(Line') : \/ \E l \in 1..Len(Line) : l > 1 /\ Line'[k] = Line[l]
                                  \/ \E l \in 1..Len(tasks) : Line'[k] = tasks[l]
      /\ \A l \in 1..Len(Line) : l > 1 => \E k \in 1..Len(Line') : Line'[k] = Line[l]
      /\ \A l \in 1..Len(tasks) : \E k \in 1..Len(Line') : Line'[k] = tasks[l]
  <2>1. FlowTyped /\ Spread(1, tasks) /\ mail' \in Seq(Call \cup Change)
    BY <1>1, <1>4
  <2>2. Gained(1, tasks)
    BY ONLY <2>1, LineGrows
  <2> QED BY ONLY <2>2 DEF Gained
<1>7. \A k \in 1..Len(Line') : ~Asks(Line'[k], t)
  BY <1>4 DEF Carries
<1>8. inputs'[t] = inputs[t]
  <2>1. ASSUME NEW k \in 1..Len(tasks), tasks[k].node = t PROVE FALSE
    <3>1. Asks(tasks[k], t)
      BY <1>1, <1>4, <2>1, SpreadInputs DEF Asks
    <3> QED BY <1>6, <1>7, <3>1
  <2> QED BY <1>1, <1>4, <2>1, SpreadInputs
<1>9. PICK v \in {Flow!Output(value[t], inputs[t])} : TRUE
  OBVIOUS
<1>10. ASSUME NEW k \in 1..Len(m.rest), m.rest[k].node = t, k < Len(m.rest) \/ Asks(m, t) PROVE m.rest[k].next > i
  BY <1>1, <1>3, <1>4, <1>5, <1>10, OuterLoops DEF Asks
<1>11. ASSUME NewestBears(Line', t, i, v) \/ (Written(x, v)' /\ \A k \in 1..Len(Line') : ~Under(Line'[k], t, i))
       PROVE  Borne(conns[i][1], i)'
  <2>1. v = Flow!Output(value'[t], inputs'[t]) /\ conns'[i][1] = t /\ conns'[i][2] = x
    BY <1>a, <1>1, <1>3, <1>4, <1>8, <1>9
  <2> QED BY <1>11, <2>1 DEF Borne
<1>12. CASE Asks(m, t)
  <2>1. m.arg = inputs[t] /\ m.code = value[t] /\ m.code # BadCode /\ m.node = t /\ m.kind = "get"
    <3>1. PICK k \in 1..Len(Line) : Asks(Line[k], t) /\ Line[k].arg = inputs[t] /\ Line[k].code \in {Null, value[t]}
      BY <1>1, <1>4, <1>12 DEF LatestAsks
    <3>2. k = 1
      <4>1. ~(k > 1)
        BY <1>6, <1>7, <3>1
      <4> QED BY <4>1
    <3>3. value[t] # BadCode
      BY <1>4 DEF Carries
    <3> QED BY <1>1, <1>4, <1>12, <3>1, <3>2, <3>3 DEF Asks
  <2> DEFINE h == Len(m.rest) + 1
  <2>2. h \in 1..Len(loops) /\ Len(loops) = h /\ loops[h].node = t /\ loops[h].next = 1 /\ loops[h].arg = v
    BY <1>2, <1>9, <2>1
  <2>3. \A k \in 1..Len(loops) : k > h => Ahead(loops[k]) = {}
    BY <1>2, <2>2
  <2>4. ASSUME NEW k \in 1..Len(loops), k < h, loops[k].node = t PROVE loops[k].next > i
    <3>1. k \in 1..Len(m.rest)
      BY <1>2, <2>4
    <3> QED BY <1>2, <1>10, <1>12, <2>4, <3>1
  <2>5. ASSUME NEW l \in 2..Len(Line), Under(Line[l], t, i) PROVE 1 < Loop(Line[l]).next
    <3>1. l \in 1..Len(Line) /\ Line[l].kind # "changed" /\ Line[l].rest # <<>>
      BY <2>5 DEF Under
    <3>2. Line[l] \in Call /\ Placed(Line[l], conns, inputs)
      BY <1>4, <3>1, LineTyped, CallFields DEF LinePlaced
    <3>3. Line[l].rest \in Seq(Frame)
      BY <3>2, CallFields
    <3>4. Len(Line[l].rest) \in 1..Len(Line[l].rest)
      BY <3>1, <3>3, EmptySeq
    <3>5. Loop(Line[l]).next - 1 \in 1..Len(conns)
      BY <3>1, <3>2, <3>4 DEF Placed, Chained, Loop
    <3>6. Loop(Line[l]).next \in Nat
      <4>1. Loop(Line[l]) \in Frame
        BY <3>3, <3>4, ElementOfSeq DEF Loop
      <4> QED BY <4>1 DEF Frame
    <3> QED BY <3>5, <3>6
  <2> HIDE DEF h
  <2>6. loops[h].next <= i /\ \A l \in 2..Len(Line) : Under(Line[l], t, i) => loops[h].next < Loop(Line[l]).next
    BY <1>4, <2>2, <2>5
  <2>7. \/ NewestBears(Line', t, i, loops[h].arg)
        \/ Written(x, loops[h].arg)' /\ \A k \in 1..Len(Line') : ~Under(Line'[k], t, i)
    <3>1. /\ FlowInv /\ Spread(1, tasks) /\ mail' \in Seq(Call \cup Change) /\ t = conns[i][1]
          /\ Len(tasks) = 0 \/ Len(tasks) = 1
          /\ \/ tasks = <<>> /\ \A k \in 1..Len(loops) : Ahead(loops[k]) = {}
             \/ \E k, j : Sent(loops, tasks, k, j)
          /\ Flow!InStep(i) /\ loops[h].node = t /\ loops[h].next <= i
      BY <1>1, <1>3, <1>5, <2>2, <2>6
    <3>2. /\ \A k \in 1..Len(loops) : k > h => Ahead(loops[k]) = {}
          /\ \A k \in 1..Len(loops) : k < h /\ loops[k].node = t => loops[k].next > i
          /\ \A l \in 2..Len(Line) : Under(Line[l], t, i) => loops[h].next < Loop(Line[l]).next
      BY <2>3, <2>4, <2>6
    <3>3. \/ NewestBears(Line', t, i, loops[h].arg)
          \/ Written(conns[i][2], loops[h].arg)' /\ \A k \in 1..Len(Line') : ~Under(Line'[k], t, i)
      BY <1>2, <2>2, <3>1, <3>2, HandsOn
    <3>4. conns'[i][2] = x
      BY <1>a, <1>1
    <3> QED BY <3>3, <3>4
  <2> QED BY <2>2, <2>7, <1>11
<1>13. ASSUME NEW a \in 1..Len(tasks) PROVE a = 1 /\ tasks # <<>>
  <2>1. Len(tasks) = 1
    BY <1>1
  <2>2. a = 1
    BY <2>1
  <2>3. tasks # <<>>
    <3>1. ASSUME tasks = <<>> PROVE FALSE
      <4>1. Len(<<>>) = 1
        BY ONLY <2>1, <3>1
      <4> QED BY <4>1
    <3> QED BY <3>1
  <2> QED BY <2>2, <2>3
<1>14. CASE ~Asks(m, t) /\ Under(m, t, i)
  <2> DEFINE h == Len(m.rest)
  <2>1. /\ m.rest \in Seq(Frame) /\ m.rest # <<>> /\ h \in 1..h /\ h \in 1..Len(loops) /\ loops[h] = m.rest[h]
        /\ loops[h] = Loop(m) /\ loops[h].node = t /\ loops[h].next <= i
    <3>1. m.rest \in Seq(Frame) /\ m.rest # <<>> /\ Loop(m).node = t /\ Loop(m).next <= i
      BY <1>1, <1>14, CallFields DEF Under
    <3>2. h \in 1..h
      BY <3>1, EmptySeq
    <3>3. h \in 1..Len(m.rest) /\ h \in 1..Len(loops)
      BY <1>2, <3>2
    <3> HIDE DEF h
    <3>4. loops[h] = m.rest[h]
      BY <1>2, <3>3
    <3>5. m.rest[h] = Loop(m)
      BY DEF Loop, h
    <3> QED BY <3>1, <3>2, <3>3, <3>4, <3>5
  <2>2. loops[h] \in Frame /\ loops[h].next \in Nat \ {0} /\ loops[h].next - 1 \in 1..Len(conns)
        /\ conns[loops[h].next - 1] = <<t, m.node>>
    <3>1. loops[h] \in Frame
      BY <1>2, <2>1, ElementOfSeq
    <3> QED BY <1>1, <1>4, <2>1, <3>1 DEF Frame, Placed, Chained
  <2>3. ASSUME NEW k \in 1..Len(loops), k > h PROVE Ahead(loops[k]) = {}
    <3>1. m.kind = "get" /\ m.code # BadCode /\ k = h + 1
      BY <1>2, <2>3
    <3>2. loops[k].node = m.node /\ loops[k].next = 1 /\ m.node \in Transform
      BY <1>1, <1>2, <1>4, <3>1 DEF Placed
    <3>3. Flow!Brief(m.node)
      <4>1. loops[h].next - 1 \in 1..i - 1 /\ conns[loops[h].next - 1][1] = t /\ conns[loops[h].next - 1][2] = m.node
        BY <1>4, <2>1, <2>2
      <4> HIDE DEF h
      <4> QED BY <1>3, <1>5, <4>1 DEF Flow!InStep
    <3>4. \A e \in 1..Len(conns) : conns[e][1] # m.node
      BY <1>4, <3>2, <3>3, BriefNode, Forest
    <3>5. Ahead(loops[k]) \in SUBSET (1..Len(conns))
      BY <1>4, <3>2, OnwardFrom DEF Ahead
    <3> QED BY <1>4, <3>2, <3>4, <3>5, OnwardFrom DEF Ahead
  <2>4. ASSUME NEW k \in 1..Len(loops), k < h, loops[k].node = t PROVE loops[k].next > i
    <3>1. k \in 1..Len(m.rest)
      BY <1>2, <2>4
    <3> QED BY <1>2, <1>10, <2>4, <3>1
  <2>5. NewestBears(Line, t, i, v)
    <3>1. Carries(t, i)
      <4>1. \A k \in 1..Len(Line) : ~Asks(Line[k], t)
        <5>1. SUFFICES ASSUME NEW k \in 1..Len(Line), Asks(Line[k], t) PROVE FALSE
          OBVIOUS
        <5>2. k > 1
          <6>1. k # 1
            BY <1>4, <1>14, <5>1
          <6> QED BY <6>1
        <5> QED BY <1>6, <1>7, <5>1, <5>2
      <4>2. conns[i] \notin raw
        <5>1. conns'[i] \notin raw'
          BY <1>4 DEF Carries
        <5>2. m.kind = "get" => m.node # t
          BY <1>14 DEF Asks
        <5> QED BY <1>1, <1>3, <5>1, <5>2
      <4>3. value[t] # BadCode /\ inputs[t] # Null
        BY <1>4, <1>8 DEF Carries
      <4> QED BY <1>4, <1>5, <4>1, <4>2, <4>3 DEF Carries
    <3>2. Borne(t, i)
      BY <1>3, <1>4, <3>1 DEF Conveyed
    <3>3. ~ \A k \in 1..Len(Line) : ~Under(Line[k], t, i)
      BY <1>1, <1>4, <1>14
    <3> QED BY <1>9, <3>2, <3>3 DEF Borne
  <2>6. PICK n \in 1..Len(Line) : Under(Line[n], t, i) /\ Loop(Line[n]).arg = v /\ Hindmost(Line, n, t, i)
    BY <2>5 DEF NewestBears
  <2> HIDE DEF h
  <2>7. CASE n = 1
    <3>1. ASSUME NEW l \in 2..Len(Line), Under(Line[l], t, i) PROVE loops[h].next < Loop(Line[l]).next
      <4>1. l \in 1..Len(Line) /\ l # 1 /\ ~(l < 1)
        BY <3>1
      <4> QED BY <1>4, <2>1, <2>6, <2>7, <3>1, <4>1 DEF Hindmost
    <3>2. /\ FlowInv /\ Spread(1, tasks) /\ mail' \in Seq(Call \cup Change) /\ t = conns[i][1]
          /\ Len(tasks) = 0 \/ Len(tasks) = 1
          /\ \/ tasks = <<>> /\ \A k \in 1..Len(loops) : Ahead(loops[k]) = {}
             \/ \E k, j : Sent(loops, tasks, k, j)
          /\ Flow!InStep(i) /\ loops[h].node = t /\ loops[h].next <= i /\ h \in 1..Len(loops)
      BY <1>1, <1>3, <1>5, <2>1
    <3>3. /\ \A k \in 1..Len(loops) : k > h => Ahead(loops[k]) = {}
          /\ \A k \in 1..Len(loops) : k < h /\ loops[k].node = t => loops[k].next > i
          /\ \A l \in 2..Len(Line) : Under(Line[l], t, i) => loops[h].next < Loop(Line[l]).next
      BY <2>3, <2>4, <3>1
    <3>4. \/ NewestBears(Line', t, i, loops[h].arg)
          \/ Written(conns[i][2], loops[h].arg)' /\ \A k \in 1..Len(Line') : ~Under(Line'[k], t, i)
      BY <1>2, <3>2, <3>3, HandsOn
    <3>5. conns'[i][2] = x /\ loops[h].arg = v
      BY <1>a, <1>1, <1>4, <2>1, <2>6, <2>7
    <3>6. m' = m /\ h' = h
      BY DEF h
    <3>7. (loops[h].arg)' = v
      BY <3>5, <3>6
    <3> QED BY <1>11, <3>4, <3>5, <3>7
  <2>8. CASE n # 1
    <3>1. n > 1
      BY <2>8
    <3>2. ASSUME NEW l \in 1..Len(tasks), Under(tasks[l], t, i) PROVE Loop(Line[n]).next < Loop(tasks[l]).next
      <4>1. l = 1 /\ tasks # <<>>
        BY <1>13
      <4>2. PICK k, j : Sent(loops, tasks, k, j)
        BY <1>1, <4>1
      <4>3. /\ k \in 1..Len(loops) /\ j \in 1..Len(conns) /\ j >= loops[k].next /\ Loop(tasks[1]).next = j + 1
            /\ loops[k].next \in Nat
        <5>1. FlowTyped /\ loops \in Seq(Frame)
          BY <1>2, <1>4
        <5> QED BY <4>2, <5>1, SentFrom
      <4>4. ~(k > h)
        BY <2>3, <4>2, <4>3 DEF Sent
      <4>5. ~(k < h)
        <5>1. SUFFICES ASSUME k < h PROVE FALSE
          OBVIOUS
        <5>2. loops[k].node = conns[i][1] => loops[k].next > i
          BY <1>3, <2>4, <4>3, <5>1
        <5> QED BY <1>2, <1>3, <1>4, <3>2, <4>1, <4>2, <5>2, SentElsewhere
      <4>6. k = h
        BY <2>1, <4>3, <4>4, <4>5
      <4>7. Loop(Line[n]).next < loops[h].next \/ Loop(Line[n]).next = loops[h].next
        BY <1>1, <1>4, <1>14, <2>1, <2>6, <2>8 DEF Hindmost
      <4>8. Loop(Line[n]).next \in Nat
        <5>1. Line[n] \in Call
          BY <1>4, <2>6, LineTyped, CallFields DEF Under
        <5>2. Line[n].rest \in Seq(Frame) /\ Line[n].rest # <<>>
          BY <2>6, <5>1, CallFields DEF Under
        <5>3. Loop(Line[n]) \in Frame
          BY <5>2, EmptySeq, ElementOfSeq DEF Loop
        <5> QED BY <5>3 DEF Frame
      <4> QED BY <4>1, <4>3, <4>6, <4>7, <4>8
    <3>3. Line \in Seq(Call \cup Change) /\ Line' \in Seq(Call \cup Change) /\ tasks \in Seq(Call \cup Change)
      BY <1>1, <1>4, LineTyped, GrownLine
    <3>4. Grows(Line, Line', 1, tasks)
      BY <1>1 DEF Spread
    <3>5. NewestBears(Line', t, i, v)
      BY <1>4, <2>6, <3>1, <3>2, <3>3, <3>4, GrownBears
    <3> QED BY <1>11, <3>5
  <2> QED BY <2>7, <2>8
<1>15. CASE ~Asks(m, t) /\ ~Under(m, t, i)
  <2>1. ASSUME NEW a \in 1..Len(tasks) PROVE tasks[a].node # conns[i][2] /\ ~Under(tasks[a], t, i)
    <3>1. a = 1 /\ tasks # <<>>
      BY <1>13
    <3>2. PICK k, j : Sent(loops, tasks, k, j)
      BY <1>1, <3>1
    <3>3. k \in 1..Len(loops)
      BY <3>2 DEF Sent
    <3>4. loops[k].node = t => loops[k].next > i
      <4>1. SUFFICES ASSUME loops[k].node = t PROVE loops[k].next > i
        OBVIOUS
      <4>2. CASE k \in 1..Len(m.rest) /\ k < Len(m.rest)
        BY <1>2, <1>10, <4>1, <4>2
      <4>3. CASE k \in 1..Len(m.rest) /\ k = Len(m.rest)
        <5>1. loops[k] = Loop(m) /\ m.rest # <<>>
          BY <1>2, <4>3, EmptySeq DEF Loop
        <5>2. loops[k].next \in Nat
          <6>1. loops[k] \in Frame
            BY <1>2, <3>3, ElementOfSeq
          <6> QED BY <6>1 DEF Frame
        <5> QED BY <1>4, <1>15, <4>1, <5>1, <5>2 DEF Under
      <4>4. CASE k \notin 1..Len(m.rest)
        <5>1. m.kind = "get" /\ loops[k].node = m.node
          BY <1>2, <3>3, <4>4
        <5> QED BY <1>15, <4>1, <5>1 DEF Asks
      <4> QED BY <1>2, <4>2, <4>3, <4>4
    <3> QED BY <1>2, <1>3, <1>4, <3>1, <3>2, <3>4, SentElsewhere
  <2>2. conns[i] \in raw => conns[i] \in raw'
    <3>1. m.kind = "get" => m.node # t
      BY <1>15 DEF Asks
    <3> QED BY <1>1, <1>3, <3>1
  <2>3. ~Asks(Line[1], conns[i][1]) /\ ~Under(Line[1], conns[i][1], i)
    BY <1>3, <1>4, <1>15
  <2>4. /\ FlowInv /\ Spread(1, tasks) /\ mail' \in Seq(Call \cup Change) /\ conns[i][1] \in Transform
        /\ Carries(conns[i][1], i)' /\ NoNews(conns[i][1])
        /\ \A a \in 1..Len(tasks) : ~Under(tasks[a], conns[i][1], i)
        /\ \A a \in 1..Len(tasks) : tasks[a].node # conns[i][2]
    BY <1>1, <1>3, <1>4, <2>1
  <2> QED BY <2>2, <2>3, <2>4, StaysBorne
<1> QED BY <1>12, <1>14, <1>15

LEMMA ResumeKeeps == ASSUME FlowInv, Flow!ResumeCall PROVE FlowInv'
<1> USE DEF FlowInv
<1>a. PICK tasks : tasks = Flow!Resumed(Loops(Line[1]))
  OBVIOUS
<1>1. /\ Spread(1, tasks) /\ mail # <<>> /\ mail' = Tail(mail) /\ mail' \in Seq(Call \cup Change)
      /\ known' = known /\ conns' = conns /\ \A t \in Transform : NoNews(t)' => NoNews(t)
  BY <1>a, Resumes
<1>2. FlowTyped'
  <2>1. /\ known' \in [Flow!Node -> Flow!Terms \cup {Null}]
        /\ \A i, j \in 1..Len(conns') : conns'[i] = conns'[j] => i = j
    BY <1>1 DEF FlowTyped
  <2> QED BY <1>1, <2>1, SpreadTyped
<1>3. LinePlaced'
  BY <1>1, SpreadPlaced
<1>4. ASSUME NEW t \in Transform, NoNews(t)' PROVE LatestAsks(Line', t, inputs'[t], value'[t])
  BY <1>1, <1>4, SpreadAsks
<1>5. ASSUME NEW i \in 1..Len(conns) PROVE Conveyed(i)'
  <2>1. CASE conns[i][1] \in Plain
    BY <2>1, ResumePlain
  <2>2. CASE conns[i][1] \notin Plain
    <3>1. conns[i][1] \in Transform
      BY <2>2, Connection DEF FlowTyped
    <3> QED BY <1>1, <2>2, <3>1, ResumeCarries DEF Conveyed
  <2> QED BY <2>1, <2>2
<1> QED BY <1>1, <1>2, <1>3, <1>4, <1>5

----------------------------------------------------------------------------
\* An element's change is handled: a transform is evaluated again, and a plain element's value
\* goes to its connections.
FirstTask(n, v) == Flow!Task(n, v, <<>>)

LEMMA FreshTask ==
  ASSUME FlowTyped, NEW n \in Flow!Node, NEW v \in Flow!Terms, n \in Color => Flow!Accepted(n, v) # Null
  PROVE  /\ FirstTask(n, v) \in Call /\ FirstTask(n, v).code = Null /\ FirstTask(n, v).node = n
         /\ FirstTask(n, v).rest = <<>> /\ (n \in Transform => FirstTask(n, v).arg = v)
         /\ FirstTask(n, v).kind = "get" <=> n \in Transform
         /\ \A t, i : ~Under(FirstTask(n, v), t, i)
         /\ \A cs, in : /\ \E i \in 1..Len(cs) : n \in {cs[i][1], cs[i][2]}
                        /\ n \in Transform => in[n] # Null
                        => Placed(FirstTask(n, v), cs, in)
<1>1. <<>> \in Seq(Frame) /\ Len(<<>>) = 0
  OBVIOUS
<1>a. PICK rest \in Seq(Frame) : rest = <<>>
  BY <1>1
<1>2. /\ FirstTask(n, v) \in Call /\ FirstTask(n, v).code = Null
      /\ FirstTask(n, v).node = n /\ FirstTask(n, v).rest = <<>>
      /\ FirstTask(n, v).kind = "get" <=> n \in Transform
      /\ n \in Transform => FirstTask(n, v).arg = v
  <2>1. FirstTask(n, v) = Flow!Task(n, v, rest)
    BY <1>a DEF FirstTask
  <2>2. /\ Flow!Task(n, v, rest) \in Call /\ Flow!Task(n, v, rest).code = Null
        /\ Flow!Task(n, v, rest).node = n /\ Flow!Task(n, v, rest).rest = rest
        /\ Flow!Task(n, v, rest).kind = "get" <=> n \in Transform
        /\ n \in Transform => Flow!Task(n, v, rest).arg = v
    BY TaskTyped
  <2> QED BY ONLY <1>a, <2>1, <2>2
<1>3. \A cs : Chained(FirstTask(n, v), cs)
  BY <1>1, <1>2 DEF Chained
<1>4. \A t, i : ~Under(FirstTask(n, v), t, i)
  BY <1>2 DEF Under
<1>5. ASSUME NEW cs, NEW in, \E i \in 1..Len(cs) : n \in {cs[i][1], cs[i][2]}, n \in Transform => in[n] # Null
      PROVE  Placed(FirstTask(n, v), cs, in)
  BY <1>2, <1>3, <1>5 DEF Placed
<1> QED BY <1>2, <1>4, <1>5

\* First tasks down connections from one source.
FirstDown(tasks, cs, p, v) ==
  \A k \in 1..Len(tasks) : \E i \in 1..Len(cs) :
    /\ cs[i][1] = p /\ tasks[k] = FirstTask(cs[i][2], v)
    /\ cs[i][2] \in Color => Flow!Accepted(cs[i][2], v) # Null

LEMMA FreshSpread ==
  ASSUME FlowTyped, NEW d, NEW tasks \in Seq(Call), NEW v \in Flow!Terms, NEW p,
         Grows(Line, Line', d, tasks), requests' = requests \o tasks, inputs' = Flow!Noted(tasks), value' = value,
         conns' \in Seq(Wiring), Len(conns) <= Len(conns'), \A k \in 1..Len(conns) : conns'[k] = conns[k],
         FirstDown(tasks, conns', p, v),
         \A k, l \in 1..Len(tasks) : tasks[k].node = tasks[l].node => k = l
  PROVE  /\ Spread(d, tasks) /\ \A k \in 1..Len(tasks) : \A t, i : ~Under(tasks[k], t, i)
         /\ \A k \in 1..Len(tasks) : \E i \in 1..Len(conns') : conns'[i][1] = p /\ conns'[i][2] = tasks[k].node
<1>1. ASSUME NEW k \in 1..Len(tasks)
      PROVE  /\ tasks[k].code = Null /\ Placed(tasks[k], conns', inputs') /\ \A t, i : ~Under(tasks[k], t, i)
             /\ \E i \in 1..Len(conns') : conns'[i][1] = p /\ conns'[i][2] = tasks[k].node
  <2>1. PICK i \in 1..Len(conns') :
          /\ conns'[i][1] = p /\ tasks[k] = FirstTask(conns'[i][2], v)
          /\ conns'[i][2] \in Color => Flow!Accepted(conns'[i][2], v) # Null
    BY DEF FirstDown
  <2>2. conns'[i] \in Wiring
    BY ElementOfSeq
  <2>3. PICK x \in Flow!Node : x = conns'[i][2]
    BY <2>2, Forest
  <2>4. /\ tasks[k].code = Null /\ tasks[k].node = x /\ (x \in Transform => tasks[k].arg = v)
        /\ \A t, e : ~Under(tasks[k], t, e)
        /\ \A cs, in : /\ \E e \in 1..Len(cs) : x \in {cs[e][1], cs[e][2]}
                       /\ x \in Transform => in[x] # Null
                       => Placed(tasks[k], cs, in)
    BY <2>1, <2>3, FreshTask
  <2>5. x \in Transform => inputs'[x] # Null
    <3>1. x \in Transform => Flow!Noted(tasks)[x] = v
      BY <2>4, NotedInputs
    <3> QED BY <3>1, Forest
  <2>6. Placed(tasks[k], conns', inputs')
    BY <2>3, <2>4, <2>5
  <2> QED BY <2>1, <2>3, <2>4, <2>6
<1> QED BY <1>1 DEF Spread

\* A sequence without repetitions, as long as a set that is finite, has all its members.
LEMMA Listed ==
  ASSUME NEW n \in Nat, NEW S \in SUBSET (1..n), NEW out \in Flow!SetToSeqs(S)
  PROVE  /\ out \in Seq(S) /\ DOMAIN out = 1..Len(out) /\ Len(out) \in Nat
         /\ \A a, b \in 1..Len(out) : out[a] = out[b] => a = b
         /\ \A s \in S : \E a \in 1..Len(out) : out[a] = s
<1>1. IsFiniteSet(S) /\ Cardinality(S) \in Nat
  <2>1. IsFiniteSet(1..n)
    <3>1. 1 \in Int /\ n \in Int
      OBVIOUS
    <3> QED BY <3>1, FS_Interval
  <2>2. IsFiniteSet(S)
    BY <2>1, FS_Subset
  <2> QED BY <2>2, FS_CardinalityType
<1>2. Flow!Cardinality(S) = Cardinality(S)
  BY DEF Flow!Cardinality, Cardinality
<1>3. /\ out \in [1..Cardinality(S) -> S]
      /\ \A a, b \in 1..Cardinality(S) : a # b => out[a] # out[b]
  BY <1>2 DEF Flow!SetToSeqs
<1>4. out \in Seq(S) /\ Len(out) = Cardinality(S) /\ DOMAIN out = 1..Len(out)
  BY <1>1, <1>3, SeqDef
<1>5. ASSUME NEW s \in S, \A a \in 1..Cardinality(S) : out[a] # s PROVE FALSE
  <2>1. out \in [1..Cardinality(S) -> S \ {s}]
    BY <1>3, <1>5
  <2>2. IsFiniteSet(S \ {s}) /\ Cardinality(S \ {s}) = Cardinality(S) - 1
    BY <1>1, FS_RemoveElement
  <2>3. IsFiniteSet(1..Cardinality(S)) /\ Cardinality(1..Cardinality(S)) = Cardinality(S)
    <3>1. PICK c \in Nat : c = Cardinality(S)
      BY <1>1
    <3>2. IsFiniteSet(1..c) /\ Cardinality(1..c) = c
      BY FS_Interval
    <3> QED BY <3>1, <3>2
  <2>4. \E a, b \in 1..Cardinality(S) : a # b /\ out[a] = out[b]
    BY <1>1, <2>1, <2>2, <2>3, FS_PigeonHole
  <2> QED BY <1>3, <2>4
<1> QED BY <1>1, <1>3, <1>4, <1>5

\* What an update starts.
Reevaluates(tasks) ==
  LET m == Line[1] IN
  /\ m.node \in Transform /\ inputs' = inputs
  /\ \/ tasks = <<>> /\ inputs[m.node] = Null
     \/ tasks = <<FirstTask(m.node, inputs[m.node])>> /\ inputs[m.node] # Null

Passes(tasks) ==
  LET m == Line[1] IN
  /\ m.node \in Plain /\ FirstDown(tasks, conns, m.node, m.arg)
  /\ \A i \in 1..Len(conns) : conns[i][1] = m.node =>
       \/ conns[i][2] \in Color /\ Flow!Accepted(conns[i][2], m.arg) = Null
       \/ \E k \in 1..Len(tasks) : tasks[k] = FirstTask(conns[i][2], m.arg)

LEMMA Distinct ==
  ASSUME FlowTyped, NEW i \in 1..Len(conns), NEW j \in 1..Len(conns), conns[i][2] = conns[j][2]
  PROVE  i = j
<1>1. conns[i] \in Wiring /\ conns[j] \in Wiring
  BY Connection DEF FlowTyped
<1>2. conns[i] = conns[j]
  BY <1>1, Forest
<1> QED BY <1>2 DEF FlowTyped

LEMMA UpdateTasks ==
  ASSUME FlowInv, Flow!HandleElementUpdate
  PROVE  /\ mail # <<>> /\ mail' = Tail(mail) /\ Line[1].kind = "changed"
         /\ Line[1].node \in Flow!Node /\ Line[1].arg \in Flow!Terms
         /\ known' = [known EXCEPT ![Line[1].node] = Line[1].arg]
         /\ UNCHANGED <<value, conns, raw>>
         /\ \E tasks \in Seq(Call) :
              /\ requests' = requests \o tasks /\ inputs' = Flow!Noted(tasks)
              /\ \A k, l \in 1..Len(tasks) : tasks[k].node = tasks[l].node => k = l
              /\ Reevaluates(tasks) \/ Passes(tasks)
<1> USE DEF FlowInv
<1>1. /\ mail # <<>> /\ mail' = Tail(mail) /\ Head(mail).kind = "changed"
      /\ known' = [known EXCEPT ![Head(mail).node] = Head(mail).arg]
      /\ UNCHANGED <<value, conns, raw>>
  BY DEF Flow!HandleElementUpdate
<1>2. PICK m \in Call \cup Change : m = Head(mail)
  BY <1>1, HeadTailProperties DEF FlowTyped
<1>3. m = Line[1] /\ mail \in Seq(Call \cup Change) /\ 1 \in 1..Len(mail)
  <2>1. mail \in Seq(Call \cup Change)
    BY DEF FlowTyped
  <2>2. 1 \in 1..Len(mail) /\ Head(mail) = mail[1]
    BY <1>1, <2>1, HeadTailProperties, EmptySeq
  <2> QED BY <1>2, <2>1, <2>2, LineTyped
<1>4. m \in Change /\ m.node \in Flow!Node /\ m.arg \in Flow!Terms /\ m.kind = "changed"
  BY <1>1, <1>2, CallFields
<1>5. FlowTyped /\ conns \in Seq(Wiring)
  BY DEF FlowTyped
<1>a. SUFFICES \E tasks \in Seq(Call) :
              /\ requests' = requests \o tasks /\ inputs' = Flow!Noted(tasks)
              /\ \A k, l \in 1..Len(tasks) : tasks[k].node = tasks[l].node => k = l
              /\ Reevaluates(tasks) \/ Passes(tasks)
  BY <1>1, <1>2, <1>3, <1>4
<1> HIDE DEF FlowInv
<1>6. CASE m.node \in Transform
  <2>1. /\ requests' = IF inputs[m.node] = Null THEN requests
                       ELSE Append(requests, Flow!Task(m.node, inputs[m.node], <<>>))
        /\ inputs' = inputs
    BY <1>2, <1>6 DEF Flow!HandleElementUpdate
  <2>2. ASSUME NEW tasks \in Seq(Call), \A k, l \in 1..Len(tasks) : tasks[k].node = tasks[l].node => k = l,
               \A k \in 1..Len(tasks) : tasks[k].node \in Transform /\ tasks[k].arg = inputs[tasks[k].node]
        PROVE  inputs = Flow!Noted(tasks)
    <3>1. \A t \in Transform : Flow!Noted(tasks)[t] = inputs[t]
      BY <1>5, <2>2, NotedInputs
    <3>2. Flow!Noted(tasks) \in [Transform -> Flow!Terms \cup {Null}] /\ inputs \in [Transform -> Flow!Terms \cup {Null}]
      BY <1>5, <2>2, NotedInputs DEF FlowTyped
    <3> QED BY <3>1, <3>2
  <2>3. CASE inputs[m.node] = Null
    <3>1. <<>> \in Seq(Call) /\ Len(<<>>) = 0 /\ requests' = requests \o <<>>
      <4>1. requests \in Seq(Call)
        BY <1>5 DEF FlowTyped
      <4> QED BY <2>1, <2>3, <4>1, ConcatEmptySeq, NoTasks
    <3>2. PICK tasks \in Seq(Call) : tasks = <<>>
      BY <3>1
    <3>3. inputs = Flow!Noted(tasks)
      <4>1. \A k \in 1..Len(tasks) : FALSE
        BY <3>1, <3>2
      <4> QED BY <2>2, <4>1
    <3>4. Reevaluates(tasks)
      BY <1>3, <1>6, <2>1, <2>3, <3>2 DEF Reevaluates
    <3>5. \A k, l \in 1..Len(tasks) : tasks[k].node = tasks[l].node => k = l
      <4>1. \A k \in 1..Len(tasks) : FALSE
        BY <3>1, <3>2
      <4> QED BY <4>1
    <3>6. requests' = requests \o tasks /\ inputs' = Flow!Noted(tasks)
      BY <2>1, <3>1, <3>2, <3>3
    <3> QED BY <3>4, <3>5, <3>6
  <2>4. CASE inputs[m.node] # Null
    <3>1. PICK v \in Flow!Terms : v = inputs[m.node]
      BY <1>5, <1>6, <2>4 DEF FlowTyped
    <3>2. m.node \notin Color
      BY <1>6, Forest
    <3>3. PICK task \in Call : /\ task = FirstTask(m.node, v) /\ task.node = m.node /\ task.arg = v
      BY <1>4, <1>5, <1>6, <3>2, FreshTask
    <3>4. PICK tasks \in Seq(Call) : tasks = <<task>> /\ Len(tasks) = 1 /\ tasks[1] = task
      BY OneLong
    <3>5. requests' = requests \o tasks
      <4>1. requests' = Append(requests, task)
        BY <2>1, <2>4, <3>1, <3>3 DEF FirstTask
      <4>2. requests \in Seq(Call) /\ task \in Call
        BY <1>5 DEF FlowTyped
      <4> QED BY <3>4, <4>1, <4>2, AppendIsConcat
    <3>6. inputs = Flow!Noted(tasks)
      <4>1. \A k \in 1..Len(tasks) : k = 1 /\ tasks[k].node \in Transform /\ tasks[k].arg = inputs[tasks[k].node]
        BY <1>6, <3>1, <3>3, <3>4
      <4>2. \A k, l \in 1..Len(tasks) : tasks[k].node = tasks[l].node => k = l
        BY <4>1
      <4> QED BY <2>2, <4>1, <4>2
    <3>7. Reevaluates(tasks)
      BY <1>3, <1>6, <2>1, <2>4, <3>1, <3>3, <3>4 DEF Reevaluates
    <3>8. \A k, l \in 1..Len(tasks) : tasks[k].node = tasks[l].node => k = l
      BY <3>4
    <3> QED BY <2>1, <3>5, <3>6, <3>7, <3>8
  <2> QED BY <2>3, <2>4
<1>7. CASE m.node \notin Transform
  <2> DEFINE S == Flow!Onward(m.node, m.arg, 1)
             T(out) == [i \in DOMAIN out |-> Flow!Task(conns[out[i]][2], m.arg, <<>>)]
  <2>1. PICK out \in Flow!SetToSeqs(S) : requests' = requests \o T(out) /\ inputs' = Flow!Noted(T(out))
    BY <1>2, <1>7 DEF Flow!HandleElementUpdate, Flow!Propagate
  <2>2. /\ S \in SUBSET (1..Len(conns)) /\ Len(conns) \in Nat
        /\ \A j \in 1..Len(conns) : j \in S <=>
             conns[j][1] = m.node /\ (conns[j][2] \in Color => Flow!Accepted(conns[j][2], m.arg) # Null)
    <3>1. 1 \in Nat \ {0} /\ \A j \in 1..Len(conns) : j >= 1
      OBVIOUS
    <3> QED BY <1>5, <3>1, OnwardFrom, Connection
  <2> HIDE DEF S
  <2>3. /\ out \in Seq(S) /\ DOMAIN out = 1..Len(out) /\ Len(out) \in Nat
        /\ \A a, b \in 1..Len(out) : out[a] = out[b] => a = b
        /\ \A s \in S : \E a \in 1..Len(out) : out[a] = s
    <3>1. PICK n \in Nat : n = Len(conns)
      BY <2>2
    <3>2. PICK C \in SUBSET (1..n) : C = S
      BY <2>2, <3>1
    <3>3. out \in Flow!SetToSeqs(C)
      BY <2>1, <3>2
    <3>4. /\ out \in Seq(C) /\ DOMAIN out = 1..Len(out) /\ Len(out) \in Nat
          /\ \A a, b \in 1..Len(out) : out[a] = out[b] => a = b
          /\ \A s \in C : \E a \in 1..Len(out) : out[a] = s
      BY ONLY <3>3, Listed
    <3> QED BY ONLY <3>2, <3>4
  <2>4. ASSUME NEW a \in 1..Len(out)
        PROVE  /\ out[a] \in S /\ out[a] \in 1..Len(conns)
               /\ T(out)[a] = FirstTask(conns[out[a]][2], m.arg)
               /\ T(out)[a] \in Call /\ T(out)[a].node = conns[out[a]][2]
    <3>1. out[a] \in S /\ out[a] \in 1..Len(conns)
      BY <2>2, <2>3, ElementOfSeq
    <3>2. T(out)[a] = FirstTask(conns[out[a]][2], m.arg)
      BY <2>3 DEF FirstTask
    <3>3. PICK x \in Flow!Node : x = conns[out[a]][2]
      BY <1>5, <3>1, Connection
    <3>4. x \in Color => Flow!Accepted(x, m.arg) # Null
      BY <2>2, <3>1, <3>3
    <3> HIDE DEF T
    <3> QED BY <1>4, <1>5, <3>1, <3>2, <3>3, <3>4, FreshTask
  <2>5. DOMAIN T(out) = 1..Len(out)
    BY <2>3
  <2>6. PICK tasks \in Seq(Call) : tasks = T(out) /\ Len(tasks) = Len(out)
    <3>1. T(out) \in [1..Len(out) -> Call]
      BY <2>3, <2>4
    <3> HIDE DEF T
    <3> QED BY <2>3, <3>1, SeqDef
  <2> HIDE DEF T
  <2>7. ASSUME NEW k \in 1..Len(tasks), NEW l \in 1..Len(tasks), tasks[k].node = tasks[l].node PROVE k = l
    <3>1. conns[out[k]][2] = conns[out[l]][2] /\ out[k] \in 1..Len(conns) /\ out[l] \in 1..Len(conns)
      BY <2>4, <2>6, <2>7
    <3>2. out[k] = out[l]
      BY <1>5, <3>1, Distinct
    <3> QED BY <2>3, <2>6, <3>2
  <2>8. Passes(tasks)
    <3>1. m.node \in Plain
      BY <1>4, <1>7 DEF Flow!Node
    <3>2. ASSUME NEW k \in 1..Len(tasks)
          PROVE  \E i \in 1..Len(conns) :
                   /\ conns[i][1] = m.node /\ tasks[k] = FirstTask(conns[i][2], m.arg)
                   /\ conns[i][2] \in Color => Flow!Accepted(conns[i][2], m.arg) # Null
      BY <2>2, <2>4, <2>6
    <3>3. ASSUME NEW i \in 1..Len(conns), conns[i][1] = m.node
          PROVE  \/ conns[i][2] \in Color /\ Flow!Accepted(conns[i][2], m.arg) = Null
                 \/ \E k \in 1..Len(tasks) : tasks[k] = FirstTask(conns[i][2], m.arg)
      BY <2>2, <2>3, <2>4, <2>6, <3>3
    <3> QED BY <1>3, <3>1, <3>2, <3>3 DEF Passes, FirstDown
  <2> QED BY <2>1, <2>6, <2>7, <2>8
<1> QED BY <1>6, <1>7

\* An update evaluates its transform with the last input again, or starts a call down each
\* connection of its plain element.
LEMMA Updates ==
  ASSUME FlowInv, Flow!HandleElementUpdate,
         NEW tasks \in Seq(Call),
         requests' = requests \o tasks, inputs' = Flow!Noted(tasks),
         \A k, l \in 1..Len(tasks) : tasks[k].node = tasks[l].node => k = l,
         Reevaluates(tasks) \/ Passes(tasks)
  PROVE  /\ Spread(1, tasks) /\ mail' \in Seq(Call \cup Change)
         /\ \A k \in 1..Len(tasks) : \A t, i : ~Under(tasks[k], t, i)
         /\ Line[1].node \in Transform => inputs[Line[1].node] = Null \/ \E k \in 1..Len(tasks) : tasks[k].node = Line[1].node
         /\ \A i \in 1..Len(conns) : \A k \in 1..Len(tasks) :
              tasks[k].node = conns[i][2] /\ (Line[1].node \in Transform \/ conns[i][1] # Line[1].node) =>
                conns[i][2] \in Transform /\ tasks[k].arg = inputs[conns[i][2]]
<1> USE DEF FlowInv
<1>1. /\ mail # <<>> /\ mail' = Tail(mail) /\ Line[1].kind = "changed"
      /\ Line[1].node \in Flow!Node /\ Line[1].arg \in Flow!Terms /\ value' = value /\ conns' = conns
  BY UpdateTasks
<1>a. PICK p \in Flow!Node, v \in Flow!Terms : p = Line[1].node /\ v = Line[1].arg
  BY <1>1
<1>2. Grows(Line, Line', 1, tasks) /\ 1 \in 1..Len(Line) /\ mail' \in Seq(Call \cup Change)
  BY <1>1, LineTail
<1>3. FlowTyped /\ Placed(Line[1], conns, inputs)
  BY <1>2 DEF LinePlaced
<1> HIDE DEF FlowInv
<1>4. /\ conns' \in Seq(Wiring) /\ Len(conns) <= Len(conns') /\ \A k \in 1..Len(conns) : conns'[k] = conns[k]
  BY <1>1, <1>3, Connection DEF FlowTyped
<1>5. CASE Passes(tasks)
  <2>1. FirstDown(tasks, conns', p, v)
    BY <1>1, <1>a, <1>5 DEF Passes
  <2>2. /\ Spread(1, tasks) /\ \A k \in 1..Len(tasks) : \A t, i : ~Under(tasks[k], t, i)
        /\ \A k \in 1..Len(tasks) : \E i \in 1..Len(conns') : conns'[i][1] = p /\ conns'[i][2] = tasks[k].node
    <3>1. /\ FlowTyped /\ Grows(Line, Line', 1, tasks) /\ v \in Flow!Terms /\ value' = value
          /\ requests' = requests \o tasks /\ inputs' = Flow!Noted(tasks)
          /\ \A k, l \in 1..Len(tasks) : tasks[k].node = tasks[l].node => k = l
      BY <1>1, <1>2, <1>3
    <3>2. Spread(1, tasks)
      BY ONLY <1>4, <2>1, <3>1, FreshSpread
    <3>3. \A k \in 1..Len(tasks) : \A t, i : ~Under(tasks[k], t, i)
      BY ONLY <1>4, <2>1, <3>1, FreshSpread
    <3>4. \A k \in 1..Len(tasks) : \E i \in 1..Len(conns') : conns'[i][1] = p /\ conns'[i][2] = tasks[k].node
      <4>1. \A n : FirstTask(n, v).node = n
        BY DEF FirstTask, Flow!Task
      <4>2. SUFFICES ASSUME NEW k \in 1..Len(tasks)
                     PROVE  \E i \in 1..Len(conns') : conns'[i][1] = p /\ conns'[i][2] = tasks[k].node
        OBVIOUS
      <4>3. PICK i \in 1..Len(conns') : conns'[i][1] = p /\ tasks[k] = FirstTask(conns'[i][2], v)
        BY <2>1 DEF FirstDown
      <4>4. tasks[k].node = conns'[i][2]
        BY <4>1, <4>3
      <4> QED BY ONLY <4>3, <4>4
    <3> QED BY ONLY <3>2, <3>3, <3>4
  <2>3. p \in Plain /\ p \notin Transform
    BY <1>5, <1>a, Forest DEF Passes
  <2>4. ASSUME NEW i \in 1..Len(conns), NEW k \in 1..Len(tasks), tasks[k].node = conns[i][2], conns[i][1] # p
        PROVE  FALSE
    <3>1. PICK e \in 1..Len(conns) : conns[e][1] = p /\ conns[e][2] = tasks[k].node
      BY <1>1, <2>2
    <3> QED BY <1>3, <2>4, <3>1, Distinct
  <2> QED BY <1>2, <1>a, <2>2, <2>3, <2>4
<1>6. CASE Reevaluates(tasks)
  <2>1. p \in Transform /\ inputs' = inputs /\ p \notin Color
    BY <1>6, <1>a, Forest DEF Reevaluates
  <2>2. ASSUME NEW k \in 1..Len(tasks)
        PROVE  /\ tasks[k].code = Null /\ tasks[k].node = p /\ tasks[k].arg = inputs[p]
               /\ Placed(tasks[k], conns', inputs') /\ \A t, i : ~Under(tasks[k], t, i)
    <3>1. tasks = <<FirstTask(p, inputs[p])>> /\ inputs[p] # Null
      <4>1. CASE tasks = <<>>
        BY <2>2, <4>1, NoTasks
      <4> QED BY <1>6, <1>a, <4>1 DEF Reevaluates
    <3>2. PICK w \in Flow!Terms : w = inputs[p]
      BY <1>3, <2>1, <3>1 DEF FlowTyped
    <3>3. tasks[k] = FirstTask(p, w)
      BY <3>1, <3>2
    <3>4. /\ tasks[k].code = Null /\ tasks[k].node = p /\ tasks[k].arg = w
          /\ \A t, i : ~Under(tasks[k], t, i)
          /\ \A cs, in : /\ \E e \in 1..Len(cs) : p \in {cs[e][1], cs[e][2]}
                         /\ p \in Transform => in[p] # Null
                         => Placed(tasks[k], cs, in)
      BY <1>1, <1>3, <2>1, <3>3, FreshTask
    <3>5. \E e \in 1..Len(conns') : p \in {conns'[e][1], conns'[e][2]}
      BY <1>1, <1>3, <1>a DEF Placed
    <3>6. Placed(tasks[k], conns', inputs')
      BY <2>1, <3>1, <3>4, <3>5
    <3> QED BY <3>2, <3>4, <3>6
  <2>3. Spread(1, tasks)
    BY <1>1, <1>2, <1>4, <2>2 DEF Spread
  <2>4. inputs[p] = Null \/ \E k \in 1..Len(tasks) : tasks[k].node = p
    <3>1. CASE tasks = <<>>
      <4>1. inputs[p] = Null \/ tasks # <<>>
        BY <1>6, <1>a, EmptySeq DEF Reevaluates
      <4> QED BY <3>1, <4>1
    <3>2. CASE tasks # <<>>
      <4>1. 1 \in 1..Len(tasks)
        BY <3>2, EmptySeq
      <4> QED BY <2>2, <4>1
    <3> QED BY <3>1, <3>2
  <2> QED BY <1>2, <1>a, <2>1, <2>2, <2>3, <2>4
<1> QED BY <1>5, <1>6

LEMMA UpdateKeeps == ASSUME FlowInv, Flow!HandleElementUpdate PROVE FlowInv'
<1>1. /\ mail # <<>> /\ mail' = Tail(mail) /\ Line[1].kind = "changed"
      /\ Line[1].node \in Flow!Node /\ Line[1].arg \in Flow!Terms
      /\ known' = [known EXCEPT ![Line[1].node] = Line[1].arg]
      /\ UNCHANGED <<value, conns, raw>>
  BY UpdateTasks
<1>2. PICK tasks \in Seq(Call) :
        /\ requests' = requests \o tasks /\ inputs' = Flow!Noted(tasks)
        /\ \A k, l \in 1..Len(tasks) : tasks[k].node = tasks[l].node => k = l
        /\ Reevaluates(tasks) \/ Passes(tasks)
  BY UpdateTasks
<1>3. PICK p \in Flow!Node, v \in Flow!Terms : p = Line[1].node /\ v = Line[1].arg
  BY <1>1
<1>4. /\ Spread(1, tasks) /\ mail' \in Seq(Call \cup Change)
      /\ \A k \in 1..Len(tasks) : \A t, i : ~Under(tasks[k], t, i)
      /\ p \in Transform => inputs[p] = Null \/ \E k \in 1..Len(tasks) : tasks[k].node = p
      /\ \A i \in 1..Len(conns) : \A k \in 1..Len(tasks) :
           tasks[k].node = conns[i][2] /\ (p \in Transform \/ conns[i][1] # p) =>
             conns[i][2] \in Transform /\ tasks[k].arg = inputs[conns[i][2]]
  <2>1. FlowInv /\ Flow!HandleElementUpdate
    OBVIOUS
  <2>2. Spread(1, tasks) /\ mail' \in Seq(Call \cup Change)
    BY ONLY <1>2, <2>1, Updates
  <2>3. \A k \in 1..Len(tasks) : \A t, i : ~Under(tasks[k], t, i)
    BY ONLY <1>2, <2>1, Updates
  <2>4. Line[1].node \in Transform =>
          inputs[Line[1].node] = Null \/ \E k \in 1..Len(tasks) : tasks[k].node = Line[1].node
    BY ONLY <1>2, <2>1, Updates
  <2>5. \A i \in 1..Len(conns) : \A k \in 1..Len(tasks) :
          tasks[k].node = conns[i][2] /\ (Line[1].node \in Transform \/ conns[i][1] # Line[1].node) =>
            conns[i][2] \in Transform /\ tasks[k].arg = inputs[conns[i][2]]
    BY ONLY <1>2, <2>1, Updates
  <2> QED BY ONLY <1>3, <2>2, <2>3, <2>4, <2>5
<1>5. FlowTyped /\ conns \in Seq(Wiring)
  BY DEF FlowInv, FlowTyped
<1>6. FlowTyped'
  <2>1. /\ known' \in [Flow!Node -> Flow!Terms \cup {Null}]
        /\ \A i, j \in 1..Len(conns') : conns'[i] = conns'[j] => i = j
    BY <1>1, <1>5 DEF FlowTyped
  <2> QED BY <1>1, <1>4, <1>5, <2>1, SpreadTyped
<1>7. LinePlaced'
  BY <1>4, SpreadPlaced
<1>8. ASSUME NEW t \in Transform, NoNews(t)' PROVE NoNews(t) \/ t = p
  <2>1. \A l \in 1..Len(Line) : l > 1 => \E k \in 1..Len(Line') : Line'[k] = Line[l]
    <3>1. Gained(1, tasks)
      BY ONLY <1>4, <1>5, LineGrows
    <3> QED BY ONLY <3>1 DEF Gained
  <2>2. SUFFICES ASSUME NEW l \in 1..Len(Line), Line[l].kind = "changed", Line[l].node = t PROVE t = p
    BY DEF NoNews
  <2>3. ~(l > 1)
    BY <1>8, <2>1, <2>2 DEF NoNews
  <2>4. l = 1
    BY <2>3
  <2> QED BY <1>3, <2>2, <2>4
<1>9. ASSUME NEW t \in Transform, NoNews(t)' PROVE LatestAsks(Line', t, inputs'[t], value'[t])
  <2>1. NoNews(t) \/ inputs[t] = Null \/ \E k \in 1..Len(tasks) : tasks[k].node = t
    BY <1>4, <1>8, <1>9
  <2> QED BY <1>4, <2>1, SpreadAsks
<1>10. ASSUME NEW i \in 1..Len(conns) PROVE Conveyed(i)'
  <2>1. PICK x \in Flow!Node, s \in Flow!Node : x = conns[i][2] /\ s = conns[i][1]
    BY <1>5, Connection
  <2>2. CASE s \in Plain /\ s = p
    <3>1. known'[s] = v
      BY <1>1, <1>3, <1>5, <2>1, <2>2 DEF FlowTyped
    <3>2. Passes(tasks) /\ x \in Flow!Node
      BY <1>2, <1>3, <2>2, Forest DEF Reevaluates
    <3>3. CASE x \in Color /\ Flow!Accepted(x, v) = Null
      <4>1. x \notin Transform
        BY <3>3, Forest
      <4>2. Written(x, v)'
        BY <3>3, <4>1 DEF Written
      <4> QED BY <1>1, <2>1, <2>2, <3>1, <4>2 DEF Conveyed, Written
    <3>4. ASSUME NEW k \in 1..Len(tasks), tasks[k] = FirstTask(x, v) PROVE Conveyed(i)'
      <4>1. PICK rest : rest = <<>>
        OBVIOUS
      <4>2. tasks[k] = Flow!Task(x, v, rest)
        BY <3>4, <4>1 DEF FirstTask
      <4>3. Written(x, v)'
        BY <1>4, <1>5, <4>2, WrittenNow
      <4> QED BY <1>1, <2>1, <2>2, <3>1, <4>3 DEF Conveyed, Written
    <3> QED BY <1>3, <2>1, <2>2, <3>2, <3>3, <3>4 DEF Passes
  <2>3. CASE s \in Plain /\ s # p
    <3>1. known'[s] = known[s]
      BY <1>1, <1>3, <1>5, <2>1, <2>3 DEF FlowTyped
    <3>2. SUFFICES ASSUME known[s] # Null PROVE Written(x, known[s])'
      <4>1. known'[conns'[i][1]] = known[s] /\ conns'[i][1] = s /\ conns'[i][2] = x
        BY <1>1, <2>1, <3>1
      <4> QED BY <2>3, <3>1, <4>1 DEF Conveyed
    <3>3. PICK w \in {known[s]} : TRUE
      OBVIOUS
    <3>4. Written(x, w)
      BY <2>1, <2>3, <3>2, <3>3 DEF FlowInv, Conveyed
    <3>5. \A k \in 1..Len(tasks) : tasks[k].node = x => x \in Transform /\ tasks[k].arg = inputs[x]
      BY <1>4, <2>1, <2>3
    <3>6. Written(x, w)'
      BY <1>4, <1>5, <3>4, <3>5, WrittenStays
    <3> QED BY <3>1, <3>3, <3>6
  <2>4. CASE s \in Transform
    <3>1. SUFFICES ASSUME Carries(conns[i][1], i)' PROVE Borne(conns[i][1], i)'
      BY <1>1, <2>1, <2>4, Forest DEF Conveyed
    <3>2. NoNews(s)' /\ inputs'[s] # Null
      BY <1>1, <2>1, <3>1 DEF Carries, NoNews
    <3>3. inputs[s] = Null => \E k \in 1..Len(tasks) : tasks[k].node = s
      BY <1>4, <1>5, <2>4, <3>2, SpreadInputs
    <3>4. NoNews(s) \/ \E k \in 1..Len(tasks) : tasks[k].node = s
      BY <1>4, <1>8, <2>4, <3>2, <3>3
    <3>5. \A k \in 1..Len(tasks) : tasks[k].node = x => x \in Transform /\ tasks[k].arg = inputs[x]
      BY <1>4, <2>1, <2>4
    <3>6. ~Asks(Line[1], conns[i][1]) /\ ~Under(Line[1], conns[i][1], i)
      BY <1>1 DEF Asks, Under
    <3>7. /\ conns[i][1] \in Transform
          /\ conns[i] \in raw => conns[i] \in raw'
          /\ NoNews(conns[i][1]) \/ \E k \in 1..Len(tasks) : tasks[k].node = conns[i][1]
          /\ \A k \in 1..Len(tasks) : tasks[k].node = conns[i][2] =>
               conns[i][2] \in Transform /\ tasks[k].arg = inputs[conns[i][2]]
          /\ \A k \in 1..Len(tasks) : ~Under(tasks[k], conns[i][1], i)
      BY <1>1, <1>4, <2>1, <2>4, <3>4, <3>5
    <3> QED BY <1>4, <3>1, <3>6, <3>7, StaysBorne
  <2> QED BY <2>1, <2>2, <2>3, <2>4 DEF Flow!Node
<1> QED BY <1>1, <1>6, <1>7, <1>9, <1>10 DEF FlowInv

----------------------------------------------------------------------------
\* A connection is made: what its port shows is sent, unless it is nothing that can be sent.
LEMMA NotThere ==
  ASSUME NEW S, NEW s \in Seq(S), NEW c, c \notin Flow!Range(s)
  PROVE  \A k \in 1..Len(s) : s[k] # c
BY LenProperties DEF Flow!Range

LEMMA ConnectTasks ==
  ASSUME FlowInv, NEW c \in Wiring, Flow!Connect(c)
  PROVE  \E tasks \in Seq(Call), v \in Flow!Terms :
           /\ requests' = requests \o tasks /\ inputs' = Flow!Noted(tasks)
           /\ \A k \in 1..Len(tasks) :
                k = 1 /\ tasks[k] = FirstTask(c[2], v) /\ (c[2] \in Color => Flow!Accepted(c[2], v) # Null)
           /\ \/ known[c[1]] = Null \/ (c[2] \in Color /\ Flow!Accepted(c[2], known[c[1]]) = Null)
              \/ known[c[1]] = v /\ 1 \in 1..Len(tasks)
<1>1. FlowTyped /\ c[1] \in Flow!Node /\ c[2] \in Flow!Node
  BY Forest DEF FlowInv
<1>2. CASE known[c[1]] = Null \/ (c[2] \in Color /\ Flow!Accepted(c[2], known[c[1]]) = Null)
  <2>1. requests' = requests /\ inputs' = inputs
    BY <1>2 DEF Flow!Connect
  <2>2. PICK tasks \in Seq(Call) : tasks = <<>> /\ Len(tasks) = 0
    BY NoTasks
  <2>3. requests' = requests \o tasks
    <3>1. requests \in Seq(Call)
      BY <1>1 DEF FlowTyped
    <3> QED BY <2>1, <2>2, <3>1, ConcatEmptySeq
  <2>4. inputs' = Flow!Noted(tasks)
    <3>0. \A k \in 1..Len(tasks) : FALSE
      BY <2>2
    <3>1. \A t \in Transform : Flow!Noted(tasks)[t] = inputs[t]
      BY <1>1, <3>0, NotedInputs
    <3>2. Flow!Noted(tasks) \in [Transform -> Flow!Terms \cup {Null}] /\ inputs \in [Transform -> Flow!Terms \cup {Null}]
      BY <1>1, <3>0, NotedInputs DEF FlowTyped
    <3> QED BY <2>1, <3>1, <3>2
  <2>5. PICK v \in Flow!Terms : TRUE
    BY Forest
  <2>6. \A k \in 1..Len(tasks) : FALSE
    BY <2>2
  <2> QED BY <1>2, <2>3, <2>4, <2>5, <2>6
<1>3. CASE ~(known[c[1]] = Null \/ (c[2] \in Color /\ Flow!Accepted(c[2], known[c[1]]) = Null))
  <2>1. PICK v \in Flow!Terms, x \in Flow!Node : v = known[c[1]] /\ x = c[2]
    BY <1>1, <1>3 DEF FlowTyped
  <2>2. /\ requests' = requests \o <<FirstTask(x, v)>> /\ inputs' = Flow!Noted(<<FirstTask(x, v)>>)
    BY <1>3, <2>1 DEF Flow!Connect, Flow!Propagate, FirstTask
  <2>3. x \in Color => Flow!Accepted(x, v) # Null
    BY <1>3, <2>1
  <2>4. PICK task \in Call : task = FirstTask(x, v)
    BY <1>1, <2>3, FreshTask
  <2>5. PICK tasks \in Seq(Call) : tasks = <<task>> /\ Len(tasks) = 1 /\ tasks[1] = task
    BY OneLong
  <2>6. requests' = requests \o tasks /\ inputs' = Flow!Noted(tasks)
    BY <2>2, <2>4, <2>5
  <2>7. 1 \in 1..Len(tasks) /\ \A k \in 1..Len(tasks) : k = 1
    BY <2>5
  <2> QED BY <2>1, <2>3, <2>4, <2>5, <2>6, <2>7
<1> QED BY <1>2, <1>3

LEMMA ConnectKeeps == ASSUME FlowInv, NEW c \in Wiring, Flow!Connect(c) PROVE FlowInv'
<1>1. /\ c \notin Flow!Range(conns) /\ conns' = Append(conns, c)
      /\ raw' = IF c[1] \in Transform THEN raw \cup {c} ELSE raw
      /\ value' = value /\ known' = known /\ mail' = mail
  BY DEF Flow!Connect
<1>2. PICK tasks \in Seq(Call), v \in Flow!Terms :
        /\ requests' = requests \o tasks /\ inputs' = Flow!Noted(tasks)
        /\ \A k \in 1..Len(tasks) :
             k = 1 /\ tasks[k] = FirstTask(c[2], v) /\ (c[2] \in Color => Flow!Accepted(c[2], v) # Null)
        /\ \/ known[c[1]] = Null \/ (c[2] \in Color /\ Flow!Accepted(c[2], known[c[1]]) = Null)
           \/ known[c[1]] = v /\ 1 \in 1..Len(tasks)
  BY ConnectTasks
<1>3. /\ FlowTyped /\ conns \in Seq(Wiring) /\ Len(conns) \in Nat /\ mail \in Seq(Call \cup Change)
      /\ c[1] \in Flow!Node /\ c[2] \in Flow!Node
  BY Forest, Connection DEF FlowInv, FlowTyped
<1>4. /\ conns' \in Seq(Wiring) /\ Len(conns') = Len(conns) + 1 /\ Len(conns) <= Len(conns')
      /\ \A k \in 1..Len(conns) : conns'[k] = conns[k]
      /\ conns'[Len(conns) + 1] = c /\ Len(conns) + 1 \in 1..Len(conns')
      /\ \A k \in 1..Len(conns') : k \in 1..Len(conns) \/ k = Len(conns) + 1
  BY <1>1, <1>3, AppendProperties
<1>5. \A k \in 1..Len(conns) : conns[k] # c /\ conns[k][2] # c[2]
  <2>1. \A k \in 1..Len(conns) : conns[k] # c
    BY <1>1, <1>3, NotThere
  <2> QED BY <1>3, <2>1, Connection, Forest
<1>6. \A i, j \in 1..Len(conns') : conns'[i] = conns'[j] => i = j
  <2>1. \A i, j \in 1..Len(conns) : conns[i] = conns[j] => i = j
    BY <1>3 DEF FlowTyped
  <2>2. ASSUME NEW i \in 1..Len(conns'), NEW j \in 1..Len(conns'), conns'[i] = conns'[j] PROVE i = j
    <3>1. (i \in 1..Len(conns) \/ i = Len(conns) + 1) /\ (j \in 1..Len(conns) \/ j = Len(conns) + 1)
      BY <1>4
    <3> QED BY ONLY <1>4, <1>5, <2>1, <2>2, <3>1
  <2> QED BY <2>2
<1>7. \A k \in 1..Len(tasks) : tasks[k].node = c[2] /\ k = 1
  <2>1. FirstTask(c[2], v).node = c[2]
    BY DEF FirstTask, Flow!Task
  <2> QED BY <1>2, <2>1
<1>8. /\ Spread(0, tasks) /\ mail' \in Seq(Call \cup Change)
      /\ \A k \in 1..Len(tasks) : \A t, i : ~Under(tasks[k], t, i)
  <2>1. Grows(Line, Line', 0, tasks)
    BY <1>1, <1>2, <1>3, LineStands
  <2>2. \A k, l \in 1..Len(tasks) : tasks[k].node = tasks[l].node => k = l
    BY <1>7
  <2>3. PICK p : p = c[1]
    OBVIOUS
  <2>4. FirstDown(tasks, conns', p, v)
    BY <1>2, <1>4, <2>3 DEF FirstDown
  <2>5. /\ FlowTyped /\ value' = value /\ requests' = requests \o tasks /\ inputs' = Flow!Noted(tasks)
        /\ conns' \in Seq(Wiring) /\ Len(conns) <= Len(conns') /\ \A k \in 1..Len(conns) : conns'[k] = conns[k]
    BY <1>1, <1>2, <1>3, <1>4
  <2>6. Spread(0, tasks)
    BY ONLY <2>1, <2>2, <2>4, <2>5, FreshSpread
  <2>7. \A k \in 1..Len(tasks) : \A t, i : ~Under(tasks[k], t, i)
    BY ONLY <2>1, <2>2, <2>4, <2>5, FreshSpread
  <2> QED BY <1>1, <1>3, <2>6, <2>7
<1>9. FlowTyped'
  <2>1. known' \in [Flow!Node -> Flow!Terms \cup {Null}]
    BY <1>1, <1>3 DEF FlowTyped
  <2> QED BY <1>1, <1>3, <1>6, <1>8, <2>1, SpreadTyped
<1>10. LinePlaced'
  BY <1>8, SpreadPlaced
<1>11. ASSUME NEW t \in Transform, NoNews(t)' PROVE NoNews(t)
  <2>1. \A l \in 1..Len(Line) : l > 0 => \E k \in 1..Len(Line') : Line'[k] = Line[l]
    <3>1. Gained(0, tasks)
      BY ONLY <1>3, <1>8, LineGrows
    <3> QED BY ONLY <3>1 DEF Gained
  <2>2. \A l \in 1..Len(Line) : l > 0
    OBVIOUS
  <2> QED BY <1>11, <2>1, <2>2 DEF NoNews
<1>12. ASSUME NEW t \in Transform, NoNews(t)' PROVE LatestAsks(Line', t, inputs'[t], value'[t])
  BY <1>8, <1>11, <1>12, SpreadAsks
<1>13. ASSUME NEW i \in 1..Len(conns) PROVE Conveyed(i)'
  <2>1. PICK x \in Flow!Node, s \in Flow!Node : x = conns[i][2] /\ s = conns[i][1]
    BY <1>3, Connection
  <2>2. conns'[i][1] = s /\ conns'[i][2] = x /\ conns'[i] = conns[i]
    BY <1>4, <2>1
  <2>3. \A k \in 1..Len(tasks) : tasks[k].node # x
    BY <1>5, <1>7, <2>1
  <2>4. CASE s \in Plain
    <3>1. SUFFICES ASSUME known[s] # Null PROVE Written(x, known[s])'
      BY <1>1, <2>2, <2>4 DEF Conveyed
    <3>2. PICK w \in {known[s]} : TRUE
      OBVIOUS
    <3>3. Written(x, w)
      BY <2>1, <2>4, <3>1, <3>2 DEF FlowInv, Conveyed
    <3>4. Written(x, w)'
      BY <1>3, <1>8, <2>3, <3>3, WrittenStays
    <3> QED BY <1>1, <3>2, <3>4
  <2>5. CASE s \in Transform
    <3>1. SUFFICES ASSUME Carries(conns[i][1], i)' PROVE Borne(conns[i][1], i)'
      BY <2>1, <2>2, <2>5, Forest DEF Conveyed
    <3>2. NoNews(s)'
      BY <2>1, <2>2, <3>1 DEF Carries, NoNews
    <3>3. NoNews(s)
      BY <1>11, <2>5, <3>2
    <3>4. /\ conns[i][1] \in Transform /\ NoNews(conns[i][1])
          /\ conns[i] \in raw => conns[i] \in raw'
          /\ \A k \in 1..Len(tasks) : tasks[k].node # conns[i][2]
          /\ \A k \in 1..Len(tasks) : ~Under(tasks[k], conns[i][1], i)
      BY <1>1, <1>8, <2>1, <2>3, <2>5, <3>3
    <3> QED BY <1>8, <3>1, <3>4, StaysBorne
  <2> QED BY <2>4, <2>5 DEF Flow!Node
<1>14. ASSUME NEW e \in 1..Len(conns'), e = Len(conns) + 1 PROVE Conveyed(e)'
  <2>2. conns'[e] = c
    BY <1>4, <1>14
  <2>3. CASE c[1] \in Plain
    <3>1. SUFFICES ASSUME known[c[1]] # Null PROVE Written(c[2], known[c[1]])'
      <4>1. Conveyed(e)' = (known'[c[1]] # Null => Written(c[2], known[c[1]])')
        BY <1>1, <2>2, <2>3 DEF Conveyed, Written
      <4> QED BY <1>1, <4>1
    <3>2. PICK x \in Flow!Node : x = c[2]
      BY <1>3
    <3>3. CASE x \in Color /\ Flow!Accepted(x, known[c[1]]) = Null
      <4>1. x \notin Transform
        BY <3>3, Forest
      <4>2. PICK w \in {known[c[1]]} : TRUE
        OBVIOUS
      <4>3. Written(x, w)'
        BY <3>3, <4>1, <4>2 DEF Written
      <4> QED BY <1>1, <3>2, <4>2, <4>3
    <3>4. CASE known[c[1]] = v /\ 1 \in 1..Len(tasks)
      <4>1. PICK rest : rest = <<>>
        OBVIOUS
      <4>2. tasks[1] = Flow!Task(x, v, rest)
        BY <1>2, <3>2, <3>4, <4>1 DEF FirstTask
      <4>3. Written(x, v)'
        BY <1>3, <1>8, <3>4, <4>2, WrittenNow
      <4> QED BY <1>1, <3>2, <3>4, <4>3
    <3> QED BY <1>2, <3>1, <3>2, <3>3, <3>4
  <2>4. CASE c[1] \notin Plain
    <3>1. c[1] \in Transform /\ c \in raw'
      BY <1>1, <1>3, <2>4 DEF Flow!Node
    <3>2. ~Carries(conns[e][1], e)'
      BY <2>2, <3>1 DEF Carries
    <3> QED BY <2>2, <2>4, <3>2 DEF Conveyed
  <2> QED BY <2>3, <2>4
<1>15. \A i \in 1..Len(conns') : Conveyed(i)'
  BY <1>4, <1>13, <1>14
<1> QED BY <1>9, <1>10, <1>12, <1>15 DEF FlowInv

----------------------------------------------------------------------------
\* The server and the user move no call past another.
Endpoint(n) == \E i \in 1..Len(conns) : n \in {conns[i][1], conns[i][2]}

LEMMA CarriedPlaced ==
  ASSUME FlowInv, NEW f, NEW val, Carried(Line, Line', f, val), conns' = conns, inputs' = inputs,
         \A m \in 1..Len(Line') : Line'[m].kind = "changed" => Endpoint(Line'[m].node)
  PROVE  LinePlaced'
<1>1. ASSUME NEW m \in 1..Len(Line') PROVE Placed(Line'[m], conns, inputs)
  <2>1. CASE Line'[m].kind = "changed"
    BY <2>1 DEF Placed, Endpoint
  <2>2. CASE Line'[m].kind # "changed"
    <3>1. PICK k \in 1..Len(Line) : m = f[k]
      BY <2>2 DEF Carried
    <3>2. PICK a, b : a = Line[k] /\ b = Line'[m]
      OBVIOUS
    <3>3. b.kind = a.kind /\ b.node = a.node /\ (a.kind # "changed" => b.rest = a.rest)
      BY <3>1, <3>2 DEF Carried
    <3>4. Placed(a, conns, inputs)
      BY <3>2 DEF FlowInv, LinePlaced
    <3>5. Placed(b, conns, inputs)
      BY <2>2, <3>2, <3>3, <3>4 DEF Placed, Chained
    <3> QED BY <3>2, <3>5
  <2> QED BY <2>1, <2>2
<1> QED BY <1>1 DEF LinePlaced

LEMMA CarriedNews ==
  ASSUME NEW f, NEW val, Carried(Line, Line', f, val), NEW t
  PROVE  /\ NoNews(t)' => NoNews(t)
         /\ (\A k \in 1..Len(Line') : ~Asks(Line'[k], t)) => \A k \in 1..Len(Line) : ~Asks(Line[k], t)
<1>1. \A k \in 1..Len(Line) : f[k] \in 1..Len(Line') /\ Line'[f[k]].kind = Line[k].kind /\ Line'[f[k]].node = Line[k].node
  BY DEF Carried
<1> QED BY <1>1 DEF NoNews, Asks

LEMMA CarriedKeeps ==
  ASSUME FlowInv, FlowTyped', conns' = conns, raw' = raw, inputs' = inputs,
         NEW f, NEW val, val = value', Carried(Line, Line', f, val),
         \A t \in Transform : NoNews(t)' /\ Endpoint(t) => value'[t] = value[t],
         \A i \in 1..Len(conns) : conns[i][1] \in Plain => known'[conns[i][1]] = known[conns[i][1]],
         \A x \in Flow!Node : (\E i \in 1..Len(conns) : conns[i][2] = x) => \A v : Written(x, v) => Written(x, v)',
         \A m \in 1..Len(Line') : Line'[m].kind = "changed" => Endpoint(Line'[m].node)
  PROVE  FlowInv'
<1>1. FlowTyped /\ LinePlaced /\ conns \in Seq(Wiring)
  BY DEF FlowInv, FlowTyped
<1>2. LinePlaced'
  BY CarriedPlaced
<1>3. Line \in Seq(Call \cup Change) /\ Line' \in Seq(Call \cup Change)
  <2>1. Line \in Seq(Call \cup Change)
    BY <1>1, LineTyped
  <2>2. mail' \in Seq(Call \cup Change) /\ requests' \in Seq(Call \cup Change)
    BY SeqMonotonic DEF FlowTyped
  <2>3. mail' \o requests' \in Seq(Call \cup Change)
    BY <2>2, ConcatProperties
  <2> QED BY <2>1, <2>3 DEF Line
<1>4. ASSUME NEW t \in Transform, NoNews(t)' PROVE LatestAsks(Line', t, inputs'[t], value'[t])
  <2>1. PICK in, L, M : in = inputs[t] /\ L = Line /\ M = Line'
    OBVIOUS
  <2>2. LatestAsks(Line, t, in, val[t])
    <3>1. CASE Endpoint(t)
      <4>1. NoNews(t)
        BY <1>4, CarriedNews
      <4>2. val[t] = value[t]
        BY <1>4, <3>1
      <4> QED BY <2>1, <4>1, <4>2 DEF FlowInv
    <3>2. CASE ~Endpoint(t)
      <4>1. \A k \in 1..Len(Line) : ~Asks(Line[k], t)
        BY <1>1, <3>2 DEF LinePlaced, Placed, Endpoint, Asks
      <4> QED BY <4>1 DEF LatestAsks
    <3> QED BY <3>1, <3>2
  <2>3. L \in Seq(Call \cup Change) /\ M \in Seq(Call \cup Change) /\ Carried(L, M, f, val) /\ LatestAsks(L, t, in, val[t])
    BY <1>3, <2>1, <2>2
  <2>4. LatestAsks(M, t, in, val[t])
    BY ONLY <2>3, CarriedAsks
  <2> QED BY <2>1, <2>4
<1>5. ASSUME NEW i \in 1..Len(conns) PROVE Conveyed(i)'
  <2>1. PICK x \in Flow!Node, s \in Flow!Node : x = conns[i][2] /\ s = conns[i][1]
    BY <1>1, Connection
  <2>2. conns'[i][1] = s /\ conns'[i][2] = x /\ conns'[i] = conns[i]
    BY <2>1
  <2>3. \A v : Written(x, v) => Written(x, v)'
    BY <2>1
  <2>4. CASE s \in Plain
    <3>1. known'[s] = known[s]
      BY <2>1, <2>4
    <3>2. SUFFICES ASSUME known[s] # Null PROVE Written(x, known[s])'
      BY <2>2, <2>4, <3>1 DEF Conveyed
    <3>3. PICK w \in {known[s]} : TRUE
      OBVIOUS
    <3>4. Written(x, w)
      BY <2>1, <2>4, <3>2, <3>3 DEF FlowInv, Conveyed
    <3>5. Written(x, w)'
      BY <2>3, <3>4
    <3> QED BY <3>1, <3>3, <3>5
  <2>5. CASE s \in Transform
    <3>1. SUFFICES ASSUME Carries(s, i)' PROVE Borne(s, i)'
      BY <2>2, <2>5, Forest DEF Conveyed
    <3>2. NoNews(s)' /\ \A k \in 1..Len(Line') : ~Asks(Line'[k], s)
      BY <3>1 DEF Carries, NoNews
    <3>3. value'[s] = value[s]
      BY <2>1, <2>5, <3>2 DEF Endpoint
    <3>4. Flow!InStep(i)
      <4>1. Flow!InStep(i)'
        BY <3>1 DEF Carries
      <4> QED BY <4>1 DEF Flow!InStep, Flow!Brief
    <3>5. Carries(s, i)
      <4>1. NoNews(s) /\ \A k \in 1..Len(Line) : ~Asks(Line[k], s)
        BY <3>2, CarriedNews
      <4> QED BY <2>2, <3>1, <3>3, <3>4, <4>1 DEF Carries
    <3>6. Borne(s, i)
      BY <2>1, <2>5, <3>5, Forest DEF FlowInv, Conveyed
    <3>7. PICK w, L, M : w = Flow!Output(value[s], inputs[s]) /\ L = Line /\ M = Line'
      OBVIOUS
    <3>8. w = Flow!Output(value'[s], inputs'[s])
      BY <3>3, <3>7
    <3>9. /\ NewestBears(L, s, i, w) => NewestBears(M, s, i, w)
          /\ (\A k \in 1..Len(L) : ~Under(L[k], s, i)) => \A m \in 1..Len(M) : ~Under(M[m], s, i)
      <4>1. L \in Seq(Call \cup Change) /\ M \in Seq(Call \cup Change) /\ Carried(L, M, f, val)
        BY <1>3, <3>7
      <4>2. NewestBears(L, s, i, w) => NewestBears(M, s, i, w)
        BY ONLY <4>1, CarriedBears
      <4>3. (\A k \in 1..Len(L) : ~Under(L[k], s, i)) => \A m \in 1..Len(M) : ~Under(M[m], s, i)
        BY ONLY <4>1, CarriedBears
      <4> QED BY ONLY <4>2, <4>3
    <3>10. NewestBears(L, s, i, w) \/ (Written(x, w) /\ \A k \in 1..Len(L) : ~Under(L[k], s, i))
      BY <2>1, <3>6, <3>7 DEF Borne
    <3>11. NewestBears(M, s, i, w) \/ (Written(x, w)' /\ \A m \in 1..Len(M) : ~Under(M[m], s, i))
      BY <2>3, <3>9, <3>10
    <3> QED BY <2>2, <3>7, <3>8, <3>11 DEF Borne
  <2> QED BY <2>4, <2>5 DEF Flow!Node
<1> QED BY <1>2, <1>4, <1>5 DEF FlowInv

\* The server answers the next request, after the change it makes is announced.
LEMMA Served ==
  ASSUME FlowInv, Flow!Serve
  PROVE  \E r \in Call, answer \in Call, ev \in Seq(Change) :
           /\ r = requests[1] /\ 1 \in 1..Len(requests) /\ r.code = Null /\ Placed(r, conns, inputs)
           /\ requests' = Tail(requests) /\ UNCHANGED <<known, inputs, conns, raw>>
           /\ mail' = mail \o ev \o <<answer>>
           /\ value' = IF r.kind = "set" THEN [value EXCEPT ![r.node] = r.arg] ELSE value
           /\ \A k \in 1..Len(ev) : ev[k].node = r.node
           /\ answer.kind = r.kind /\ answer.node = r.node /\ answer.arg = r.arg /\ answer.rest = r.rest
           /\ r.kind = "get" => answer.code = value'[r.node] /\ answer.code # Null
           /\ r.kind = "set" => answer = r /\ r.node \notin Transform
<1>1. FlowTyped /\ requests # <<>> /\ requests \in Seq(Call) /\ 1 \in 1..Len(requests) /\ Head(requests) = requests[1]
  <2>1. FlowTyped /\ requests # <<>> /\ requests \in Seq(Call)
    BY DEF FlowInv, FlowTyped, Flow!Serve
  <2> QED BY <2>1, EmptySeq, HeadTailProperties
<1>2. PICK r \in Call : r = requests[1] /\ r.code = Null
  BY <1>1, ElementOfSeq DEF FlowTyped
<1>3. r.kind \in {"get", "set"} /\ r.node \in Flow!Node /\ r.arg \in Flow!Terms
  BY CallFields
<1>4. Placed(r, conns, inputs)
  <2>1. Line[Len(mail) + 1] = r /\ Len(mail) + 1 \in 1..Len(Line)
    BY <1>1, <1>2, LineTyped
  <2> QED BY <2>1 DEF FlowInv, LinePlaced
<1>5. r.kind = "get" <=> r.node \in Transform
  BY <1>3, <1>4 DEF Placed
<1> DEFINE writes == r.kind = "set" /\ value[r.node] # r.arg
           event == [kind |-> "changed", node |-> r.node, arg |-> r.arg]
           reply == IF r.kind = "get" THEN [r EXCEPT !.code = value[r.node]] ELSE r
           told == IF writes /\ r.node \in Flow!Ported THEN <<event>> ELSE <<>>
<1>6. /\ requests' = Tail(requests) /\ UNCHANGED <<known, inputs, conns, raw>>
      /\ mail' = mail \o told \o <<reply>>
      /\ value' = IF writes THEN [value EXCEPT ![r.node] = r.arg] ELSE value
  BY <1>1, <1>2 DEF Flow!Serve
<1>7. event \in Change /\ event.node = r.node
  BY <1>3 DEF Change
<1>8. PICK ev \in Seq(Change) : ev = told /\ \A k \in 1..Len(ev) : ev[k].node = r.node
  <2>1. <<>> \in Seq(Change) /\ Len(<<>>) = 0
    OBVIOUS
  <2>2. <<event>> \in Seq(Change) /\ Len(<<event>>) = 1 /\ <<event>>[1] = event
    BY <1>7, OneLong
  <2>3. CASE told = <<>>
    <3>1. PICK none \in Seq(Change) : none = <<>> /\ Len(none) = 0
      BY <2>1
    <3>2. \A k \in 1..Len(none) : FALSE
      BY <3>1
    <3> HIDE DEF told
    <3> QED BY <2>3, <3>1, <3>2
  <2>4. CASE told = <<event>>
    BY <1>7, <2>2, <2>4
  <2> QED BY <2>3, <2>4
<1>9. value' = IF r.kind = "set" THEN [value EXCEPT ![r.node] = r.arg] ELSE value
  <2>1. CASE writes
    BY <1>6, <2>1
  <2>2. CASE ~writes
    <3>1. r.kind = "set" => [value EXCEPT ![r.node] = r.arg] = value
      BY <1>1, <2>2 DEF FlowTyped
    <3> QED BY <1>6, <2>2, <3>1
  <2> QED BY <2>1, <2>2
<1>10. PICK answer \in Call :
         /\ answer = reply /\ answer.kind = r.kind /\ answer.node = r.node /\ answer.arg = r.arg /\ answer.rest = r.rest
         /\ r.kind = "get" => answer.code = value[r.node]
         /\ r.kind = "set" => answer = r
  <2>1. CASE r.kind = "get"
    <3>1. PICK code \in Flow!Terms \cup {Null} : code = value[r.node]
      BY <1>1, <1>3 DEF FlowTyped
    <3>2. reply = [r EXCEPT !.code = code]
      BY <2>1, <3>1
    <3>3. PICK answer : answer = [r EXCEPT !.code = code]
      OBVIOUS
    <3>4. /\ answer \in Call /\ answer.kind = r.kind /\ answer.node = r.node /\ answer.arg = r.arg
          /\ answer.rest = r.rest /\ answer.code = code
      BY <3>3 DEF Call
    <3> HIDE DEF reply
    <3> QED BY <2>1, <3>1, <3>2, <3>3, <3>4
  <2>2. CASE r.kind # "get"
    BY <2>2
  <2> QED BY <2>1, <2>2
<1>11. r.kind = "get" => value'[r.node] = value[r.node] /\ value[r.node] # Null
  BY <1>1, <1>5, <1>9 DEF FlowTyped
<1>12. mail' = mail \o ev \o <<answer>>
  BY <1>6, <1>8, <1>10
<1> HIDE DEF reply, told, writes
<1> QED BY <1>1, <1>2, <1>4, <1>5, <1>6, <1>8, <1>9, <1>10, <1>11, <1>12

\* An answer, and an event before it, take the place of a request.
Answering(m, q, ev, answer, L, M) ==
  /\ L \in Seq(Call \cup Change) /\ M \in Seq(Call \cup Change)
  /\ Len(m) \in Nat /\ Len(q) \in Nat \ {0} /\ Len(ev) \in Nat
  /\ Len(L) = Len(m) + Len(q) /\ Len(M) = Len(m) + Len(ev) + Len(q)
  /\ \A k \in 1..Len(m) : L[k] = m[k] /\ M[k] = m[k]
  /\ \A k \in 1..Len(q) : L[Len(m) + k] = q[k] /\ (k > 1 => M[Len(m) + Len(ev) + k] = q[k])
  /\ \A k \in 1..Len(ev) : M[Len(m) + k] = ev[k]
  /\ M[Len(m) + Len(ev) + 1] = answer

LEMMA ServedLine ==
  ASSUME NEW m \in Seq(Call \cup Change), NEW q \in Seq(Call \cup Change), q # <<>>,
         NEW ev \in Seq(Change), NEW answer \in Call \cup Change, NEW L, L = m \o q,
         NEW M, M = (m \o ev \o <<answer>>) \o Tail(q)
  PROVE  Answering(m, q, ev, answer, L, M)
<1>1. /\ Len(m) \in Nat /\ Len(q) \in Nat \ {0} /\ Len(ev) \in Nat /\ ev \in Seq(Call \cup Change)
      /\ <<answer>> \in Seq(Call \cup Change) /\ Len(<<answer>>) = 1 /\ <<answer>>[1] = answer
      /\ Tail(q) \in Seq(Call \cup Change) /\ Len(Tail(q)) = Len(q) - 1
      /\ \A k \in 1..Len(q) - 1 : Tail(q)[k] = q[k + 1]
  <2>1. Len(m) \in Nat /\ Len(ev) \in Nat /\ ev \in Seq(Call \cup Change) /\ Len(q) \in Nat \ {0}
    BY SeqMonotonic, EmptySeq
  <2>2. <<answer>> \in Seq(Call \cup Change) /\ Len(<<answer>>) = 1 /\ <<answer>>[1] = answer
    BY OneLong
  <2>3. Tail(q) \in Seq(Call \cup Change) /\ Len(Tail(q)) = Len(q) - 1 /\ \A k \in 1..Len(q) - 1 : Tail(q)[k] = q[k + 1]
    BY HeadTailProperties
  <2> QED BY ONLY <2>1, <2>2, <2>3
<1>2. PICK a \in Seq(Call \cup Change), z \in Seq(Call \cup Change) : a = <<answer>> /\ z = Tail(q)
  BY <1>1
<1>3. PICK b \in Seq(Call \cup Change) :
        /\ b = m \o ev /\ Len(b) = Len(m) + Len(ev)
        /\ \A k \in 1..Len(b) : b[k] = IF k <= Len(m) THEN m[k] ELSE ev[k - Len(m)]
  <2>1. PICK e \in Seq(Call \cup Change) : e = ev
    BY <1>1
  <2>2. /\ m \o e \in Seq(Call \cup Change) /\ Len(m \o e) = Len(m) + Len(e)
        /\ \A k \in 1..Len(m) + Len(e) : (m \o e)[k] = IF k <= Len(m) THEN m[k] ELSE e[k - Len(m)]
    BY ConcatProperties
  <2> QED BY <2>1, <2>2
<1>4. PICK c \in Seq(Call \cup Change) :
        /\ c = b \o a /\ Len(c) = Len(b) + 1
        /\ \A k \in 1..Len(c) : c[k] = IF k <= Len(b) THEN b[k] ELSE answer
  <2>1. /\ b \o a \in Seq(Call \cup Change) /\ Len(b \o a) = Len(b) + Len(a)
        /\ \A k \in 1..Len(b) + Len(a) : (b \o a)[k] = IF k <= Len(b) THEN b[k] ELSE a[k - Len(b)]
    BY ConcatProperties
  <2>2. Len(a) = 1 /\ a[1] = answer /\ Len(b) \in Nat
    BY <1>1, <1>2
  <2>3. \A k \in 1..Len(b) + 1 : ~(k <= Len(b)) => k - Len(b) = 1
    BY <2>2
  <2> QED BY <2>1, <2>2, <2>3
<1>5. /\ M \in Seq(Call \cup Change) /\ Len(M) = Len(c) + Len(z)
      /\ \A k \in 1..Len(c) + Len(z) : M[k] = IF k <= Len(c) THEN c[k] ELSE z[k - Len(c)]
  <2>1. M = c \o z
    BY <1>2, <1>3, <1>4
  <2>2. /\ c \o z \in Seq(Call \cup Change) /\ Len(c \o z) = Len(c) + Len(z)
        /\ \A k \in 1..Len(c) + Len(z) : (c \o z)[k] = IF k <= Len(c) THEN c[k] ELSE z[k - Len(c)]
    BY ConcatProperties
  <2> QED BY ONLY <2>1, <2>2
<1>6. /\ L \in Seq(Call \cup Change) /\ Len(L) = Len(m) + Len(q)
      /\ \A k \in 1..Len(m) + Len(q) : L[k] = IF k <= Len(m) THEN m[k] ELSE q[k - Len(m)]
  BY ConcatProperties
<1>7. Len(M) = Len(m) + Len(ev) + Len(q) /\ Len(c) = Len(m) + Len(ev) + 1 /\ Len(z) = Len(q) - 1
  BY <1>1, <1>2, <1>3, <1>4, <1>5
<1>8. ASSUME NEW k \in 1..Len(m) PROVE L[k] = m[k] /\ M[k] = m[k]
  <2>1. k \in 1..Len(b) /\ k \in 1..Len(c) /\ k \in 1..Len(c) + Len(z) /\ k \in 1..Len(m) + Len(q) /\ k <= Len(m)
    BY <1>1, <1>3, <1>7
  <2>2. L[k] = m[k]
    BY <1>6, <2>1
  <2>3. b[k] = m[k] /\ k <= Len(b)
    BY <1>3, <2>1
  <2>4. c[k] = m[k] /\ k <= Len(c)
    BY <1>4, <2>1, <2>3
  <2> QED BY <1>5, <2>1, <2>2, <2>4
<1>9. ASSUME NEW k \in 1..Len(ev) PROVE M[Len(m) + k] = ev[k]
  <2>1. /\ Len(m) + k \in 1..Len(b) /\ Len(m) + k \in 1..Len(c) /\ Len(m) + k \in 1..Len(c) + Len(z)
        /\ ~(Len(m) + k <= Len(m)) /\ Len(m) + k - Len(m) = k
    BY <1>1, <1>3, <1>7
  <2>2. b[Len(m) + k] = ev[k] /\ Len(m) + k <= Len(b)
    BY <1>3, <2>1
  <2>3. c[Len(m) + k] = ev[k] /\ Len(m) + k <= Len(c)
    BY <1>4, <2>1, <2>2
  <2> QED BY <1>5, <2>1, <2>3
<1>10. M[Len(m) + Len(ev) + 1] = answer
  <2>1. Len(m) + Len(ev) + 1 \in 1..Len(c) /\ Len(m) + Len(ev) + 1 \in 1..Len(c) + Len(z) /\ Len(m) + Len(ev) + 1 <= Len(c)
        /\ ~(Len(m) + Len(ev) + 1 <= Len(b))
    BY <1>1, <1>3, <1>7
  <2> QED BY <1>4, <1>5, <2>1
<1>11. ASSUME NEW k \in 1..Len(q) PROVE L[Len(m) + k] = q[k] /\ (k > 1 => M[Len(m) + Len(ev) + k] = q[k])
  <2>1. Len(m) + k \in 1..Len(m) + Len(q) /\ ~(Len(m) + k <= Len(m)) /\ Len(m) + k - Len(m) = k
    BY <1>1
  <2>2. L[Len(m) + k] = q[k]
    BY <1>6, <2>1
  <2>3. ASSUME k > 1 PROVE M[Len(m) + Len(ev) + k] = q[k]
    <3>1. /\ Len(m) + Len(ev) + k \in 1..Len(c) + Len(z) /\ ~(Len(m) + Len(ev) + k <= Len(c))
          /\ Len(m) + Len(ev) + k - Len(c) = k - 1 /\ k - 1 \in 1..Len(q) - 1 /\ k - 1 + 1 = k
      BY <1>1, <1>7, <2>3
    <3>2. z[k - 1] = q[k]
      BY <1>1, <1>2, <3>1
    <3> QED BY <1>5, <3>1, <3>2
  <2> QED BY <2>2, <2>3
<1> QED BY <1>1, <1>5, <1>6, <1>7, <1>8, <1>9, <1>10, <1>11 DEF Answering

LEMMA ServedCarries ==
  ASSUME NEW m \in Seq(Call \cup Change), NEW q \in Seq(Call \cup Change), q # <<>>,
         NEW ev \in Seq(Change), NEW answer \in Call \cup Change, NEW L, L = m \o q,
         NEW M, M = (m \o ev \o <<answer>>) \o Tail(q), NEW val,
         q[1].kind # "changed", answer.kind = q[1].kind, answer.node = q[1].node, answer.arg = q[1].arg,
         answer.rest = q[1].rest, answer = q[1] \/ (q[1].kind = "get" /\ answer.code = val[q[1].node])
  PROVE  \E f : Carried(L, M, f, val)
<1>1. /\ Len(m) \in Nat /\ Len(q) \in Nat \ {0} /\ Len(ev) \in Nat
      /\ Len(L) = Len(m) + Len(q) /\ Len(M) = Len(m) + Len(ev) + Len(q)
      /\ \A k \in 1..Len(m) : L[k] = m[k] /\ M[k] = m[k]
      /\ \A k \in 1..Len(q) : L[Len(m) + k] = q[k] /\ (k > 1 => M[Len(m) + Len(ev) + k] = q[k])
      /\ \A k \in 1..Len(ev) : M[Len(m) + k] = ev[k]
      /\ M[Len(m) + Len(ev) + 1] = answer
  <2>1. Answering(m, q, ev, answer, L, M)
    BY ServedLine
  <2> QED BY ONLY <2>1 DEF Answering
<1>2. PICK n \in Nat, e \in Nat : n = Len(m) /\ e = Len(ev)
  BY <1>1
<1>3. PICK f : f = [k \in 1..Len(L) |-> IF k <= n THEN k ELSE k + e]
  OBVIOUS
<1>4. f \in [1..Len(L) -> 1..Len(M)]
  <2>1. \A k \in 1..Len(L) : (IF k <= n THEN k ELSE k + e) \in 1..Len(M)
    BY <1>1, <1>2
  <2> QED BY <1>3, <2>1
<1>5. \A k \in 1..Len(L) : f[k] = IF k <= n THEN k ELSE k + e
  BY <1>3
<1>6. \A k, l \in 1..Len(L) : k < l => f[k] < f[l]
  BY <1>1, <1>2, <1>5
<1>7. ASSUME NEW k \in 1..Len(L)
      PROVE  /\ M[f[k]].kind = L[k].kind /\ M[f[k]].node = L[k].node /\ M[f[k]].arg = L[k].arg
             /\ L[k].kind # "changed" =>
                  M[f[k]].rest = L[k].rest /\ (M[f[k]] = L[k] \/ (L[k].kind = "get" /\ M[f[k]].code = val[L[k].node]))
  <2>1. CASE k <= n
    <3>1. k \in 1..Len(m) /\ f[k] = k
      BY <1>1, <1>2, <1>5, <2>1
    <3>2. L[k] = M[f[k]]
      BY <1>1, <3>1
    <3> QED BY <3>2
  <2>2. CASE k = n + 1
    <3>1. 1 \in 1..Len(q) /\ f[k] = Len(m) + Len(ev) + 1 /\ k = Len(m) + 1
      <4>1. f[k] = k + e /\ k = n + 1
        BY <1>5, <2>2
      <4>2. 1 \in 1..Len(q)
        BY <1>1
      <4> QED BY <1>2, <4>1, <4>2
    <3>2. L[k] = q[1] /\ M[f[k]] = answer
      BY <1>1, <3>1
    <3> QED BY <3>2
  <2>3. CASE k > n + 1
    <3>1. PICK j \in 1..Len(q) : j = k - n
      <4>1. Len(L) = Len(m) + Len(q) /\ Len(q) \in Nat
        BY <1>1
      <4>2. k \in Nat /\ n \in Nat /\ k <= n + Len(q) /\ k > n + 1
        BY <1>2, <2>3, <4>1
      <4>3. k - n \in 1..Len(q)
        BY ONLY <4>1, <4>2
      <4> QED BY ONLY <4>3
    <3>2. j > 1 /\ Len(m) + j = k /\ Len(m) + Len(ev) + j = f[k]
      BY <1>1, <1>2, <1>5, <2>3, <3>1
    <3>3. L[Len(m) + j] = q[j] /\ M[Len(m) + Len(ev) + j] = q[j]
      BY <1>1, <3>2
    <3>4. L[k] = M[f[k]]
      BY <3>2, <3>3
    <3> QED BY <3>4
  <2>4. k <= n \/ k = n + 1 \/ k > n + 1
    BY <1>1, <1>2
  <2> QED BY ONLY <2>1, <2>2, <2>3, <2>4
<1>8. ASSUME NEW p \in 1..Len(M) PROVE M[p].kind = "changed" \/ \E k \in 1..Len(L) : p = f[k]
  <2>1. CASE p <= n
    <3>1. p \in 1..Len(L) /\ f[p] = p
      BY <1>1, <1>2, <1>5, <2>1
    <3> QED BY <3>1
  <2>2. CASE p > n /\ p <= n + e
    <3>1. p - n \in 1..Len(ev) /\ Len(m) + (p - n) = p
      BY <1>1, <1>2, <2>2
    <3>2. M[p] = ev[p - n] /\ ev[p - n] \in Change
      BY <1>1, <3>1, ElementOfSeq
    <3> QED BY <3>2, CallFields
  <2>3. CASE p > n + e
    <3>1. p - e \in 1..Len(L) /\ ~(p - e <= n) /\ p - e + e = p
      BY <1>1, <1>2, <2>3
    <3>2. f[p - e] = p
      BY <1>5, <3>1
    <3> QED BY <3>1, <3>2
  <2> QED BY <1>2, <2>1, <2>2, <2>3
<1>9. Carried(L, M, f, val)
  BY ONLY <1>4, <1>6, <1>7, <1>8 DEF Carried
<1> QED BY ONLY <1>9

\* What is written is written still when it was the next request.
LEMMA ServedWritten ==
  ASSUME FlowTyped, NEW r \in Call, r = requests[1], 1 \in 1..Len(requests),
         requests' = Tail(requests), inputs' = inputs,
         value' = IF r.kind = "set" THEN [value EXCEPT ![r.node] = r.arg] ELSE value,
         NEW x \in Flow!Node, NEW v, Written(x, v)
  PROVE  Written(x, v)'
<1>1. /\ requests \in Seq(Call) /\ requests # <<>> /\ Len(requests) \in Nat
      /\ Len(requests') = Len(requests) - 1 /\ \A k \in 1..Len(requests') : requests'[k] = requests[k + 1]
  <2>1. requests \in Seq(Call)
    BY DEF FlowTyped
  <2>2. requests # <<>>
    <3>1. requests = <<>> => Len(requests) = 0
      OBVIOUS
    <3> QED BY <3>1
  <2> QED BY <2>1, <2>2, HeadTailProperties
<1>2. CASE x \in Transform \/ Flow!Accepted(x, v) = Null
  BY <1>2 DEF Written
<1>3. CASE x \notin Transform /\ Flow!Accepted(x, v) # Null
  <2>1. ASSUME NEW k \in 1..Len(requests), Writes(requests[k], x), requests[k].arg = Flow!Accepted(x, v),
               \A l \in 1..Len(requests) : l > k => ~Writes(requests[l], x)
        PROVE  Written(x, v)'
    <3>1. CASE k > 1
      <4>1. k - 1 \in 1..Len(requests') /\ k - 1 + 1 = k
        BY <1>1, <3>1
      <4>2. requests'[k - 1] = requests[k]
        BY <1>1, <4>1
      <4>3. ASSUME NEW l \in 1..Len(requests'), l > k - 1 PROVE ~Writes(requests'[l], x)
        <5>1. l + 1 \in 1..Len(requests) /\ l + 1 > k
          BY <1>1, <4>3
        <5> QED BY <1>1, <2>1, <5>1
      <4> QED BY <1>3, <2>1, <4>1, <4>2, <4>3 DEF Written
    <3>2. CASE k = 1
      <4>1. value'[x] = Flow!Accepted(x, v)
        BY <2>1, <3>2 DEF Writes, FlowTyped
      <4>2. ASSUME NEW l \in 1..Len(requests') PROVE ~Writes(requests'[l], x)
        <5>1. l + 1 \in 1..Len(requests) /\ l + 1 > k
          BY <1>1, <3>2
        <5> QED BY <1>1, <2>1, <5>1
      <4> QED BY <1>3, <4>1, <4>2 DEF Written
    <3> QED BY <3>1, <3>2
  <2>2. ASSUME value[x] = Flow!Accepted(x, v), \A k \in 1..Len(requests) : ~Writes(requests[k], x)
        PROVE  Written(x, v)'
    <3>1. value'[x] = value[x]
      BY <2>2 DEF Writes, FlowTyped
    <3>2. ASSUME NEW l \in 1..Len(requests') PROVE ~Writes(requests'[l], x)
      <4>1. l + 1 \in 1..Len(requests)
        BY <1>1
      <4> QED BY <1>1, <2>2, <4>1
    <3> QED BY <1>3, <2>2, <3>1, <3>2 DEF Written
  <2> QED BY <1>3, <2>1, <2>2 DEF Written
<1> QED BY <1>2, <1>3

LEMMA ServeKeeps == ASSUME FlowInv, Flow!Serve PROVE FlowInv'
<1>1. PICK r \in Call, answer \in Call, ev \in Seq(Change) :
        /\ r = requests[1] /\ 1 \in 1..Len(requests) /\ r.code = Null /\ Placed(r, conns, inputs)
        /\ requests' = Tail(requests) /\ UNCHANGED <<known, inputs, conns, raw>>
        /\ mail' = mail \o ev \o <<answer>>
        /\ value' = IF r.kind = "set" THEN [value EXCEPT ![r.node] = r.arg] ELSE value
        /\ \A k \in 1..Len(ev) : ev[k].node = r.node
        /\ answer.kind = r.kind /\ answer.node = r.node /\ answer.arg = r.arg /\ answer.rest = r.rest
        /\ r.kind = "get" => answer.code = value'[r.node] /\ answer.code # Null
        /\ r.kind = "set" => answer = r /\ r.node \notin Transform
  BY Served
<1>2. /\ FlowTyped /\ LinePlaced /\ requests \in Seq(Call) /\ requests # <<>> /\ r.kind \in {"get", "set"}
      /\ r.node \in Flow!Node /\ r.arg \in Flow!Terms /\ Endpoint(r.node)
      /\ mail \in Seq(Call \cup Change) /\ requests \in Seq(Call \cup Change)
  <2>1. FlowTyped /\ LinePlaced /\ requests \in Seq(Call) /\ mail \in Seq(Call \cup Change)
    BY DEF FlowInv, FlowTyped
  <2>2. requests # <<>>
    BY <1>1, EmptySeq
  <2>3. r.kind \in {"get", "set"} /\ r.node \in Flow!Node /\ r.arg \in Flow!Terms
    BY CallFields
  <2>4. Endpoint(r.node)
    BY <1>1 DEF Placed, Endpoint
  <2> QED BY <2>1, <2>2, <2>3, <2>4, SeqMonotonic
<1>3. PICK m, q, L, M, val : m = mail /\ q = requests /\ L = Line /\ M = Line' /\ val = value'
  OBVIOUS
<1>4. /\ m \in Seq(Call \cup Change) /\ q \in Seq(Call \cup Change) /\ q # <<>> /\ answer \in Call \cup Change
      /\ L = m \o q /\ M = (m \o ev \o <<answer>>) \o Tail(q)
      /\ q[1].kind # "changed" /\ answer.kind = q[1].kind /\ answer.node = q[1].node /\ answer.arg = q[1].arg
      /\ answer.rest = q[1].rest /\ (answer = q[1] \/ (q[1].kind = "get" /\ answer.code = val[q[1].node]))
  BY <1>1, <1>2, <1>3 DEF Line
<1>5. PICK f : Carried(Line, Line', f, val)
  <2>1. \E f : Carried(L, M, f, val)
    BY ONLY <1>4, ServedCarries
  <2> QED BY <1>3, <2>1
<1>6. Answering(m, q, ev, answer, L, M)
  BY ONLY <1>4, ServedLine
<1>7. /\ \A k \in 1..Len(requests') : requests'[k] \in Call /\ requests'[k].code = Null
      /\ requests' \in Seq(Call) /\ Len(requests') = Len(requests) - 1
  <2>1. /\ requests' \in Seq(Call) /\ Len(requests') = Len(requests) - 1 /\ Len(requests) \in Nat
        /\ \A k \in 1..Len(requests) - 1 : requests'[k] = requests[k + 1]
    BY <1>1, <1>2, HeadTailProperties
  <2>2. \A k \in 1..Len(requests') : k + 1 \in 1..Len(requests) /\ requests'[k] = requests[k + 1]
    BY <2>1
  <2> QED BY <1>2, <2>1, <2>2, ElementOfSeq DEF FlowTyped
<1>8. /\ mail' \in Seq(Call \cup Change) /\ Len(mail') = Len(m) + Len(ev) + 1
      /\ \A k \in 1..Len(mail') : mail'[k] = Line'[k]
  <2>1. ev \in Seq(Call \cup Change) /\ <<answer>> \in Seq(Call \cup Change) /\ Len(<<answer>>) = 1
    BY SeqMonotonic
  <2>2. PICK e \in Seq(Call \cup Change), a \in Seq(Call \cup Change) : e = ev /\ a = <<answer>> /\ Len(a) = 1
    BY <2>1
  <2>3. m \o e \in Seq(Call \cup Change) /\ Len(m \o e) = Len(m) + Len(e)
    BY <1>4, ConcatProperties
  <2>4. (m \o e) \o a \in Seq(Call \cup Change) /\ Len((m \o e) \o a) = Len(m) + Len(e) + 1
    BY <2>2, <2>3, ConcatProperties
  <2>5. mail' = (m \o e) \o a
    BY <1>1, <1>3, <2>2
  <2>6. requests' \in Seq(Call \cup Change)
    BY <1>7, SeqMonotonic
  <2>7. /\ \A k \in 1..Len(mail') + Len(requests') :
             (mail' \o requests')[k] = IF k <= Len(mail') THEN mail'[k] ELSE requests'[k - Len(mail')]
        /\ Len(mail') \in Nat /\ Len(requests') \in Nat
    BY <2>4, <2>5, <2>6, ConcatProperties
  <2> QED BY <2>2, <2>4, <2>5, <2>7 DEF Line
<1>9. FlowTyped'
  <2>1. /\ value' \in [Flow!Node -> Flow!Terms \cup {Null}] /\ \A t \in Transform : value'[t] # Null /\ value'[t] = value[t]
    BY <1>1, <1>2 DEF FlowTyped
  <2>2. ASSUME NEW k \in 1..Len(mail'), mail'[k].kind = "get" PROVE mail'[k].code # Null
    <3>1. PICK n \in Nat, e \in Nat : n = Len(m) /\ e = Len(ev)
      BY <1>6 DEF Answering
    <3>2. CASE k <= n
      <4>1. k \in 1..Len(m)
        BY <3>1, <3>2
      <4>2. mail'[k] = mail[k]
        BY <1>3, <1>6, <1>8, <4>1 DEF Answering
      <4> QED BY <1>2, <1>3, <2>2, <4>1, <4>2 DEF FlowTyped
    <3>3. CASE k > n /\ k <= n + e
      <4>1. k - n \in 1..Len(ev) /\ Len(m) + (k - n) = k
        BY <3>1, <3>3
      <4>2. mail'[k] = ev[k - n] /\ ev[k - n] \in Change
        BY <1>3, <1>6, <1>8, <4>1, ElementOfSeq DEF Answering
      <4> QED BY <2>2, <4>2, CallFields
    <3>4. CASE k > n + e
      <4>1. k = Len(m) + Len(ev) + 1
        BY <1>8, <3>1, <3>4
      <4>2. mail'[k] = answer
        BY <1>3, <1>6, <1>8, <4>1 DEF Answering
      <4> QED BY <1>1, <2>2, <4>2
    <3> QED BY <3>1, <3>2, <3>3, <3>4
  <2>3. /\ known' \in [Flow!Node -> Flow!Terms \cup {Null}] /\ inputs' \in [Transform -> Flow!Terms \cup {Null}]
        /\ conns' \in Seq(Wiring) /\ \A i, j \in 1..Len(conns') : conns'[i] = conns'[j] => i = j
    BY <1>1, <1>2 DEF FlowTyped
  <2>4. requests' \in Seq(Call) /\ (\A k \in 1..Len(requests') : requests'[k].code = Null) /\ mail' \in Seq(Call \cup Change)
    BY <1>7, <1>8
  <2> QED BY ONLY <2>1, <2>2, <2>3, <2>4 DEF FlowTyped
<1>10. \A t \in Transform : value'[t] = value[t]
  BY <1>1, <1>2 DEF FlowTyped
<1>11. ASSUME NEW x \in Flow!Node PROVE \A v : Written(x, v) => Written(x, v)'
  <2>1. /\ FlowTyped /\ r = requests[1] /\ 1 \in 1..Len(requests) /\ requests' = Tail(requests) /\ inputs' = inputs
        /\ value' = IF r.kind = "set" THEN [value EXCEPT ![r.node] = r.arg] ELSE value
    BY <1>1, <1>2
  <2> QED BY ONLY <2>1, ServedWritten
<1>12. ASSUME NEW p \in 1..Len(Line'), Line'[p].kind = "changed" PROVE Endpoint(Line'[p].node)
  <2>1. PICK n \in Nat, e \in Nat : n = Len(m) /\ e = Len(ev)
    BY <1>6 DEF Answering
  <2>2. CASE p <= n
    <3>1. p \in 1..Len(m) /\ p \in 1..Len(Line)
      BY <1>3, <1>6, <2>1, <2>2 DEF Answering
    <3>2. Line'[p] = Line[p]
      BY <1>3, <1>6, <3>1 DEF Answering
    <3> QED BY <1>2, <3>1, <3>2 DEF LinePlaced, Placed, Endpoint
  <2>3. CASE p > n /\ p <= n + e
    <3>1. p - n \in 1..Len(ev) /\ Len(m) + (p - n) = p
      BY <2>1, <2>3
    <3>2. Line'[p] = ev[p - n]
      BY <1>3, <1>6, <3>1 DEF Answering
    <3> QED BY <1>1, <1>2, <3>1, <3>2
  <2>4. CASE p = n + e + 1
    <3>1. Line'[p] = answer
      BY <1>3, <1>6, <2>1, <2>4 DEF Answering
    <3> QED BY <1>1, <1>2, <1>12, <3>1
  <2>5. CASE p > n + e + 1
    <3>1. PICK k \in 1..Len(q) : k = p - n - e /\ k > 1 /\ Len(m) + Len(ev) + k = p
      <4>1. Len(M) = n + e + Len(q) /\ Len(q) \in Nat /\ p \in 1..Len(M)
        BY <1>3, <1>6, <1>12, <2>1 DEF Answering
      <4>2. p - n - e \in 1..Len(q) /\ p - n - e > 1 /\ n + e + (p - n - e) = p
        BY <2>5, <4>1
      <4> QED BY <2>1, <4>2
    <3>2. Line'[p] = requests[k]
      BY <1>3, <1>6, <3>1 DEF Answering
    <3>3. requests[k] \in Call
      BY <1>2, <1>3, ElementOfSeq
    <3> QED BY <1>12, <3>2, <3>3, CallFields
  <2>6. p <= n \/ (p > n /\ p <= n + e) \/ p = n + e + 1 \/ p > n + e + 1
    BY <2>1
  <2> QED BY ONLY <2>2, <2>3, <2>4, <2>5, <2>6
<1>13. /\ FlowInv /\ FlowTyped' /\ conns' = conns /\ raw' = raw /\ inputs' = inputs /\ val = value' /\ Carried(Line, Line', f, val)
       /\ \A t \in Transform : NoNews(t)' /\ Endpoint(t) => value'[t] = value[t]
       /\ \A i \in 1..Len(conns) : conns[i][1] \in Plain => known'[conns[i][1]] = known[conns[i][1]]
       /\ \A x \in Flow!Node : (\E i \in 1..Len(conns) : conns[i][2] = x) => \A v : Written(x, v) => Written(x, v)'
       /\ \A p \in 1..Len(Line') : Line'[p].kind = "changed" => Endpoint(Line'[p].node)
  BY <1>1, <1>3, <1>5, <1>9, <1>10, <1>11, <1>12
<1> QED BY ONLY <1>13, CarriedKeeps

\* M is s with e in the i-th place.
Inserts(M, S, s, i, e) ==
  /\ M \in Seq(S) /\ Len(M) = Len(s) + 1
  /\ \A k \in 1..Len(M) : M[k] = IF k < i THEN s[k] ELSE IF k = i THEN e ELSE s[k - 1]

\* An event takes its place in the mail.
LEMMA Inserted ==
  ASSUME NEW S, NEW s \in Seq(S), NEW i \in 1..Len(s) + 1, NEW e \in S, NEW M, M = Flow!InsertAt(s, i, e)
  PROVE  Inserts(M, S, s, i, e)
<1>1. Len(s) \in Nat /\ i \in Nat /\ i >= 1 /\ i - 1 \in Int /\ i - 1 >= 0 /\ i <= Len(s) + 1 /\ \A k \in 1..Len(s) : s[k] \in S
  BY ElementOfSeq
<1>2. PICK a \in Seq(S) : /\ a = SubSeq(s, 1, i - 1) /\ Len(a) = i - 1
                          /\ \A k \in 1..i - 1 : a[k] = s[k]
  <2>1. /\ SubSeq(s, 1, i - 1) \in Seq(S) /\ Len(SubSeq(s, 1, i - 1)) = IF 1 <= i - 1 THEN i - 1 - 1 + 1 ELSE 0
        /\ \A k \in 1..i - 1 - 1 + 1 : SubSeq(s, 1, i - 1)[k] = s[1 + k - 1]
    <3>1. 1 \in Int /\ i - 1 \in Int /\ \A k \in 1..i - 1 : s[k] \in S
      BY <1>1
    <3> QED BY <3>1, SubSeqProperties
  <2>2. \A k \in 1..i - 1 : k \in 1..i - 1 - 1 + 1 /\ 1 + k - 1 = k
    BY <1>1
  <2>3. Len(SubSeq(s, 1, i - 1)) = i - 1
    BY <1>1, <2>1
  <2>4. \A k \in 1..i - 1 : SubSeq(s, 1, i - 1)[k] = s[k]
    <3>1. SUFFICES ASSUME NEW k \in 1..i - 1 PROVE SubSeq(s, 1, i - 1)[k] = s[k]
      OBVIOUS
    <3>2. SubSeq(s, 1, i - 1)[k] = s[1 + k - 1]
      BY <2>1, <2>2
    <3> QED BY <2>2, <3>2
  <2> QED BY ONLY <2>1, <2>3, <2>4
<1>3. PICK z \in Seq(S) : /\ z = SubSeq(s, i, Len(s)) /\ Len(z) = Len(s) - i + 1
                          /\ \A k \in 1..Len(s) - i + 1 : z[k] = s[i + k - 1]
  <2>1. /\ SubSeq(s, i, Len(s)) \in Seq(S) /\ Len(SubSeq(s, i, Len(s))) = IF i <= Len(s) THEN Len(s) - i + 1 ELSE 0
        /\ \A k \in 1..Len(s) - i + 1 : SubSeq(s, i, Len(s))[k] = s[i + k - 1]
    <3>1. i \in Int /\ Len(s) \in Int /\ \A k \in i..Len(s) : s[k] \in S
      BY <1>1
    <3> QED BY <3>1, SubSeqProperties
  <2>2. Len(SubSeq(s, i, Len(s))) = Len(s) - i + 1
    BY <1>1, <2>1
  <2> QED BY ONLY <2>1, <2>2
<1>4. PICK b \in Seq(S) : b = <<e>> /\ Len(b) = 1 /\ b[1] = e
  BY OneLong
<1>5. PICK c \in Seq(S) : /\ c = a \o b /\ Len(c) = i
                          /\ \A k \in 1..i : c[k] = IF k < i THEN s[k] ELSE e
  <2>1. /\ a \o b \in Seq(S) /\ Len(a \o b) = Len(a) + Len(b)
        /\ \A k \in 1..Len(a) + Len(b) : (a \o b)[k] = IF k <= Len(a) THEN a[k] ELSE b[k - Len(a)]
    BY ConcatProperties
  <2>2. ASSUME NEW k \in 1..i PROVE (a \o b)[k] = IF k < i THEN s[k] ELSE e
    <3>1. k \in 1..Len(a) + Len(b)
      BY <1>1, <1>2, <1>4
    <3>2. CASE k < i
      <4>1. k \in 1..i - 1 /\ k <= Len(a)
        BY <1>1, <1>2, <3>2
      <4> QED BY <1>2, <2>1, <3>1, <3>2, <4>1
    <3>3. CASE k = i
      <4>1. ~(k <= Len(a)) /\ k - Len(a) = 1
        BY <1>1, <1>2, <3>3
      <4> QED BY <1>4, <2>1, <3>1, <3>3, <4>1
    <3>4. k < i \/ k = i
      BY <1>1
    <3> QED BY ONLY <3>2, <3>3, <3>4
  <2>3. Len(a \o b) = i
    BY <1>1, <1>2, <1>4, <2>1
  <2> QED BY ONLY <2>1, <2>2, <2>3
<1>6. M = c \o z
  BY <1>2, <1>3, <1>4, <1>5 DEF Flow!InsertAt
<1>7. /\ c \o z \in Seq(S) /\ Len(c \o z) = Len(c) + Len(z)
      /\ \A k \in 1..Len(c) + Len(z) : (c \o z)[k] = IF k <= Len(c) THEN c[k] ELSE z[k - Len(c)]
  BY ConcatProperties
<1>8. ASSUME NEW k \in 1..Len(M) PROVE M[k] = IF k < i THEN s[k] ELSE IF k = i THEN e ELSE s[k - 1]
  <2>1. k \in 1..Len(c) + Len(z)
    BY <1>6, <1>7
  <2>2. CASE k <= i
    <3>1. k \in 1..i /\ k <= Len(c)
      BY <1>1, <1>5, <2>2
    <3>2. M[k] = c[k]
      BY <1>6, <1>7, <2>1, <3>1
    <3>3. c[k] = IF k < i THEN s[k] ELSE e
      BY <1>5, <3>1
    <3>4. k < i \/ k = i
      BY <1>1, <3>1
    <3> QED BY ONLY <3>2, <3>3, <3>4
  <2>3. CASE k > i
    <3>1. k - Len(c) \in 1..Len(s) - i + 1 /\ ~(k <= Len(c)) /\ i + (k - Len(c)) - 1 = k - 1
      BY <1>1, <1>3, <1>5, <2>1, <2>3
    <3>2. M[k] = z[k - Len(c)]
      BY <1>6, <1>7, <2>1, <3>1
    <3>3. z[k - Len(c)] = s[k - 1]
      BY <1>3, <3>1
    <3> QED BY <1>1, <2>3, <3>2, <3>3
  <2> QED BY <1>1, <2>2, <2>3
<1>9. M \in Seq(S) /\ Len(M) = Len(s) + 1
  BY <1>1, <1>3, <1>5, <1>6, <1>7
<1> QED BY ONLY <1>8, <1>9 DEF Inserts

Announced(L, M, i, e, val) ==
  /\ \E f : Carried(L, M, f, val)
  /\ i \in 1..Len(M) /\ M[i] = e
  /\ \A p \in 1..Len(M) : p = i \/ \E k \in 1..Len(L) : M[p] = L[k]

LEMMA InsertedCarries ==
  ASSUME NEW m \in Seq(Call \cup Change), NEW q \in Seq(Call \cup Change), NEW i \in 1..Len(m) + 1, NEW e \in Change,
         NEW L, L = m \o q, NEW M, M = Flow!InsertAt(m, i, e) \o q, NEW val
  PROVE  Announced(L, M, i, e, val)
<1>1. PICK b \in Seq(Call \cup Change) :
        /\ b = Flow!InsertAt(m, i, e) /\ Len(b) = Len(m) + 1
        /\ \A k \in 1..Len(b) : b[k] = IF k < i THEN m[k] ELSE IF k = i THEN e ELSE m[k - 1]
  <2>1. PICK x \in Call \cup Change : x = e
    OBVIOUS
  <2>a. PICK b : b = Flow!InsertAt(m, i, x)
    OBVIOUS
  <2>2. Inserts(b, Call \cup Change, m, i, x)
    BY <2>a, Inserted
  <2> QED BY ONLY <2>1, <2>2, <2>a DEF Inserts
<1>2. /\ Len(m) \in Nat /\ Len(q) \in Nat /\ i \in Nat /\ i >= 1 /\ i <= Len(m) + 1
  OBVIOUS
<1>3. /\ Len(L) = Len(m) + Len(q)
      /\ \A k \in 1..Len(m) + Len(q) : L[k] = IF k <= Len(m) THEN m[k] ELSE q[k - Len(m)]
  BY ConcatProperties
<1>4. /\ Len(M) = Len(b) + Len(q)
      /\ \A k \in 1..Len(b) + Len(q) : M[k] = IF k <= Len(b) THEN b[k] ELSE q[k - Len(b)]
  <2>1. M = b \o q
    BY <1>1
  <2>2. /\ Len(b \o q) = Len(b) + Len(q)
        /\ \A k \in 1..Len(b) + Len(q) : (b \o q)[k] = IF k <= Len(b) THEN b[k] ELSE q[k - Len(b)]
    BY ConcatProperties
  <2> QED BY ONLY <2>1, <2>2
<1>5. Len(M) = Len(L) + 1 /\ Len(L) \in Nat
  BY <1>1, <1>2, <1>3, <1>4
<1>6. ASSUME NEW k \in 1..Len(L) PROVE (k < i => M[k] = L[k]) /\ (k >= i => M[k + 1] = L[k])
  <2>1. k \in 1..Len(m) + Len(q) /\ k \in 1..Len(b) + Len(q) /\ k + 1 \in 1..Len(b) + Len(q)
    BY <1>1, <1>2, <1>3
  <2>2. ASSUME k < i PROVE M[k] = L[k]
    <3>1. k \in 1..Len(b) /\ k <= Len(b) /\ k <= Len(m)
      BY <1>1, <1>2, <2>2
    <3>2. M[k] = b[k] /\ L[k] = m[k]
      BY <1>3, <1>4, <2>1, <3>1
    <3> QED BY <1>1, <2>2, <3>1, <3>2
  <2>3. ASSUME k >= i, k <= Len(m) PROVE M[k + 1] = L[k]
    <3>1. k + 1 \in 1..Len(b) /\ k + 1 <= Len(b) /\ ~(k + 1 < i) /\ k + 1 # i /\ k + 1 - 1 = k
      BY <1>1, <1>2, <2>3
    <3>2. M[k + 1] = b[k + 1] /\ L[k] = m[k]
      BY <1>3, <1>4, <2>1, <2>3, <3>1
    <3>3. b[k + 1] = m[k]
      BY <1>1, <3>1
    <3> QED BY <3>2, <3>3
  <2>4. ASSUME k > Len(m) PROVE M[k + 1] = L[k]
    <3>1. ~(k + 1 <= Len(b)) /\ ~(k <= Len(m)) /\ k + 1 - Len(b) = k - Len(m)
      BY <1>1, <1>2, <2>4
    <3>2. M[k + 1] = q[k + 1 - Len(b)] /\ L[k] = q[k - Len(m)]
      BY <1>3, <1>4, <2>1, <3>1
    <3> QED BY <3>1, <3>2
  <2>5. k <= Len(m) \/ k > Len(m)
    BY <1>2
  <2> QED BY ONLY <2>2, <2>3, <2>4, <2>5
<1>7. i \in 1..Len(M) /\ M[i] = e
  <2>1. i \in 1..Len(b) /\ i \in 1..Len(b) + Len(q) /\ i <= Len(b) /\ ~(i < i)
    BY <1>1, <1>2
  <2>2. M[i] = b[i]
    BY <1>4, <2>1
  <2>3. b[i] = e
    BY <1>1, <2>1
  <2> QED BY <1>4, <2>1, <2>2, <2>3
<1>8. PICK f : f = [k \in 1..Len(L) |-> IF k < i THEN k ELSE k + 1]
  OBVIOUS
<1>9. ASSUME NEW p \in 1..Len(M), p # i PROVE \E k \in 1..Len(L) : p = f[k]
  <2>1. CASE p < i
    <3>1. p \in 1..Len(L) /\ f[p] = p
      BY <1>2, <1>3, <1>5, <1>8, <2>1
    <3> QED BY <3>1
  <2>2. CASE p > i
    <3>1. p - 1 \in 1..Len(L) /\ ~(p - 1 < i) /\ p - 1 + 1 = p
      BY <1>2, <1>5, <2>2
    <3>2. f[p - 1] = p
      BY <1>8, <3>1
    <3> QED BY <3>1, <3>2
  <2> QED BY <1>2, <1>9, <2>1, <2>2
<1>10. ASSUME NEW k \in 1..Len(L) PROVE f[k] \in 1..Len(M) /\ M[f[k]] = L[k]
  <2>1. f[k] = IF k < i THEN k ELSE k + 1
    BY <1>8
  <2>2. f[k] \in 1..Len(M)
    BY <1>5, <2>1
  <2>3. CASE k < i
    <3>1. f[k] = k /\ M[k] = L[k]
      BY <1>6, <2>1, <2>3
    <3> QED BY <2>2, <3>1
  <2>4. CASE k >= i
    <3>1. ~(k < i)
      BY <1>2, <2>4
    <3>2. f[k] = k + 1 /\ M[k + 1] = L[k]
      BY <1>6, <2>1, <2>4, <3>1
    <3> QED BY <2>2, <3>2
  <2> QED BY <1>2, <2>2, <2>3, <2>4
<1>11. Carried(L, M, f, val)
  <2>1. f \in [1..Len(L) -> 1..Len(M)]
    BY <1>8, <1>10
  <2>2. \A k, l \in 1..Len(L) : k < l => f[k] < f[l]
    BY <1>2, <1>5, <1>8
  <2>3. \A p \in 1..Len(M) : M[p].kind = "changed" \/ \E k \in 1..Len(L) : p = f[k]
    BY <1>7, <1>9, CallFields
  <2> QED BY <1>10, <2>1, <2>2, <2>3 DEF Carried
<1>12. \A p \in 1..Len(M) : p = i \/ \E k \in 1..Len(L) : M[p] = L[k]
  <2>1. SUFFICES ASSUME NEW p \in 1..Len(M), p # i PROVE \E k \in 1..Len(L) : M[p] = L[k]
    OBVIOUS
  <2>2. PICK k \in 1..Len(L) : p = f[k]
    BY <1>9, <2>1
  <2> QED BY <1>10, <2>2
<1> QED BY ONLY <1>7, <1>11, <1>12 DEF Announced

LEMMA EditKeeps ==
  ASSUME FlowInv, NEW n \in Flow!Node, n \in Edited, NEW v \in Flow!Terms, Flow!Edit(n, v)
  PROVE  FlowInv'
<1>1. /\ value' = [value EXCEPT ![n] = v] /\ UNCHANGED <<inputs, conns, raw, requests>>
      /\ FlowTyped /\ LinePlaced /\ conns \in Seq(Wiring) /\ mail \in Seq(Call \cup Change) /\ requests \in Seq(Call \cup Change)
  <2>1. mail \in Seq(Call \cup Change) /\ requests \in Seq(Call \cup Change)
    BY SeqMonotonic DEF FlowInv, FlowTyped
  <2> QED BY <2>1 DEF Flow!Edit, FlowInv, FlowTyped
<1>2. n \in Flow!Ported <=> Endpoint(n)
  <2>1. DOMAIN conns = 1..Len(conns)
    BY <1>1, Connection
  <2> QED BY <2>1 DEF Flow!Ported, Flow!Range, Endpoint
<1>3. PICK m, q, L, M, val : m = mail /\ q = requests /\ L = Line /\ M = Line' /\ val = value'
  OBVIOUS
<1>4. ASSUME NEW x \in Flow!Node, NEW i \in 1..Len(conns), conns[i][2] = x, NEW w, Written(x, w) PROVE Written(x, w)'
  <2>1. CASE x \in Transform
    BY <1>1, <1>4, <2>1 DEF Written
  <2>2. CASE x \notin Transform
    <3>1. x # n
      BY <1>1, <1>4, <2>2, Connection, Forest
    <3>2. value'[x] = value[x]
      BY <1>1, <3>1 DEF FlowTyped
    <3> QED BY <1>1, <1>4, <2>2, <3>2 DEF Written
  <2> QED BY <2>1, <2>2
<1>5. ASSUME NEW t \in Transform, t # n PROVE value'[t] = value[t]
  BY <1>1, <1>5 DEF FlowTyped, Flow!Node
<1>6. /\ value' \in [Flow!Node -> Flow!Terms \cup {Null}] /\ \A t \in Transform : value'[t] # Null
  BY <1>1, Forest DEF FlowTyped, Flow!Node
<1>7. ASSUME known' \in [Flow!Node -> Flow!Terms \cup {Null}], mail' \in Seq(Call \cup Change),
             \A k \in 1..Len(mail') : mail'[k].kind = "get" => mail'[k].code # Null
      PROVE  FlowTyped'
  <2>1. /\ inputs' \in [Transform -> Flow!Terms \cup {Null}]
        /\ conns' \in Seq(Wiring) /\ \A i, j \in 1..Len(conns') : conns'[i] = conns'[j] => i = j
    BY <1>1 DEF FlowTyped
  <2>2. requests' \in Seq(Call) /\ \A k \in 1..Len(requests') : requests'[k].code = Null
    BY <1>1 DEF FlowTyped
  <2> QED BY ONLY <1>6, <1>7, <2>1, <2>2 DEF FlowTyped
<1>8. ASSUME NEW k \in 1..Len(Line), Line[k].kind = "changed" PROVE Endpoint(Line[k].node)
  BY <1>1, <1>8 DEF LinePlaced, Placed, Endpoint
<1>9. ASSUME FlowTyped', NEW f, Carried(Line, Line', f, val),
             \A t \in Transform : NoNews(t)' /\ Endpoint(t) => t # n,
             \A i \in 1..Len(conns) : known'[conns[i][1]] = known[conns[i][1]],
             \A p \in 1..Len(Line') : Line'[p].kind = "changed" => Endpoint(Line'[p].node)
      PROVE  FlowInv'
  <2>1. /\ FlowInv /\ FlowTyped' /\ conns' = conns /\ raw' = raw /\ inputs' = inputs /\ val = value'
        /\ Carried(Line, Line', f, val)
        /\ \A t \in Transform : NoNews(t)' /\ Endpoint(t) => value'[t] = value[t]
        /\ \A i \in 1..Len(conns) : conns[i][1] \in Plain => known'[conns[i][1]] = known[conns[i][1]]
        /\ \A x \in Flow!Node : (\E i \in 1..Len(conns) : conns[i][2] = x) => \A w : Written(x, w) => Written(x, w)'
        /\ \A p \in 1..Len(Line') : Line'[p].kind = "changed" => Endpoint(Line'[p].node)
    BY <1>1, <1>3, <1>4, <1>5, <1>9
  <2> QED BY ONLY <2>1, CarriedKeeps
<1>10. CASE Endpoint(n)
  <2>1. PICK e \in Change : e = [kind |-> "changed", node |-> n, arg |-> v]
    BY DEF Change
  <2>2. PICK i \in Flow!Slots : mail' = Flow!InsertAt(mail, i, e) /\ known' = known
    BY <1>2, <1>10, <2>1 DEF Flow!Edit
  <2>3. i \in 1..Len(m) + 1
    <3>1. Len(mail) \in Nat /\ (mail # <<>> => Len(mail) # 0)
      BY <1>1, EmptySeq
    <3> QED BY <1>3, <2>2, <3>1 DEF Flow!Slots
  <2>4. /\ m \in Seq(Call \cup Change) /\ q \in Seq(Call \cup Change) /\ L = m \o q /\ M = Flow!InsertAt(m, i, e) \o q
    BY <1>1, <1>3, <2>2 DEF Line
  <2>a. Announced(L, M, i, e, val)
    BY ONLY <2>3, <2>4, InsertedCarries
  <2>5. (\E f : Carried(L, M, f, val)) /\ i \in 1..Len(M) /\ M[i] = e
    BY <2>a DEF Announced
  <2>6. ASSUME NEW p \in 1..Len(M) PROVE p = i \/ \E k \in 1..Len(L) : M[p] = L[k]
    BY <2>a DEF Announced
  <2>7. /\ mail' \in Seq(Call \cup Change)
        /\ \A k \in 1..Len(mail') : mail'[k].kind = "get" => mail'[k].code # Null
    <3>1. PICK x \in Call \cup Change : x = e
      OBVIOUS
    <3>a. PICK b : b = Flow!InsertAt(m, i, x)
      OBVIOUS
    <3>b. b = mail'
      BY <1>3, <2>2, <3>1, <3>a
    <3>2. /\ b \in Seq(Call \cup Change) /\ Len(b) = Len(m) + 1
          /\ \A k \in 1..Len(b) : b[k] = IF k < i THEN m[k] ELSE IF k = i THEN x ELSE m[k - 1]
      <4>1. m \in Seq(Call \cup Change)
        BY <2>4
      <4>2. Inserts(b, Call \cup Change, m, i, x)
        BY ONLY <2>3, <3>a, <4>1, Inserted
      <4> QED BY ONLY <4>2 DEF Inserts
    <3>3. ASSUME NEW k \in 1..Len(b), b[k].kind = "get" PROVE b[k].code # Null
      <4>1. Len(m) \in Nat /\ i \in Nat /\ i >= 1 /\ i <= Len(m) + 1
        BY <2>3, <2>4
      <4>2. k # i
        BY <3>1, <3>2, <3>3, CallFields
      <4>3. CASE k < i
        <5>1. k \in 1..Len(m) /\ b[k] = m[k]
          BY <3>2, <4>1, <4>3
        <5> QED BY <1>1, <1>3, <3>3, <5>1 DEF FlowTyped
      <4>4. CASE k > i
        <5>1. k - 1 \in 1..Len(m) /\ b[k] = m[k - 1]
          BY <3>2, <4>1, <4>4
        <5> QED BY <1>1, <1>3, <3>3, <5>1 DEF FlowTyped
      <4> QED BY <4>1, <4>2, <4>3, <4>4
    <3> QED BY ONLY <3>2, <3>3, <3>b
  <2>8. FlowTyped'
    BY <1>1, <1>7, <2>2, <2>7 DEF FlowTyped
  <2>9. ASSUME NEW t \in Transform, NoNews(t)' PROVE t # n
    <3>1. i \in 1..Len(Line') /\ Line'[i].kind = "changed" /\ Line'[i].node = n
      BY <1>3, <2>1, <2>5
    <3> QED BY <2>9, <3>1 DEF NoNews
  <2>10. ASSUME NEW p \in 1..Len(Line'), Line'[p].kind = "changed" PROVE Endpoint(Line'[p].node)
    <3>1. CASE p = i
      <4>1. Line'[p].node = n
        BY <1>3, <2>1, <2>5, <3>1
      <4> QED BY <1>10, <4>1
    <3>2. ASSUME NEW k \in 1..Len(L), M[p] = L[k] PROVE Endpoint(Line'[p].node)
      BY <1>3, <1>8, <2>10, <3>2
    <3> QED BY <1>3, <2>6, <3>1, <3>2
  <2>11. PICK f : Carried(Line, Line', f, val)
    BY <1>3, <2>5
  <2> QED BY <1>9, <2>2, <2>8, <2>9, <2>10, <2>11
<1>11. CASE ~Endpoint(n)
  <2>1. mail' = mail /\ Line' = Line /\ \E copy \in {known[n], v} : known' = [known EXCEPT ![n] = copy]
    BY <1>1, <1>2, <1>11 DEF Flow!Edit, Line
  <2>2. known' \in [Flow!Node -> Flow!Terms \cup {Null}]
    BY <1>1, <2>1 DEF FlowTyped
  <2>3. FlowTyped'
    <3>1. \A k \in 1..Len(mail') : mail'[k].kind = "get" => mail'[k].code # Null
      BY <1>1, <2>1 DEF FlowTyped
    <3> QED BY <1>1, <1>7, <2>1, <2>2, <3>1
  <2>4. \A i \in 1..Len(conns) : known'[conns[i][1]] = known[conns[i][1]]
    <3>1. SUFFICES ASSUME NEW i \in 1..Len(conns) PROVE known'[conns[i][1]] = known[conns[i][1]]
      OBVIOUS
    <3>2. conns[i][1] # n /\ conns[i][1] \in Flow!Node
      BY <1>1, <1>11, Connection DEF Endpoint
    <3> QED BY <1>1, <2>1, <3>2 DEF FlowTyped
  <2>5. PICK f : f = [k \in 1..Len(L) |-> k]
    OBVIOUS
  <2>6. Carried(L, L, f, val)
    BY <2>5 DEF Carried
  <2>7. \A p \in 1..Len(Line') : Line'[p].kind = "changed" => Endpoint(Line'[p].node)
    BY <1>8, <2>1
  <2> QED BY <1>3, <1>9, <1>11, <2>1, <2>3, <2>4, <2>6, <2>7
<1> QED BY <1>10, <1>11

----------------------------------------------------------------------------
LEMMA FlowStarts == Flow!Init => FlowInv
<1> SUFFICES ASSUME Flow!Init PROVE FlowInv
  OBVIOUS
<1>1. /\ conns = <<>> /\ requests = <<>> /\ mail = <<>> /\ raw = {} /\ known = value
      /\ inputs = [t \in Transform |-> Null]
      /\ value = [n \in Flow!Node |-> IF n \in Transform THEN CHOOSE code \in Code : TRUE
                                      ELSE IF n \in Flow!Sources THEN CHOOSE v \in Entered : TRUE ELSE Null]
  BY DEF Flow!Init
<1>2. (CHOOSE code \in Code : TRUE) \in Flow!Terms /\ (CHOOSE v \in Entered : TRUE) \in Flow!Terms
  BY Forest
<1>3. value \in [Flow!Node -> Flow!Terms \cup {Null}] /\ \A t \in Transform : value[t] # Null
  BY <1>1, <1>2, Forest DEF Flow!Node
<1>4. /\ conns \in Seq(Wiring) /\ Len(conns) = 0 /\ requests \in Seq(Call) /\ Len(requests) = 0
      /\ mail \in Seq(Call \cup Change) /\ Len(mail) = 0 /\ Line = <<>> /\ Len(Line) = 0
  <2>1. Line = <<>>
    BY <1>1, ConcatEmptySeq DEF Line
  <2> QED BY <1>1, <2>1
<1>5. FlowTyped
  <2>1. inputs \in [Transform -> Flow!Terms \cup {Null}]
    BY <1>1
  <2>2. known \in [Flow!Node -> Flow!Terms \cup {Null}]
    BY <1>1, <1>3
  <2>3. /\ \A i, j \in 1..Len(conns) : conns[i] = conns[j] => i = j
        /\ \A k \in 1..Len(requests) : requests[k].code = Null
        /\ \A k \in 1..Len(mail) : mail[k].kind = "get" => mail[k].code # Null
    BY ONLY <1>4
  <2> QED BY ONLY <1>3, <1>4, <2>1, <2>2, <2>3 DEF FlowTyped
<1>6. \A k \in 1..0 : FALSE
  OBVIOUS
<1>7. LinePlaced /\ \A t \in Transform : LatestAsks(Line, t, inputs[t], value[t])
  BY <1>4, <1>6 DEF LinePlaced, LatestAsks
<1> QED BY <1>4, <1>5, <1>6, <1>7 DEF FlowInv

LEMMA FlowStepKeeps == FlowInv /\ [Flow!Next]_(Flow!vars) => FlowInv'
<1> SUFFICES ASSUME FlowInv, [Flow!Next]_(Flow!vars) PROVE FlowInv'
  OBVIOUS
<1>1. ASSUME NEW n \in Edited \cap Plain, NEW v \in Entered, Flow!Edit(n, v) PROVE FlowInv'
  BY <1>1, EditKeeps, Forest DEF Flow!Node
<1>2. ASSUME NEW n \in Edited \cap Transform, NEW v \in Code \cup {BadCode}, Flow!Edit(n, v) PROVE FlowInv'
  BY <1>2, EditKeeps, Forest DEF Flow!Node
<1>3. ASSUME NEW c \in Wiring, Flow!Connect(c) PROVE FlowInv'
  BY <1>3, ConnectKeeps
<1>4. CASE Flow!Serve
  BY <1>4, ServeKeeps
<1>5. CASE Flow!HandleElementUpdate
  BY <1>5, UpdateKeeps
<1>6. CASE Flow!ResumeCall
  BY <1>6, ResumeKeeps
<1>7. CASE UNCHANGED Flow!vars
  <2>1. UNCHANGED <<value, known, inputs, conns, raw, requests, mail>> /\ Line' = Line
    BY <1>7 DEF Flow!vars, Line
  <2>2. FlowTyped' /\ LinePlaced'
    BY <2>1 DEF FlowInv, FlowTyped, LinePlaced
  <2>3. ASSUME NEW t PROVE NoNews(t)' = NoNews(t)
    BY <2>1 DEF NoNews
  <2>4. ASSUME NEW i PROVE Conveyed(i)' = Conveyed(i)
    <3>1. Flow!InStep(i)' = Flow!InStep(i)
      BY <2>1 DEF Flow!InStep, Flow!Brief
    <3>2. \A x, w : Written(x, w)' = Written(x, w)
      BY <2>1 DEF Written
    <3>3. \A t : Carries(t, i)' = Carries(t, i)
      BY <2>1, <2>3, <3>1 DEF Carries
    <3>4. \A t : Borne(t, i)' = Borne(t, i)
      BY <2>1, <3>2 DEF Borne, Written
    <3> QED BY <2>1, <3>2, <3>3, <3>4 DEF Conveyed, Written
  <2> QED BY <2>1, <2>2, <2>3, <2>4 DEF FlowInv
<1> QED BY <1>1, <1>2, <1>3, <1>4, <1>5, <1>6, <1>7 DEF Flow!Next, Flow!Propagation

LEMMA FlowInvariant == Flow!Init /\ [][Flow!Next]_(Flow!vars) => []FlowInv
BY FlowStarts, FlowStepKeeps, PTL

\* Once nothing is on its way nothing waits to be written.
LEMMA SettledWritten ==
  ASSUME Flow!Quiet, NEW x, NEW v, Written(x, v)
  PROVE  Flow!Delivered(x, v)
<1>1. requests = <<>> /\ Len(requests) = 0
  BY DEF Flow!Quiet
<1>2. \A k \in 1..Len(requests) : FALSE
  BY <1>1
<1> QED BY <1>2 DEF Written, Flow!Delivered

LEMMA SettledFlow == FlowInv => FlowSettles
<1> SUFFICES ASSUME FlowInv, Flow!Quiet, NEW i \in DOMAIN conns
             PROVE  IF conns[i][1] \in Plain
                    THEN known[conns[i][1]] # Null => Flow!Delivered(conns[i][2], known[conns[i][1]])
                    ELSE Flow!InStep(i) => Flow!PassesOutput(i)
  BY DEF FlowSettles, Flow!FlowSettles
<1>1. /\ conns \in Seq(Wiring) /\ i \in 1..Len(conns) /\ Conveyed(i)
  <2>1. conns \in Seq(Wiring)
    BY DEF FlowInv, FlowTyped
  <2> QED BY <2>1, Connection DEF FlowInv
<1>2. Line = <<>> /\ Len(Line) = 0
  <2>1. mail = <<>> /\ requests = <<>>
    BY DEF Flow!Quiet
  <2> QED BY <2>1, ConcatEmptySeq DEF Line
<1>3. \A k \in 1..Len(Line) : FALSE
  BY <1>2
<1>4. PICK x \in Flow!Node, s \in Flow!Node : x = conns[i][2] /\ s = conns[i][1]
  BY <1>1, Connection
<1>5. CASE s \in Plain
  <2>1. SUFFICES ASSUME known[s] # Null PROVE Flow!Delivered(x, known[s])
    BY <1>4, <1>5
  <2>2. PICK w \in {known[s]} : TRUE
    OBVIOUS
  <2>3. Written(x, w)
    BY <1>1, <1>4, <1>5, <2>1, <2>2 DEF Conveyed
  <2>4. Flow!Delivered(x, w)
    BY <2>3, SettledWritten
  <2> QED BY <2>2, <2>4
<1>6. CASE s \notin Plain
  <2>1. SUFFICES ASSUME Flow!InStep(i), inputs[s] # Null, conns[i] \notin raw, value[s] # BadCode
                 PROVE  Flow!Delivered(x, Flow!Output(value[s], inputs[s]))
    BY <1>4, <1>6 DEF Flow!PassesOutput
  <2>2. Carries(s, i)
    BY <1>3, <2>1 DEF Carries, NoNews
  <2>3. PICK w : w = Flow!Output(value[s], inputs[s])
    OBVIOUS
  <2>4. Borne(s, i)
    BY <1>1, <1>4, <1>6, <2>2 DEF Conveyed
  <2>5. Written(x, w)
    BY <1>3, <1>4, <2>3, <2>4 DEF Borne, NewestBears
  <2>6. Flow!Delivered(x, w)
    BY <2>5, SettledWritten
  <2> QED BY <2>3, <2>6
<1> QED BY <1>5, <1>6

\* Whenever nothing is on its way, every target holds what its source last showed.
THEOREM TargetsFollow == Flow!Init /\ [][Flow!Next]_(Flow!vars) => []FlowSettles
BY FlowInvariant, SettledFlow, PTL
=============================================================================
