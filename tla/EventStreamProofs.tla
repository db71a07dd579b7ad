-------------------------- MODULE EventStreamProofs --------------------------
(***************************************************************************)
(* A mirror follows the cache, for any number of clients, elements and     *)
(* values and channels of any capacity.                                    *)
(*                                                                         *)
(* MirrorFollows speaks of an open connection.  What makes it inductive is *)
(* what holds of the events alone (Truthful): what is on its way ends, for *)
(* each element, with its state in the cache, whatever was lost before.  A *)
(* snapshot may therefore be taken at any time: an element of which        *)
(* nothing is on its way is then as the snapshot says (Anchored), and an   *)
(* older report of one that has more on its way is repaired by the newest. *)
(***************************************************************************)
EXTENDS EventStream, SequenceTheorems, WellFoundedInduction, TLAPS

Reported == [ElementId -> Value \cup {None}]

Loop == [at : {"closed", "init", "greet", "open", "dispatch", "flush"},
         snapshot : Reported, wanted : BOOLEAN, passed : BOOLEAN]

Typed ==
  /\ cache \in Reported
  /\ focus \in {NoFocus} \cup [id : ElementId, value : Value]
  /\ events \in Seq(Event) /\ Len(events) <= EventCapacity
  /\ overflowed \in BOOLEAN
  /\ forwarder \in {"running", "stopped"}
  /\ server \in [Client -> Loop]
  /\ queue \in [Client -> Seq(Event)] /\ \A c \in Client : Len(queue[c]) <= ClientCapacity
  /\ lagged \in [Client -> BOOLEAN]
  /\ mirror \in [Client -> Reported]
  /\ trust \in [Client -> {"none", "synced", "resynced"}]

\* Of e nothing is reported.
Silent(q, e) == \A i \in 1..Len(q) : q[i].id # e

\* The last report of an element is what k has of it, unless it is late.
EndsWith(q, k) ==
  \A i \in 1..Len(q) :
    (\A j \in 1..Len(q) : j > i => q[j].id # q[i].id) => q[i].late \/ q[i].reports = k[q[i].id]

\* What is not reported agrees.
AgreesBut(q, m, k) == \A e \in ElementId : Silent(q, e) => m[e] = k[e]

Flowing == forwarder = "running" /\ ~overflowed

\* The reports on their way to c will be applied to this.
Base(c) == IF server[c].at = "greet" THEN server[c].snapshot ELSE mirror[c]

Truthful(c) == Flowing => EndsWith(OnItsWay(c), cache)

Anchored(c) ==
  /\ server[c].at = "closed" => queue[c] = <<>> /\ trust[c] = "none"
  /\ Flowing /\ ~lagged[c] /\ trust[c] = "synced" => AgreesBut(OnItsWay(c), Base(c), cache)
  /\ Flowing /\ ~lagged[c] /\ server[c].at = "flush" /\ ~server[c].passed
       => AgreesBut(OnItsWay(c), server[c].snapshot, cache)

IInv == Typed /\ \A c \in Client : Truthful(c) /\ Anchored(c)

----------------------------------------------------------------------------
\* A set of naturals that is not empty has a least element.
LEMMA Least ==
  ASSUME NEW T \in SUBSET Nat, T # {}
  PROVE  \E x \in T : \A y \in T : x <= y
<1> DEFINE R == {ss \in Nat \X Nat : ss[1] < ss[2]}
<1>1. IsWellFoundedOn(R, Nat)
  BY NatLessThanWellFounded DEF OpToRel
<1>2. PICK x \in T : \A y \in T : <<y, x>> \notin R
  <2> HIDE DEF R
  <2> QED BY <1>1, WFMin
<1>3. \A y \in T : x <= y
  <2> TAKE y \in T
  <2>1. y \in Nat /\ x \in Nat /\ (<<y, x>> \in R <=> y < x)
    OBVIOUS
  <2>2. ~(y < x)
    BY <1>2, <2>1
  <2> QED BY ONLY <2>1, <2>2
<1> QED BY <1>3

\* Among the places of a sequence there is a last one.
LEMMA Greatest ==
  ASSUME NEW n \in Nat, NEW T \in SUBSET (1..n), T # {}
  PROVE  \E x \in T : \A y \in T : y <= x
<1> DEFINE D == {m \in Nat : n - m \in T}
<1>1. D \in SUBSET Nat
  OBVIOUS
<1>2. \A i \in T : n - i \in D
  <2> TAKE i \in T
  <2>1. n - i \in Nat /\ n - (n - i) = i
    OBVIOUS
  <2> QED BY <2>1
<1>3. PICK x \in D : \A y \in D : x <= y
  <2> HIDE DEF D
  <2> QED BY <1>1, <1>2, Least
<1>4. ASSUME NEW j \in T PROVE j <= n - x
  <2>1. x <= n - j /\ j \in Nat /\ x \in Nat
    BY <1>2, <1>3
  <2> QED BY <2>1
<1> QED BY <1>3, <1>4

----------------------------------------------------------------------------
\* The sequences of reports: a report is appended ...
LEMMA ReportAppended ==
  ASSUME NEW q \in Seq(Event), NEW ev \in Event, NEW k \in Reported, NEW kk \in Reported,
         EndsWith(q, k), \A e \in ElementId : e # ev.id => kk[e] = k[e],
         ev.late \/ ev.reports = kk[ev.id]
  PROVE  /\ EndsWith(Append(q, ev), kk)
         /\ \A e \in ElementId : Silent(Append(q, ev), e) => Silent(q, e) /\ e # ev.id
<1> DEFINE r == Append(q, ev)
           n == Len(q)
<1>1. /\ n \in Nat /\ Len(r) = n + 1 /\ r[n + 1] = ev
      /\ \A i \in 1..n : r[i] = q[i] /\ q[i] \in Event
  BY AppendProperties, LenProperties, ElementOfSeq
<1>2. ASSUME NEW i \in 1..Len(r), \A j \in 1..Len(r) : j > i => r[j].id # r[i].id
      PROVE  r[i].late \/ r[i].reports = kk[r[i].id]
  <2>1. CASE i = n + 1
    BY <2>1, <1>1
  <2>2. CASE i \in 1..n
    <3>1. r[i] = q[i] /\ q[i].id # ev.id /\ q[i].id \in ElementId
      <4>1. n + 1 \in 1..Len(r) /\ n + 1 > i
        BY <2>2, <1>1
      <4> QED BY <4>1, <2>2, <1>1, <1>2 DEF Event
    <3>2. \A j \in 1..n : j > i => q[j].id # q[i].id
      BY <1>1, <1>2, <2>2
    <3>3. q[i].late \/ q[i].reports = k[q[i].id]
      BY <3>2, <2>2 DEF EndsWith
    <3> QED BY <3>1, <3>3
  <2> QED BY <2>1, <2>2, <1>1
<1>3. ASSUME NEW e \in ElementId, Silent(r, e) PROVE Silent(q, e) /\ e # ev.id
  <2>1. n + 1 \in 1..Len(r)
    BY <1>1
  <2> QED BY <1>1, <1>3, <2>1 DEF Silent
<1> HIDE DEF r
<1>4. EndsWith(r, kk)
  BY <1>2 DEF EndsWith
<1> QED BY <1>3, <1>4 DEF r

\* ... and the oldest is taken, or lost.
LEMMA ReportTaken ==
  ASSUME NEW q \in Seq(Event), q # <<>>, NEW k \in Reported, EndsWith(q, k)
  PROVE  /\ Head(q) \in Event /\ Tail(q) \in Seq(Event)
         /\ EndsWith(Tail(q), k)
         /\ \A e \in ElementId : Silent(Tail(q), e) =>
              \/ Silent(q, e) /\ e # Head(q).id
              \/ e = Head(q).id /\ (Head(q).late \/ Head(q).reports = k[e])
<1> DEFINE r == Tail(q)
           h == Head(q)
           n == Len(r)
<1>1. /\ h \in Event /\ r \in Seq(Event) /\ n \in Nat /\ Len(q) = n + 1 /\ h = q[1]
      /\ \A i \in 1..n : r[i] = q[i + 1]
  <2>1. /\ h \in Event /\ r \in Seq(Event) /\ n = Len(q) - 1 /\ Len(q) \in Nat \ {0}
        /\ \A i \in 1..n : r[i] = q[i + 1]
    BY HeadTailProperties, EmptySeq
  <2> QED BY <2>1
<1> HIDE DEF r, h
<1>2. ASSUME NEW i \in 1..n, \A j \in 1..n : j > i => r[j].id # r[i].id
      PROVE  r[i].late \/ r[i].reports = k[r[i].id]
  <2>1. i + 1 \in 1..Len(q) /\ r[i] = q[i + 1]
    BY <1>1
  <2>2. ASSUME NEW j \in 1..Len(q), j > i + 1 PROVE q[j].id # q[i + 1].id
    <3>1. j - 1 \in 1..n /\ j - 1 > i /\ (j - 1) + 1 = j
      BY <2>2, <1>1
    <3> QED BY <3>1, <2>1, <1>1, <1>2
  <2> QED BY <2>1, <2>2 DEF EndsWith
<1>3. ASSUME NEW e \in ElementId, Silent(r, e), e # h.id PROVE Silent(q, e)
  <2>1. ASSUME NEW i \in 1..Len(q) PROVE q[i].id # e
    <3>1. CASE i = 1
      BY <3>1, <1>1, <1>3
    <3>2. CASE i # 1
      <4>1. i - 1 \in 1..n /\ (i - 1) + 1 = i
        BY <3>2, <1>1
      <4> QED BY <4>1, <1>1, <1>3 DEF Silent
    <3> QED BY <3>1, <3>2
  <2> QED BY <2>1 DEF Silent
<1>4. ASSUME NEW e \in ElementId, Silent(r, e), e = h.id PROVE h.late \/ h.reports = k[e]
  <2>1. ASSUME NEW j \in 1..Len(q), j > 1 PROVE q[j].id # q[1].id
    <3>1. j - 1 \in 1..n /\ (j - 1) + 1 = j
      BY <2>1, <1>1
    <3> QED BY <3>1, <1>1, <1>4 DEF Silent
  <2>2. 1 \in 1..Len(q)
    BY <1>1
  <2> QED BY <2>1, <2>2, <1>1, <1>4 DEF EndsWith
<1>5. EndsWith(r, k)
  BY <1>2 DEF EndsWith
<1> QED BY <1>1, <1>3, <1>4, <1>5 DEF r, h

\* A report moves from one queue to the next.
LEMMA ReportForwarded ==
  ASSUME NEW q \in Seq(Event), NEW p \in Seq(Event), p # <<>>
  PROVE  Append(q, Head(p)) \o Tail(p) = q \o p
<1>1. /\ Head(p) \in Event /\ Tail(p) \in Seq(Event)
      /\ p = <<Head(p)>> \o Tail(p) /\ Append(q, Head(p)) = q \o <<Head(p)>>
      /\ <<Head(p)>> \in Seq(Event)
  BY HeadTailProperties, HeadTailAppend, AppendIsConcat
<1> QED BY <1>1, ConcatAssociative

\* What enters the second of two queues comes last.
LEMMA AppendedBehind ==
  ASSUME NEW q \in Seq(Event), NEW p \in Seq(Event), NEW ev \in Event
  PROVE  q \o Append(p, ev) = Append(q \o p, ev)
<1>1. <<ev>> \in Seq(Event) /\ q \o p \in Seq(Event)
  BY ConcatProperties
<1>2. Append(p, ev) = p \o <<ev>> /\ Append(q \o p, ev) = (q \o p) \o <<ev>>
  BY <1>1, AppendIsConcat
<1> QED BY <1>1, <1>2, ConcatAssociative

\* The head of two queues is that of the first.
LEMMA HeadOfBoth ==
  ASSUME NEW q \in Seq(Event), NEW p \in Seq(Event), q # <<>>
  PROVE  q \o p # <<>> /\ Head(q \o p) = Head(q) /\ Tail(q \o p) = Tail(q) \o p
<1>1. /\ Head(q) \in Event /\ Tail(q) \in Seq(Event) /\ q = <<Head(q)>> \o Tail(q)
      /\ <<Head(q)>> \in Seq(Event)
  BY HeadTailProperties, HeadTailAppend
<1>2. q \o p = <<Head(q)>> \o (Tail(q) \o p) /\ Tail(q) \o p \in Seq(Event)
  BY <1>1, ConcatAssociative, ConcatProperties
<1> QED BY <1>1, <1>2, HeadTailAppend

----------------------------------------------------------------------------
LEMMA InitHolds == Init => IInv
<1> SUFFICES ASSUME Init PROVE IInv
  OBVIOUS
<1>1. <<>> \in Seq(Event) /\ Len(<<>>) = 0 /\ <<>> \o <<>> = <<>> /\ Nothing \in Reported
  BY EmptySeq, ConcatEmptySeq DEF Nothing, Reported
<1>2. Typed
  <2>1. Closed \in Loop
    BY <1>1 DEF Closed, Loop
  <2>2. queue \in [Client -> Seq(Event)] /\ \A c \in Client : Len(queue[c]) <= ClientCapacity
    BY <1>1, EventStreamAssumption DEF Init
  <2>3. events \in Seq(Event) /\ Len(events) <= EventCapacity
    BY <1>1, EventStreamAssumption DEF Init
  <2> QED BY <1>1, <2>1, <2>2, <2>3 DEF Init, Typed
<1>3. ASSUME NEW c \in Client PROVE Truthful(c) /\ Anchored(c)
  BY <1>1 DEF Init, Truthful, Anchored, OnItsWay, EndsWith, Closed
<1> QED BY <1>2, <1>3 DEF IInv

\* What the invariant says of one client, with its path named.
LEMMA PathTyped ==
  ASSUME Typed, NEW c \in Client
  PROVE  /\ queue[c] \in Seq(Event) /\ events \in Seq(Event) /\ OnItsWay(c) \in Seq(Event)
         /\ cache \in Reported /\ Base(c) \in Reported
         /\ server[c] \in Loop
  BY ConcatProperties DEF Typed, OnItsWay, Base, Loop

\* A report sent with its change, or marked late, goes to the end of every path.
LEMMA EmitKeeps ==
  ASSUME IInv, NEW ev \in Event, Emit(ev), cache' \in Reported,
         \A e \in ElementId : e # ev.id => cache'[e] = cache[e],
         ev.late \/ ev.reports = cache'[ev.id],
         UNCHANGED <<forwarder, connection>>
  PROVE  /\ events' \in Seq(Event) /\ Len(events') <= EventCapacity /\ overflowed' \in BOOLEAN
         /\ \A c \in Client : Truthful(c)' /\ Anchored(c)'
<1>1. /\ Typed /\ events \in Seq(Event) /\ Len(events) <= EventCapacity /\ EventCapacity \in Nat \ {0}
      /\ Len(events) \in Nat
  BY EventStreamAssumption, LenProperties DEF IInv, Typed
<1>2. events' \in Seq(Event) /\ Len(events') <= EventCapacity /\ overflowed' \in BOOLEAN
  <2>1. CASE forwarder = "stopped"
    BY <2>1, <1>1 DEF Emit, channel, Typed
  <2>2. CASE forwarder # "stopped" /\ Len(events) < EventCapacity
    <3>1. events' = Append(events, ev) /\ overflowed' \in BOOLEAN
      BY <2>2 DEF Emit, Pushed
    <3>2. Append(events, ev) \in Seq(Event) /\ Len(Append(events, ev)) = Len(events) + 1
      BY <1>1, AppendProperties
    <3> QED BY <3>1, <3>2, <2>2, <1>1
  <2>3. CASE forwarder # "stopped" /\ ~(Len(events) < EventCapacity)
    <3>1. events' = Append(Tail(events), ev) /\ overflowed' \in BOOLEAN
      BY <2>3 DEF Emit, Pushed
    <3>2. events # <<>> /\ Len(events) = EventCapacity
      BY <2>3, <1>1, EmptySeq
    <3>3. Tail(events) \in Seq(Event) /\ Len(Tail(events)) = Len(events) - 1
      BY <3>2, <1>1, HeadTailProperties
    <3>4. /\ Append(Tail(events), ev) \in Seq(Event)
          /\ Len(Append(Tail(events), ev)) = Len(Tail(events)) + 1
      BY <3>3, AppendProperties
    <3> QED BY <3>1, <3>2, <3>3, <3>4, <1>1
  <2> QED BY <2>1, <2>2, <2>3
<1>3. ASSUME NEW c \in Client PROVE Truthful(c)' /\ Anchored(c)'
  <2>0. UNCHANGED <<forwarder, server, queue, lagged, mirror, trust>>
    BY DEF connection
  <2>1. CASE ~Flowing'
    BY <2>0, <2>1 DEF IInv, Truthful, Anchored
  <2>2. CASE Flowing'
    <3>1. Flowing /\ events' = Append(events, ev)
      <4>1. /\ forwarder = "running" /\ ~overflowed'
            /\ events' = Pushed(events, ev, EventCapacity)
            /\ overflowed' = (overflowed \/ Len(events) = EventCapacity)
        BY <2>0, <2>2 DEF Flowing, Emit
      <4>2. Len(events) # EventCapacity /\ ~overflowed
        BY <4>1
      <4>3. Len(events) < EventCapacity
        BY <4>2, <1>1
      <4> QED BY <4>1, <4>2, <4>3 DEF Flowing, Pushed
    <3>2. /\ queue[c] \in Seq(Event) /\ OnItsWay(c) \in Seq(Event)
          /\ OnItsWay(c)' = Append(OnItsWay(c), ev)
      <4>1. queue[c] \in Seq(Event) /\ OnItsWay(c) \in Seq(Event)
        BY <1>1, PathTyped
      <4>2. OnItsWay(c)' = queue[c] \o Append(events, ev)
        BY <2>0, <3>1 DEF OnItsWay
      <4> QED BY <4>1, <4>2, <1>1, AppendedBehind DEF OnItsWay
    <3>3. EndsWith(OnItsWay(c), cache) /\ Anchored(c) /\ cache \in Reported
      BY <3>1, <1>1 DEF IInv, Truthful, Typed
    <3>4. /\ EndsWith(OnItsWay(c)', cache')
          /\ \A e \in ElementId : Silent(OnItsWay(c)', e) => Silent(OnItsWay(c), e) /\ e # ev.id
      BY <3>2, <3>3, ReportAppended
    <3>5. ASSUME NEW m, AgreesBut(OnItsWay(c), m, cache) PROVE AgreesBut(OnItsWay(c)', m, cache')
      BY <3>4, <3>5 DEF AgreesBut
    <3>6. Base(c)' = Base(c)
      BY <2>0 DEF Base
    <3>7. Truthful(c)'
      BY <3>4 DEF Truthful
    <3>8. Anchored(c)'
      BY <2>0, <3>1, <3>3, <3>5, <3>6 DEF Anchored
    <3> QED BY <3>7, <3>8
  <2> QED BY <2>1, <2>2
<1> QED BY <1>2, <1>3

LEMMA MutateKeeps == ASSUME IInv, Mutate PROVE IInv'
<1>1. Typed
  BY DEF IInv
<1> DEFINE Others == UNCHANGED <<forwarder, connection>> /\ focus' \in {NoFocus} \cup [id : ElementId, value : Value]
<1>2. ASSUME NEW ev \in Event, Emit(ev), cache' \in Reported,
             \A e \in ElementId : e # ev.id => cache'[e] = cache[e],
             ev.late \/ ev.reports = cache'[ev.id], Others
      PROVE  IInv'
  <2>1. /\ events' \in Seq(Event) /\ Len(events') <= EventCapacity /\ overflowed' \in BOOLEAN
        /\ \A c \in Client : Truthful(c)' /\ Anchored(c)'
    BY <1>2, EmitKeeps
  <2>2. Typed'
    BY <2>1, <1>1, <1>2 DEF Typed, connection
  <2> QED BY <2>1, <2>2 DEF IInv
<1>3. ASSUME NEW e \in ElementId, RemoveElement(e) PROVE IInv'
  <2>1. Report(e, None) \in Event /\ Report(e, None).id = e /\ Report(e, None).reports = None
    BY DEF Report, Event
  <2>2. cache' \in Reported /\ cache'[e] = None /\ \A o \in ElementId : o # e => cache'[o] = cache[o]
    BY <1>1, <1>3 DEF RemoveElement, Typed, Reported
  <2>3. Others /\ Emit(Report(e, None))
    BY <1>1, <1>3 DEF RemoveElement, Typed
  <2> QED BY <2>1, <2>2, <2>3, <1>2
<1>4. ASSUME NEW e \in ElementId, FocusReads(e) PROVE IInv'
  <2>1. focus' \in [id : ElementId, value : Value] /\ UNCHANGED <<cache, channel, forwarder, connection>>
    BY <1>1, <1>4 DEF FocusReads, Typed, Reported
  <2> QED BY <2>1 DEF IInv, Typed, Truthful, Anchored, Flowing, Base, OnItsWay, channel, connection
<1>5. ASSUME NEW e \in ElementId, NEW v \in Value, AddElement(e, v) \/ ChangeElement(e, v) PROVE IInv'
  <2>1. Report(e, v) \in Event /\ Report(e, v).id = e /\ Report(e, v).reports = v
    BY DEF Report, Event
  <2>2. cache' \in Reported /\ cache'[e] = v /\ \A o \in ElementId : o # e => cache'[o] = cache[o]
    <3>1. cache' = [cache EXCEPT ![e] = v] /\ cache \in Reported
      BY <1>1, <1>5 DEF AddElement, ChangeElement, Typed
    <3> QED BY <3>1 DEF Reported
  <2>3. Others /\ Emit(Report(e, v))
    BY <1>1, <1>5 DEF AddElement, ChangeElement, Typed
  <2> QED BY <2>1, <2>2, <2>3, <1>2
<1>6. CASE FocusAnnounced
  <2> DEFINE ev == [id |-> focus.id, reports |-> focus.value, late |-> focus.value # cache[focus.id]]
  <2>1. focus \in [id : ElementId, value : Value]
    BY <1>1, <1>6 DEF FocusAnnounced, Typed
  <2>2. ev \in Event /\ (ev.late \/ ev.reports = cache[ev.id])
    BY <2>1 DEF Event
  <2>3. Others /\ Emit(ev) /\ cache' = cache /\ cache \in Reported
    BY <1>1, <1>6 DEF FocusAnnounced, Typed
  <2> HIDE DEF ev
  <2> QED BY <2>2, <2>3, <1>2
<1>7. CASE FocusUnchanged
  BY <1>7 DEF FocusUnchanged, IInv, Typed, Truthful, Anchored, Flowing, Base, OnItsWay, channel, connection
<1> QED BY <1>3, <1>4, <1>5, <1>6, <1>7 DEF Mutate

\* A queue that takes the oldest event has room for it, or loses its own oldest.
LEMMA PushedQueue ==
  ASSUME NEW q \in Seq(Event), NEW ev \in Event, NEW n \in Nat \ {0}, Len(q) <= n
  PROVE  /\ Pushed(q, ev, n) \in Seq(Event) /\ Len(Pushed(q, ev, n)) <= n
         /\ Len(q) # n => Pushed(q, ev, n) = Append(q, ev)
         /\ Len(q) = n => q # <<>> /\ Pushed(q, ev, n) = Append(Tail(q), ev) /\ Tail(q) \in Seq(Event)
<1>1. Len(q) \in Nat
  BY LenProperties
<1>2. CASE Len(q) # n
  <2>1. Pushed(q, ev, n) = Append(q, ev)
    BY <1>1, <1>2 DEF Pushed
  <2>2. Append(q, ev) \in Seq(Event) /\ Len(Append(q, ev)) = Len(q) + 1
    BY AppendProperties
  <2> QED BY <1>1, <1>2, <2>1, <2>2
<1>3. CASE Len(q) = n
  <2>1. Pushed(q, ev, n) = Append(Tail(q), ev) /\ q # <<>>
    BY <1>1, <1>3, EmptySeq DEF Pushed
  <2>2. Tail(q) \in Seq(Event) /\ Len(Tail(q)) = Len(q) - 1
    BY <2>1, HeadTailProperties
  <2>3. Append(Tail(q), ev) \in Seq(Event) /\ Len(Append(Tail(q), ev)) = Len(Tail(q)) + 1
    BY <2>2, AppendProperties
  <2> QED BY <1>1, <1>3, <2>1, <2>2, <2>3
<1> QED BY <1>2, <1>3

LEMMA ForwardKeeps == ASSUME IInv, Forward PROVE IInv'
<1> DEFINE h == Head(events)
<1>1. /\ Typed /\ events # <<>> /\ events \in Seq(Event)
      /\ h \in Event /\ Tail(events) \in Seq(Event) /\ Len(Tail(events)) = Len(events) - 1
      /\ ClientCapacity \in Nat \ {0} /\ EventCapacity \in Nat \ {0} /\ Len(events) \in Nat
  <2>1. Typed /\ events # <<>> /\ events \in Seq(Event)
    BY DEF IInv, Typed, Forward
  <2> QED BY <2>1, EventStreamAssumption, HeadTailProperties, LenProperties
<1>2. /\ events' = Tail(events) /\ ~overflowed
      /\ UNCHANGED <<registry, overflowed, forwarder, server, mirror, trust>>
  BY DEF Forward
<1>3. ASSUME NEW c \in Client
      PROVE  /\ queue[c] \in Seq(Event) /\ Len(queue[c]) <= ClientCapacity
             /\ queue'[c] = IF Subscribed(c) THEN Pushed(queue[c], h, ClientCapacity) ELSE <<>>
             /\ lagged'[c] = (lagged[c] \/ (Subscribed(c) /\ Len(queue[c]) = ClientCapacity))
             /\ queue'[c] \in Seq(Event) /\ Len(queue'[c]) <= ClientCapacity
  <2>1. queue[c] \in Seq(Event) /\ Len(queue[c]) <= ClientCapacity
    BY <1>1 DEF Typed
  <2>2. /\ queue'[c] = IF Subscribed(c) THEN Pushed(queue[c], h, ClientCapacity) ELSE <<>>
        /\ lagged'[c] = (lagged[c] \/ (Subscribed(c) /\ Len(queue[c]) = ClientCapacity))
    BY DEF Forward
  <2> QED BY <1>1, <2>1, <2>2, PushedQueue, EmptySeq
<1>4. Typed'
  <2>1. queue' \in [Client -> Seq(Event)]
    <3>1. queue' = [c \in Client |-> queue'[c]]
      BY DEF Forward
    <3> QED BY <1>3, <3>1
  <2>2. lagged' \in [Client -> BOOLEAN]
    BY DEF Forward
  <2>3. events' \in Seq(Event) /\ Len(events') <= EventCapacity
    BY <1>1, <1>2 DEF Typed
  <2> QED BY <1>1, <1>2, <1>3, <2>1, <2>2, <2>3 DEF Typed, registry
<1>5. ASSUME NEW c \in Client PROVE Truthful(c)' /\ Anchored(c)'
  <2> DEFINE p == OnItsWay(c)
  <2>1. /\ p \in Seq(Event) /\ queue[c] \in Seq(Event) /\ p = queue[c] \o events
        /\ p' = queue'[c] \o Tail(events) /\ cache \in Reported /\ cache' = cache
        /\ Base(c)' = Base(c) /\ server'[c] = server[c] /\ trust'[c] = trust[c]
        /\ Flowing' = Flowing /\ Truthful(c) /\ Anchored(c)
    BY <1>1, <1>2, PathTyped DEF OnItsWay, Base, Flowing, registry, IInv
  <2>2. CASE Subscribed(c) /\ Len(queue[c]) # ClientCapacity
    <3>1. p' = p /\ lagged'[c] = lagged[c]
      <4>1. queue'[c] = Append(queue[c], h)
        BY <1>1, <1>3, <2>2, PushedQueue
      <4>2. Append(queue[c], h) \o Tail(events) = queue[c] \o events
        BY <1>1, <2>1, ReportForwarded
      <4>3. lagged[c] \in BOOLEAN
        BY <1>1 DEF Typed
      <4> QED BY <2>1, <4>1, <4>2, <4>3, <1>3, <2>2
    <3> HIDE DEF p
    <3>2. Truthful(c)'
      BY <2>1, <3>1 DEF Truthful, p
    <3>3. Anchored(c)'
      BY <2>1, <2>2, <3>1 DEF Anchored, p, Subscribed
    <3> QED BY <3>2, <3>3
  <2>3. CASE Subscribed(c) /\ Len(queue[c]) = ClientCapacity
    <3>1. p # <<>> /\ p' = Tail(p)
      <4>1. /\ queue[c] # <<>> /\ Tail(queue[c]) \in Seq(Event)
            /\ queue'[c] = Append(Tail(queue[c]), h)
        BY <1>1, <1>3, <2>3, PushedQueue
      <4>2. /\ queue[c] \o events # <<>>
            /\ Tail(queue[c] \o events) = Tail(queue[c]) \o events
        BY <1>1, <2>1, <4>1, HeadOfBoth, Zenon
      <4>3. Append(Tail(queue[c]), h) \o Tail(events) = Tail(queue[c]) \o events
        BY <1>1, <4>1, ReportForwarded
      <4> QED BY <2>1, <4>1, <4>2, <4>3
    <3>2. lagged'[c]
      BY <1>3, <2>3
    <3>3. Truthful(c)'
      BY <2>1, <3>1, ReportTaken DEF Truthful
    <3>4. Anchored(c)'
      BY <2>1, <2>3, <3>2 DEF Anchored, Subscribed
    <3> QED BY <3>3, <3>4
  <2>4. CASE ~Subscribed(c)
    <3>1. queue[c] = <<>> /\ trust[c] = "none" /\ server[c].at = "closed"
      BY <2>1, <2>4 DEF Anchored, Subscribed
    <3>2. p = events /\ queue'[c] = <<>> /\ p' = Tail(p)
      <4>1. queue'[c] = <<>>
        BY <1>3, <2>4
      <4>2. <<>> \o events = events /\ <<>> \o Tail(events) = Tail(events)
        BY <1>1, ConcatEmptySeq
      <4> QED BY <2>1, <3>1, <4>1, <4>2
    <3>3. Truthful(c)'
      BY <1>1, <2>1, <3>2, ReportTaken DEF Truthful
    <3>4. Anchored(c)'
      BY <2>1, <3>1, <3>2 DEF Anchored
    <3> QED BY <3>3, <3>4
  <2> QED BY <2>2, <2>3, <2>4
<1> QED BY <1>4, <1>5 DEF IInv

LEMMA ForwarderStopsKeeps == ASSUME IInv, ForwarderStops PROVE IInv'
<1>1. Typed'
  <2>1. events' \in Seq(Event) /\ Len(events') <= EventCapacity
    BY EmptySeq, EventStreamAssumption DEF ForwarderStops
  <2> QED BY <2>1 DEF IInv, Typed, ForwarderStops, registry
<1>2. ASSUME NEW c \in Client PROVE Truthful(c)' /\ Anchored(c)'
  <2>1. ~Flowing' /\ trust'[c] = "none"
    BY DEF ForwarderStops, Flowing
  <2>2. queue'[c] = queue[c] /\ server'[c] = server[c] /\ Anchored(c)
    BY DEF ForwarderStops, IInv
  <2> QED BY <2>1, <2>2 DEF Truthful, Anchored
<1> QED BY <1>1, <1>2 DEF IInv

----------------------------------------------------------------------------
\* A step of c's connection.
Only(c) ==
  /\ UNCHANGED <<registry, channel, forwarder>>
  /\ \A d \in Client : d # c =>
       /\ server'[d] = server[d] /\ queue'[d] = queue[d] /\ lagged'[d] = lagged[d]
       /\ mirror'[d] = mirror[d] /\ trust'[d] = trust[d]

LEMMA OnlyKeeps ==
  ASSUME IInv, NEW c \in Client, Only(c), Typed', Truthful(c)', Anchored(c)'
  PROVE  IInv'
<1>1. ASSUME NEW d \in Client, d # c PROVE Truthful(d)' /\ Anchored(d)'
  <2>1. /\ UNCHANGED <<cache, events, overflowed, forwarder>>
        /\ server'[d] = server[d] /\ queue'[d] = queue[d] /\ lagged'[d] = lagged[d]
        /\ mirror'[d] = mirror[d] /\ trust'[d] = trust[d] /\ Truthful(d) /\ Anchored(d)
    BY <1>1 DEF Only, registry, channel, IInv
  <2>2. OnItsWay(d)' = OnItsWay(d) /\ Flowing' = Flowing /\ Base(d)' = Base(d)
    BY <2>1 DEF OnItsWay, Flowing, Base
  <2> QED BY <2>1, <2>2 DEF Truthful, Anchored
<1> QED BY <1>1 DEF IInv

\* Nothing is on its way but what is in the channel.
LEMMA NothingQueued ==
  ASSUME IInv, NEW c \in Client, Only(c), queue'[c] = <<>>
  PROVE  Truthful(c)' /\ OnItsWay(c)' = events
<1>1. /\ queue[c] \in Seq(Event) /\ events \in Seq(Event) /\ OnItsWay(c) = queue[c] \o events
      /\ cache \in Reported /\ Truthful(c) /\ Flowing' = Flowing
      /\ UNCHANGED <<cache, events>>
  BY PathTyped DEF IInv, Only, registry, channel, Flowing, OnItsWay
<1>2. OnItsWay(c)' = events
  BY <1>1, ConcatEmptySeq DEF OnItsWay
<1>3. ASSUME EndsWith(queue[c] \o events, cache) PROVE EndsWith(events, cache)
  <2> DEFINE q == queue[c]
             p == q \o events
  <2>1. /\ Len(q) \in Nat /\ Len(events) \in Nat /\ Len(p) = Len(q) + Len(events)
        /\ \A i \in 1..Len(q) + Len(events) : p[i] = IF i <= Len(q) THEN q[i] ELSE events[i - Len(q)]
    BY <1>1, ConcatProperties, LenProperties
  <2>2. \A i \in 1..Len(events) : Len(q) + i \in 1..Len(p) /\ p[Len(q) + i] = events[i]
    <3> TAKE i \in 1..Len(events)
    <3>1. /\ Len(q) + i \in 1..Len(q) + Len(events) /\ ~(Len(q) + i <= Len(q))
          /\ (Len(q) + i) - Len(q) = i
      BY <2>1
    <3> QED BY <3>1, <2>1
  <2> HIDE DEF p, q
  <2>3. ASSUME NEW i \in 1..Len(events),
               \A j \in 1..Len(events) : j > i => events[j].id # events[i].id
        PROVE  events[i].late \/ events[i].reports = cache[events[i].id]
    <3>1. ASSUME NEW j \in 1..Len(p), j > Len(q) + i PROVE p[j].id # p[Len(q) + i].id
      <4>1. j - Len(q) \in 1..Len(events) /\ j - Len(q) > i /\ Len(q) + (j - Len(q)) = j
        BY <3>1, <2>1
      <4> QED BY <4>1, <2>2, <2>3
    <3>2. Len(q) + i \in 1..Len(p) /\ p[Len(q) + i] = events[i]
      BY <2>2
    <3> QED BY <1>3, <3>1, <3>2 DEF EndsWith, p, q
  <2> QED BY <2>3 DEF EndsWith
<1> QED BY <1>1, <1>2, <1>3 DEF Truthful

LEMMA ConnectKeeps ==
  ASSUME IInv, NEW c \in Client, Connect(c) \/ Disconnect(c)
  PROVE  IInv'
<1>1. /\ Only(c) /\ queue'[c] = <<>> /\ trust'[c] = "none"
      /\ server'[c].at \in {"init", "closed"} /\ server'[c] \in Loop
  <2>1. Typed /\ server[c] \in Loop /\ Nothing \in Reported
    BY PathTyped DEF IInv, Nothing, Reported
  <2>2. CASE Connect(c)
    BY <2>1, <2>2 DEF Connect, Only, Loop, Typed
  <2>3. CASE Disconnect(c)
    BY <2>1, <2>3 DEF Disconnect, Only, Loop, Typed, Closed
  <2> QED BY <2>2, <2>3
<1>2. Typed'
  <2>1. /\ server' = [server EXCEPT ![c] = server'[c]]
        /\ queue' = [queue EXCEPT ![c] = <<>>]
        /\ lagged' = [lagged EXCEPT ![c] = FALSE]
        /\ trust' = [trust EXCEPT ![c] = "none"]
        /\ UNCHANGED <<registry, channel, forwarder, mirror>>
    BY DEF Connect, Disconnect, IInv, Typed
  <2>2. <<>> \in Seq(Event) /\ Len(<<>>) = 0
    BY EmptySeq
  <2>3. queue' \in [Client -> Seq(Event)] /\ \A d \in Client : Len(queue'[d]) <= ClientCapacity
    BY <2>1, <2>2, EventStreamAssumption DEF IInv, Typed
  <2> QED BY <1>1, <2>1, <2>3 DEF IInv, Typed, registry, channel
<1>3. Truthful(c)' /\ Anchored(c)'
  BY <1>1, NothingQueued DEF Anchored
<1> QED BY <1>1, <1>2, <1>3, OnlyKeeps

\* The loop of an open connection, and what it does to the mirror alone.
LEMMA PathStays ==
  ASSUME IInv, NEW c \in Client, Only(c), queue'[c] = queue[c]
  PROVE  /\ Truthful(c)' /\ OnItsWay(c)' = OnItsWay(c) /\ Flowing' = Flowing /\ cache' = cache
BY DEF IInv, Only, Truthful, Flowing, OnItsWay, registry, channel

LEMMA InitSnapshotKeeps == ASSUME IInv, NEW c \in Client, InitSnapshot(c) PROVE IInv'
<1>1. /\ Only(c) /\ queue'[c] = queue[c] /\ server[c].at = "init" /\ server[c] \in Loop
      /\ server' = [server EXCEPT ![c] = server'[c]] /\ server'[c] \in Loop
      /\ server'[c].at = "greet" /\ server'[c].snapshot = cache
  BY PathTyped DEF IInv, InitSnapshot, Only, Typed, Loop
<1>2. Typed'
  BY <1>1 DEF IInv, Typed, InitSnapshot, registry, channel
<1>3. Base(c)' = cache /\ cache' = cache
  BY <1>1 DEF Base, Only, registry
<1>4. Truthful(c)' /\ Anchored(c)'
  BY <1>1, <1>3, PathStays DEF Anchored, AgreesBut
<1> QED BY <1>1, <1>2, <1>4, OnlyKeeps

LEMMA SyncInitKeeps == ASSUME IInv, NEW c \in Client, SyncInit(c) PROVE IInv'
<1>1. /\ Only(c) /\ queue' = queue /\ server[c].at = "greet" /\ server[c] \in Loop
      /\ server' = [server EXCEPT ![c] = server'[c]] /\ server'[c] \in Loop
      /\ server'[c].at = "open" /\ mirror'[c] = server[c].snapshot
      /\ UNCHANGED <<lagged, trust>>
  <2>1. server[c] \in Loop /\ Nothing \in Reported /\ Typed
    BY PathTyped DEF IInv, Nothing, Reported
  <2> QED BY <2>1 DEF SyncInit, QueueSinceConnect, Only, Typed, Loop, Closed
<1>2. Typed'
  <2>1. server[c].snapshot \in Reported
    BY <1>1 DEF Loop
  <2> QED BY <1>1, <2>1 DEF IInv, Typed, SyncInit, registry, channel
<1>3. Base(c)' = Base(c)
  BY <1>1 DEF Base
<1>4. Truthful(c)' /\ Anchored(c)'
  BY <1>1, <1>3, PathStays DEF Anchored, IInv
<1> QED BY <1>1, <1>2, <1>4, OnlyKeeps

LEMMA SkipLostKeeps == ASSUME IInv, NEW c \in Client, SkipLost(c) PROVE IInv'
<1>1. /\ Only(c) /\ queue' = queue /\ server' = server /\ server[c].at = "open"
      /\ trust'[c] = "none" /\ Typed'
  BY DEF IInv, SkipLost, Only, Typed, registry, channel
<1>2. Truthful(c)' /\ Anchored(c)'
  BY <1>1, PathStays DEF Anchored
<1> QED BY <1>1, <1>2, OnlyKeeps

LEMMA AskKeeps == ASSUME IInv, NEW c \in Client, AskSnapshot(c) \/ TimeOut(c) PROVE IInv'
<1>1. /\ Only(c) /\ UNCHANGED <<queue, lagged, mirror, trust>> /\ server[c] \in Loop
      /\ server' = [server EXCEPT ![c] = server'[c]] /\ server'[c] \in Loop
      /\ server'[c].snapshot = server[c].snapshot /\ server'[c].passed = server[c].passed
      /\ \/ server'[c].at = server[c].at
         \/ server[c].at = "open" /\ server'[c].at = "dispatch"
  <2>1. server[c] \in Loop /\ Typed
    BY PathTyped DEF IInv
  <2>2. CASE AskSnapshot(c)
    BY <2>1, <2>2 DEF AskSnapshot, Only, Typed, Loop
  <2>3. CASE TimeOut(c)
    BY <2>1, <2>3 DEF TimeOut, Only, Typed, Loop
  <2> QED BY <2>2, <2>3
<1>2. Typed'
  BY <1>1 DEF IInv, Typed, Only, registry, channel
<1>3. Base(c)' = Base(c)
  BY <1>1 DEF Base
<1>4. Truthful(c)' /\ Anchored(c)'
  BY <1>1, <1>3, PathStays DEF Anchored, IInv
<1> QED BY <1>1, <1>2, <1>4, OnlyKeeps

LEMMA TakeSnapshotKeeps == ASSUME IInv, NEW c \in Client, TakeSnapshot(c) PROVE IInv'
<1>1. /\ Only(c) /\ UNCHANGED <<queue, lagged, mirror, trust>> /\ server[c] \in Loop
      /\ server' = [server EXCEPT ![c] = server'[c]] /\ server'[c] \in Loop
      /\ server[c].at = "dispatch" /\ server'[c].at = "flush" /\ server'[c].snapshot = cache
  BY PathTyped DEF IInv, TakeSnapshot, Only, Typed, Loop
<1>2. Typed'
  BY <1>1 DEF IInv, Typed, Only, registry, channel
<1>3. Base(c)' = Base(c)
  BY <1>1 DEF Base
<1>4. Truthful(c)' /\ Anchored(c)'
  BY <1>1, <1>3, PathStays DEF Anchored, IInv, AgreesBut
<1> QED BY <1>1, <1>2, <1>4, OnlyKeeps

\* The oldest report on the way is applied to the mirror.
LEMMA ReceivesKeeps ==
  ASSUME IInv, NEW c \in Client, Deliver(c) \/ Flush(c)
  PROVE  IInv'
<1> DEFINE p == OnItsWay(c)
           h == Head(queue[c])
<1>1. /\ Typed /\ server[c] \in Loop /\ queue[c] # <<>> /\ ~lagged[c] /\ lagged' = lagged
      /\ server[c].at \in {"open", "flush"}
      /\ Truthful(c) /\ Anchored(c)
  <2>1. Typed /\ server[c] \in Loop /\ Truthful(c) /\ Anchored(c)
    BY PathTyped DEF IInv
  <2> QED BY <2>1 DEF Deliver, Flush, Receives
<1>2. /\ queue[c] \in Seq(Event) /\ events \in Seq(Event) /\ p \in Seq(Event) /\ p = queue[c] \o events
      /\ cache \in Reported /\ mirror[c] \in Reported
  BY <1>1, PathTyped DEF OnItsWay, Typed
<1>3. /\ h \in Event /\ Tail(queue[c]) \in Seq(Event) /\ Len(Tail(queue[c])) = Len(queue[c]) - 1
      /\ Len(queue[c]) \in Nat
  BY <1>1, <1>2, HeadTailProperties, LenProperties
<1>4. /\ Receives(c) /\ UNCHANGED <<registry, channel, forwarder>>
      /\ server' = [server EXCEPT ![c] = server'[c]] /\ server'[c] \in Loop
      /\ server'[c].at = server[c].at
      /\ server'[c].at = "flush" => server'[c].passed
  <2>1. CASE Deliver(c)
    BY <1>1, <2>1 DEF Deliver, Typed, Loop
  <2>2. CASE Flush(c)
    BY <1>1, <2>2 DEF Flush, Typed, Loop
  <2> QED BY <2>1, <2>2
<1>5. /\ queue' = [queue EXCEPT ![c] = Tail(queue[c])]
      /\ mirror' = [mirror EXCEPT ![c] = Applied(mirror[c], h)]
      /\ trust' = [trust EXCEPT ![c] = IF h.late THEN "none" ELSE trust[c]]
  BY <1>4 DEF Receives
<1>6. Applied(mirror[c], h) \in Reported
  BY <1>2, <1>3 DEF Applied, Reported, Event
<1>7. Typed' /\ Only(c)
  <2>1. queue' \in [Client -> Seq(Event)] /\ \A d \in Client : Len(queue'[d]) <= ClientCapacity
    <3>1. Len(Tail(queue[c])) <= ClientCapacity
      BY <1>1, <1>3, EventStreamAssumption DEF Typed
    <3> QED BY <1>1, <1>3, <1>5, <3>1 DEF Typed
  <2>2. mirror' \in [Client -> Reported]
    BY <1>1, <1>5, <1>6 DEF Typed
  <2>3. trust' \in [Client -> {"none", "synced", "resynced"}]
    <3>1. (IF h.late THEN "none" ELSE trust[c]) \in {"none", "synced", "resynced"}
      BY <1>1 DEF Typed
    <3> QED BY <1>1, <1>5, <3>1 DEF Typed
  <2>4. server' \in [Client -> Loop]
    BY <1>1, <1>4 DEF Typed
  <2>5. Typed'
    BY <1>1, <1>4, <2>1, <2>2, <2>3, <2>4 DEF Typed, registry, channel
  <2>6. Only(c)
    <3> HIDE DEF h
    <3> QED BY <1>1, <1>4, <1>5 DEF Only, Typed
  <2> QED BY <2>5, <2>6
<1>8. p # <<>> /\ Head(p) = h /\ p' = Tail(p) /\ Flowing' = Flowing /\ cache' = cache
  <2>1. /\ queue[c] \o events # <<>> /\ Head(queue[c] \o events) = h
        /\ Tail(queue[c] \o events) = Tail(queue[c]) \o events
    BY <1>1, <1>2, HeadOfBoth, Zenon
  <2>2. queue'[c] = Tail(queue[c])
    BY <1>1, <1>5 DEF Typed
  <2>3. p' = Tail(queue[c]) \o events /\ Flowing' = Flowing /\ cache' = cache
    BY <1>4, <2>2 DEF OnItsWay, registry, channel, Flowing
  <2> QED BY <1>2, <2>1, <2>3
<1> HIDE DEF p, h
<1>9. ASSUME Flowing
      PROVE  /\ EndsWith(p', cache)
             /\ \A e \in ElementId : Silent(p', e) =>
                  \/ Silent(p, e) /\ e # h.id
                  \/ e = h.id /\ (h.late \/ h.reports = cache[e])
  <2>1. EndsWith(p, cache)
    BY <1>1, <1>9 DEF Truthful, p
  <2> QED BY <1>2, <1>8, <2>1, ReportTaken
<1>10. Truthful(c)'
  BY <1>8, <1>9 DEF Truthful, p
<1>11. ASSUME Flowing, trust'[c] = "synced" PROVE AgreesBut(p', mirror'[c], cache)
  <2>1. ~h.late /\ trust[c] = "synced"
    BY <1>1, <1>5, <1>11 DEF Typed
  <2>2. AgreesBut(p, mirror[c], cache)
    BY <1>1, <1>11, <2>1 DEF Anchored, Base, p
  <2>3. /\ mirror'[c] = Applied(mirror[c], h)
        /\ Applied(mirror[c], h) = [mirror[c] EXCEPT ![h.id] = h.reports]
    BY <1>1, <1>5 DEF Typed, Applied
  <2>4. ASSUME NEW e \in ElementId, Silent(p', e) PROVE mirror'[c][e] = cache[e]
    <3>1. CASE Silent(p, e) /\ e # h.id
      <4>1. mirror[c][e] = cache[e]
        BY <2>2, <3>1 DEF AgreesBut
      <4> QED BY <1>2, <2>3, <3>1, <4>1 DEF Reported
    <3>2. CASE e = h.id /\ (h.late \/ h.reports = cache[e])
      BY <1>2, <2>1, <2>3, <3>2 DEF Reported
    <3> QED BY <1>9, <1>11, <2>4, <3>1, <3>2
  <2> QED BY <2>4 DEF AgreesBut
<1>12. Base(c)' = mirror'[c] /\ server'[c].at # "closed"
  BY <1>1, <1>4 DEF Base
<1>13. Anchored(c)'
  BY <1>4, <1>8, <1>11, <1>12 DEF Anchored, p
<1> QED BY <1>7, <1>10, <1>13, OnlyKeeps

\* The answer is as good as the snapshot, if nothing has been applied since.
LEMMA RespondKeeps == ASSUME IInv, NEW c \in Client, Respond(c) PROVE IInv'
<1>1. /\ Typed /\ server[c] \in Loop /\ server[c].at = "flush" /\ Anchored(c)
      /\ UNCHANGED <<registry, channel, forwarder, queue>>
  BY PathTyped DEF IInv, Respond
<1>2. /\ server' = [server EXCEPT ![c] = server'[c]] /\ server'[c] \in Loop /\ server'[c].at = "open"
  <2>1. Nothing \in Reported
    BY DEF Nothing, Reported
  <2> QED BY <1>1, <2>1 DEF Respond, Typed, Loop, Closed
<1>3. mirror'[c] = IF server[c].wanted THEN server[c].snapshot ELSE mirror[c]
  BY <1>1 DEF Respond, Typed
<1>4. trust'[c] = IF lagged[c] THEN "none"
                  ELSE IF ~server[c].wanted THEN trust[c]
                  ELSE IF server[c].passed THEN "resynced" ELSE "synced"
  BY <1>1 DEF Respond, Typed
<1>5. Only(c)
  BY <1>1 DEF Respond, Only, Typed
<1>6. Typed'
  <2>1. mirror' = [mirror EXCEPT ![c] = mirror'[c]] /\ mirror'[c] \in Reported
    BY <1>1, <1>3 DEF Respond, Typed, Loop
  <2>2. trust' = [trust EXCEPT ![c] = trust'[c]] /\ trust'[c] \in {"none", "synced", "resynced"}
    BY <1>1, <1>4 DEF Respond, Typed
  <2>3. lagged' \in [Client -> BOOLEAN]
    BY <1>1 DEF Respond, Typed
  <2> QED BY <1>1, <1>2, <2>1, <2>2, <2>3 DEF Typed, registry, channel
<1>7. Base(c)' = mirror'[c] /\ Base(c) = mirror[c]
  BY <1>1, <1>2 DEF Base
<1>8. Truthful(c)' /\ Anchored(c)'
  <2>1. Truthful(c)' /\ OnItsWay(c)' = OnItsWay(c) /\ Flowing' = Flowing /\ cache' = cache
    BY <1>1, <1>5, PathStays
  <2>2. ASSUME Flowing, trust'[c] = "synced" PROVE AgreesBut(OnItsWay(c), mirror'[c], cache)
    <3>1. ~lagged[c]
      BY <1>4, <2>2
    <3>2. CASE ~server[c].wanted
      BY <1>1, <1>3, <1>4, <1>7, <2>2, <3>1, <3>2 DEF Anchored
    <3>3. CASE server[c].wanted
      BY <1>1, <1>3, <1>4, <2>2, <3>1, <3>3 DEF Anchored
    <3> QED BY <3>2, <3>3
  <2> QED BY <1>2, <1>7, <2>1, <2>2 DEF Anchored
<1> QED BY <1>5, <1>6, <1>8, OnlyKeeps

----------------------------------------------------------------------------
LEMMA NextHolds == IInv /\ [Next]_vars => IInv'
<1> SUFFICES ASSUME IInv, [Next]_vars PROVE IInv'
  OBVIOUS
<1>1. CASE Mutate
  BY <1>1, MutateKeeps
<1>2. CASE Forward
  BY <1>2, ForwardKeeps
<1>3. CASE ForwarderStops
  BY <1>3, ForwarderStopsKeeps
<1>4. ASSUME NEW c \in Client, Serve(c) PROVE IInv'
  BY <1>4, InitSnapshotKeeps, SyncInitKeeps, SkipLostKeeps, TakeSnapshotKeeps, ReceivesKeeps, RespondKeeps
     DEF Serve
<1>5. ASSUME NEW c \in Client, Connect(c) \/ AskSnapshot(c) \/ TimeOut(c) \/ Disconnect(c) PROVE IInv'
  BY <1>5, ConnectKeeps, AskKeeps
<1>6. CASE UNCHANGED vars
  BY <1>6 DEF vars, registry, channel, connection, IInv, Typed, Truthful, Anchored, Flowing, OnItsWay, Base
<1> QED BY <1>1, <1>2, <1>3, <1>4, <1>5, <1>6 DEF Next

LEMMA Invariance == Spec => []IInv
BY InitHolds, NextHolds, PTL DEF Spec

\* What is foretold is the cache: the last report, or the mirror where there is none.
LEMMA InvariantImplies == IInv => MirrorFollows
<1> SUFFICES ASSUME IInv, NEW c \in Client,
                    server[c].at = "open", trust[c] = "synced",
                    forwarder = "running", ~overflowed, ~lagged[c],
                    \A i \in DOMAIN OnItsWay(c) : ~OnItsWay(c)[i].late,
                    NEW e \in ElementId
             PROVE  Foretold(c, e) = cache[e]
  BY DEF MirrorFollows
<1> DEFINE q == OnItsWay(c)
           T == Reports(q, e)
<1>1. /\ q \in Seq(Event) /\ Len(q) \in Nat /\ DOMAIN q = 1..Len(q)
      /\ EndsWith(q, cache) /\ AgreesBut(q, mirror[c], cache)
  <2>1. Typed /\ Truthful(c) /\ Anchored(c) /\ Flowing /\ Base(c) = mirror[c]
    BY DEF IInv, Flowing, Base
  <2>2. q \in Seq(Event)
    BY <2>1, PathTyped
  <2> HIDE DEF q
  <2> QED BY <2>1, <2>2, LenProperties DEF Truthful, Anchored, q
<1> HIDE DEF q
<1>2. T = {i \in 1..Len(q) : q[i].id = e}
  BY <1>1 DEF Reports
<1>3. CASE T = {}
  <2>1. Silent(q, e)
    BY <1>2, <1>3 DEF Silent
  <2>2. Foretold(c, e) = mirror[c][e]
    BY <1>3 DEF Foretold, q
  <2> QED BY <1>1, <2>1, <2>2 DEF AgreesBut
<1>4. CASE T # {}
  <2> DEFINE last == CHOOSE i \in T : \A j \in T : j <= i
  <2>1. \E i \in T : \A j \in T : j <= i
    BY <1>1, <1>2, <1>4, Greatest
  <2>2. last \in T /\ \A j \in T : j <= last
    BY <2>1
  <2>3. Foretold(c, e) = q[last].reports
    BY <1>4 DEF Foretold, q
  <2> HIDE DEF last
  <2>4. last \in 1..Len(q) /\ q[last].id = e /\ ~q[last].late
    BY <1>1, <1>2, <2>2 DEF q
  <2>5. ASSUME NEW j \in 1..Len(q), j > last PROVE q[j].id # q[last].id
    <3>1. j \notin T
      BY <2>2, <2>4, <2>5
    <3> QED BY <1>2, <2>4, <3>1
  <2> QED BY <1>1, <2>3, <2>4, <2>5 DEF EndsWith
<1> QED BY <1>3, <1>4

(***************************************************************************)
(* "Mirrors Rust Registry via WebSocket events" (allio.ts:4): for any      *)
(* clients, elements, values and capacities, a mirror that lost nothing    *)
(* becomes the cache by what is on its way, through connecting, snapshots  *)
(* under way, late answers and overflows of other clients.                 *)
(***************************************************************************)
THEOREM MirrorsFollow == Spec => []MirrorFollows
BY Invariance, InvariantImplies, PTL
============================================================================
