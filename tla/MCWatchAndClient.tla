-------------------------- MODULE MCWatchAndClient --------------------------
(***************************************************************************)
(* Small instances of machines that share no state, side by side: a        *)
(* behaviour is one of the host's watches (Watch), of the client library's *)
(* (QueryEngine, Occlusion) or of the sand demo's (Sand).  The sand has    *)
(* two grids: a square with water, sand and plants, and a strip with every *)
(* material.                                                               *)
(***************************************************************************)
EXTENDS Watch, Integers, Sequences, TLC

CONSTANTS list, item

VARIABLES
  part,   \* which machine moves
  mirror,
  windows, zOrder, clips, absClips,
  tex, covered, pass

Engine == INSTANCE QueryEngine WITH
  Id <- 1..3, Role <- {list, item},
  Tokens <- {<<list>>, <<list, item>>, <<list, ">", item>>, <<">", list, ">", item, list>>,
             <<item, ">", item>>, <<list, ">", item, ">", list>>}

Rect(x, y, w, h) == [x |-> x, y |-> y, w |-> w, h |-> h]
Clip == INSTANCE Occlusion WITH
  Window <- 1..4, Bounds <- {Rect(0, 0, 2, 2), Rect(1, 1, 2, 2), Rect(0, 1, 3, 1)}, Level <- {0, 1}

Square == INSTANCE Sand WITH
  Width <- 2, Height <- 2, Paint <- {2, 4, 5}, Shapes <- {{}, {<<0, 0>>}, (0..1) \X (0..1)}
Strip == INSTANCE Sand WITH
  Width <- 1, Height <- 2, Paint <- 0..9, Shapes <- {{}, {<<0, 0>>}}

clipVars == <<windows, zOrder, clips, absClips>>
sandVars == <<tex, covered, pass>>
clientVars == <<mirror, clipVars, sandVars>>

\* Window ids are interchangeable: one order of them in the mirror is enough.
InOrder(ws) == \A i, j \in DOMAIN ws : i < j => ws[i].id < ws[j].id

\* A client may come to rest for good; the host may not.
ClientNext ==
  \/ part = "engine" /\ Engine!Next /\ UNCHANGED <<clipVars, sandVars>>
  \/ part = "clip" /\ Clip!Next /\ InOrder(windows') /\ UNCHANGED <<mirror, sandVars>>
  \/ part = "square" /\ Square!Next /\ UNCHANGED <<mirror, clipVars>>
  \/ part = "strip" /\ Strip!Next /\ UNCHANGED <<mirror, clipVars>>
  \/ part # "watch" /\ UNCHANGED clientVars

\* A part that does not move keeps the first of its initial states.
SideBySide ==
  /\ part \in {"watch", "engine", "clip", "square", "strip"}
  /\ Engine!Init /\ Clip!Init
  /\ IF part = "strip" THEN Strip!Init
     ELSE Square!Init /\ (part = "square" \/ \A c \in DOMAIN tex : tex[c] = 0)
  /\ Init
  /\ [][/\ UNCHANGED part
        /\ \/ part = "watch" /\ Next /\ UNCHANGED clientVars
           \/ ClientNext /\ UNCHANGED vars]_<<part, vars, clientVars>>

Symmetry == Permutations(Task)

----------------------------------------------------------------------------
\* The search below an element comes to each cached element once, whatever the mirror holds.
DescendantsOnce == Engine!DescendantsOnce

\* Matches are what the selector says.
MatchesMeanTheSelector == Engine!MatchesMeanTheSelector

\* What is found and extracted is what the query says, with all its fields.
FindAndExtract == Engine!FindAndExtract

\* query.ts:242, "Find all elements matching a selector starting from a root".
FindsAllMatches == Engine!FindsAllMatches

\* The clip paths show what no window in front covers.
ClipsShowWhatIsNotCovered == Clip!ClipsShowWhatIsNotCovered

\* A pass of the automaton keeps the sand, but where a plant drinks.
SandKept ==
  [][/\ part = "strip" => Strip!KeepsGrains \/ Strip!PlantDrinks
     /\ part = "square" => Square!KeepsGrains \/ Square!PlantDrinks]_sandVars
=============================================================================
