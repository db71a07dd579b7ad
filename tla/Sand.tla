-------------------------------- MODULE Sand --------------------------------
(***************************************************************************)
(* The falling sand demo: the cellular automaton of its simulation shader  *)
(* (sand.glsl.ts) and the windows and strokes that its page draws into it  *)
(* (sand.ts).                                                              *)
(*                                                                         *)
(* A pass cuts the grid into blocks of 2 x 2 cells, at one of four offsets,*)
(* and every fragment computes its whole block from the previous texture,  *)
(* to keep one cell of it.  A rule is an operator from a block to the set  *)
(* of blocks it may become.  Each rule draws its chances by itself, where  *)
(* the code shares four numbers among all rules of a block: that adds      *)
(* outcomes, except where the same number decides twice in a row, which is *)
(* kept.  A chance that depends on a plant's water or a fire's heat is a   *)
(* chance.                                                                 *)
(***************************************************************************)
EXTENDS Integers, FiniteSets, FiniteSetsExt

CONSTANTS
  Width, Height,  \* bound: resolution
  Paint,          \* materials painted with
  Shapes          \* sets of cells that windows cover

VARIABLES
  tex,       \* the simulation texture
  covered,   \* the cells set in the collision texture
  pass       \* the number of the pass, modulo 12: four offsets, three passes for each frame

vars == <<tex, covered, pass>>

AIR == 0
SMOKE == 1
WATER == 2
LAVA == 3
SAND == 4
PLANT == 5
STONE == 6
WALL == 7
ICE == 8
FIRE == 9
STEAM == 10
COLLISION == 99

----------------------------------------------------------------------------
(* A block is <<t00, t10, t01, t11>>: the lower row, then the upper one.  V, H and D are the   *)
(* vertical, horizontal and diagonal neighbour of each place.                                  *)
V == <<3, 4, 1, 2>>
H == <<2, 1, 4, 3>>
D == <<4, 3, 2, 1>>
LOCAL Lower == <<1, 2>>
LOCAL Upper == <<3, 4>>

swap(b, i, j) == [b EXCEPT ![i] = b[j], ![j] = b[i]]
Put(b, i, m) == [b EXCEPT ![i] = m]
If(c, bs) == IF c THEN bs ELSE {}

\* A rule applied to every block there may be so far.
Then(bs, Rule(_)) == UNION {Rule(b) : b \in bs}
Both(bs, Rule(_, _), row) == Then(Then(bs, LAMBDA b : Rule(b, row[1])), LAMBDA b : Rule(b, row[2]))

\* One of two neighbours is of the material and the other below it in the order of materials.
Uneven(b, m, i, j) == (b[i] = m /\ b[j] < m) \/ (b[i] < m /\ b[j] = m)

\* The upper row evens out.  Steam is swapped by a second test on the same number: it stays.
Drift(b) == {b} \cup If(Uneven(b, SMOKE, 3, 4) /\ ~Uneven(b, STEAM, 3, 4), {swap(b, 3, 4)})

Rise(b, i) ==
  IF b[i] \notin {SMOKE, STEAM} THEN {b}
  ELSE {b, Put(b, i, AIR)} \cup If(b[V[i]] < b[i], {swap(b, i, V[i])})
         \cup If(i = 1 /\ b[i] = STEAM, {Put(b, i, WATER)})

Spread(b) ==
  {b} \cup If(Uneven(b, SAND, 3, 4) /\ b[1] < SAND /\ b[2] < SAND, {swap(b, 3, 4)})

\* Mutant of Fall: the grain stays where it was as well.
FallTwice(b, i) ==
  IF b[i] \notin {SAND, STONE} THEN {b}
  ELSE IF b[V[i]] < SAND THEN {b, Put(b, V[i], b[i])}
  ELSE IF b[H[i]] < SAND /\ b[D[i]] < SAND THEN {swap(b, i, D[i])}
  ELSE {b}

\* A grain of the upper row falls, or slides down when there is room beside it.
Fall(b, i) ==
  IF b[i] \notin {SAND, STONE} THEN {b}
  ELSE IF b[V[i]] < SAND THEN {b, swap(b, i, V[i])}
  ELSE IF b[H[i]] < SAND /\ b[D[i]] < SAND THEN {swap(b, i, D[i])}
  ELSE {b}

\* A liquid m of the upper row falls or slides.
Flow(b, i, m) ==
  {b} \cup If(b[i] = m, If(b[V[i]] < m, {swap(b, i, V[i])})
                        \cup If(b[H[i]] < m /\ b[D[i]] < m, {swap(b, i, D[i])}))

\* Water levels only in a block where none fell; on a solid floor it must.
Level(b, i, j, solid) ==
  IF ~Uneven(b, WATER, i, j) THEN {b}
  ELSE {swap(b, i, j)} \cup If(~solid, {b})

WaterRule(b, floor) ==
  Then(Flow(b, 3, WATER), LAMBDA c : Then(Flow(c, 4, WATER), LAMBDA d :
    If(d # b, {d}) \cup
    If(d = b, Then(Level(d, 3, 4, d[1] >= WATER /\ d[2] >= WATER), LAMBDA e : Level(e, 1, 2, floor)))))

\* Lava at i turns the plant at j to smoke and sometimes the place k to stone.
Burn(b, j, k) == {b, Put(b, j, SMOKE), Put(Put(b, j, SMOKE), k, STONE)}

\* In the lower row water makes stone of lava; a plant beside lava leaves the stone at t10,
\* whichever of the two was the lava.
Cool(b, i) ==
  CASE b[i] # LAVA -> {b}
    [] b[i] = LAVA /\ b[V[i]] = WATER -> {Put(Put(b, i, STONE), V[i], SMOKE)}
    [] b[i] = LAVA /\ b[V[i]] # WATER /\ b[H[i]] = WATER -> {Put(Put(b, i, STONE), H[i], SMOKE)}
    [] OTHER -> IF b[V[i]] = PLANT THEN Burn(b, V[i], i)
                ELSE IF b[H[i]] = PLANT THEN Burn(b, H[i], 2)
                ELSE {b}

Scorch(b, i) ==
  IF b[i] # LAVA THEN {b}
  ELSE IF b[V[i]] = PLANT THEN Burn(b, V[i], i)
  ELSE IF b[H[i]] = PLANT THEN Burn(b, H[i], i)
  ELSE {b}

LavaRule(bs) ==
  LET fallen == Both(bs, LAMBDA b, i : Flow(b, i, LAVA), Upper)
      cooled == Both(Both(fallen, Cool, Lower), Scorch, Upper)
  IN  Then(cooled, LAMBDA b : {b} \cup If(Uneven(b, LAVA, 3, 4), {swap(b, 3, 4)}))

\* A plant drinks the water above or below it, then the water beside it; the one at t11 empties
\* t00 instead of the t01 it looked at.  Then it may grow.
Drink(b, i) ==
  LET above(c) == {c} \cup If(c[V[i]] = WATER, {Put(c, V[i], AIR)})
      beside(c) == {c} \cup If(c[H[i]] = WATER, {Put(c, IF i = 4 THEN 1 ELSE H[i], AIR)})
  IN  Then(above(b), beside)

Plant(b, i) ==
  IF b[i] # PLANT THEN {b}
  ELSE Then(Drink(b, i), LAMBDA c : {c} \cup {Put(c, j, PLANT) : j \in {k \in {V[i], H[i]} : c[k] = AIR}})

\* Ice of the lower row beside lava.
Melt(b, i) ==
  LET lava == {j \in {V[i], H[i]} : b[j] = LAVA}
      melted == Put(b, i, STEAM)
  IN  {b} \cup If(b[i] = ICE /\ lava # {},
                  {melted, [j \in 1..4 |-> IF j \in lava THEN STEAM ELSE melted[j]]})

Freeze(b, i) ==
  {b} \cup If(b[i] = WATER /\ ICE \in {b[V[i]], b[H[i]]}, {Put(b, i, ICE)})

\* Fire of the lower row catches air above or across, air beside it, and plants; then it may go
\* out, or smoke into the air above it.
Fire(b, i) ==
  LET catch(c, j, m) == {c} \cup If(c[j] = m, {Put(c, j, FIRE)})
      air == {b} \cup {Put(b, j, FIRE) : j \in {k \in {V[i], D[i]} : b[k] = AIR}}
      spread == Then(Then(air, LAMBDA c : catch(c, H[i], AIR)), LAMBDA c :
                  Then(catch(c, V[i], PLANT), LAMBDA d :
                    Then(catch(d, H[i], PLANT), LAMBDA e : catch(e, D[i], PLANT))))
  IN  IF b[i] # FIRE THEN {b}
      ELSE Then(spread, LAMBDA c : {c, Put(c, i, SMOKE)} \cup If(c[V[i]] = AIR, {Put(c, V[i], SMOKE)}))

\* The rules in their order; a block of one material is left as it is.
Outcomes(b, floor) ==
  LET smoke == Both(Drift(b), Rise, Lower)
      sand == Both(Then(smoke, Spread), Fall, Upper)
      lava == LavaRule(Then(sand, LAMBDA c : WaterRule(c, floor)))
      plant == Both(Both(lava, Plant, Lower), Plant, Upper)
      ice == Both(Both(Both(plant, Melt, Lower), Freeze, <<1, 3>>), Freeze, <<2, 4>>)
      fire == Both(ice, Fire, Lower)
  IN  IF \A i \in 1..4 : b[i] = b[1] THEN {b}
      ELSE Then(fire, LAMBDA c : {c} \cup If(c[1] = LAVA /\ c[3] = PLANT, {Put(c, 3, FIRE)}))

----------------------------------------------------------------------------
Cells == (0..Width - 1) \X (0..Height - 1)

getOffset(f) == <<<<0, 0>>, <<1, 1>>, <<0, 1>>, <<1, 0>>>>[(f % 4) + 1]

\* What a pass sees: walls around the grid, windows in it.
getData(c) ==
  IF c \notin Cells THEN WALL ELSE IF c \in covered THEN COLLISION ELSE tex[c]

\* The corner of a cell's block, and the cell's place in it.
Corner(c, o) == <<((c[1] + o[1]) \div 2) * 2 - o[1], ((c[2] + o[2]) \div 2) * 2 - o[2]>>
Place(c, o) == ((c[1] + o[1]) % 2) + 2 * ((c[2] + o[2]) % 2) + 1

BlockAt(p) ==
  LET at(dx, dy) == getData(<<p[1] + dx, p[2] + dy>>)
  IN  Outcomes(<<at(0, 0), at(1, 0), at(0, 1), at(1, 1)>>, at(0, -1) >= WATER /\ at(1, -1) >= WATER)

\* The textures a pass may draw: the outcomes of its blocks, where a cell of a block that was
\* not uniform does not stay a collision once no window covers it.
Drawn ==
  LET o == getOffset(pass)
      uniform(p) == Cardinality({getData(<<p[1] + dx, p[2] + dy>>) : dx \in 0..1, dy \in 0..1}) = 1
      shown(c, m) == IF m = COLLISION /\ c \notin covered /\ ~uniform(Corner(c, o)) THEN AIR ELSE m
      draw(p, ts) == {[c \in Cells |-> IF Corner(c, o) = p THEN shown(c, b[Place(c, o)]) ELSE t[c]] :
                        b \in BlockAt(p), t \in ts}
  IN  FoldSet(draw, {tex}, {Corner(c, o) : c \in Cells})

----------------------------------------------------------------------------
\* What pass 0 leaves: sand here and there.
Init ==
  /\ tex \in [Cells -> {AIR, SAND}]
  /\ covered = {}
  /\ pass = 1

Pass ==
  /\ tex' \in Drawn
  /\ pass' = (pass + 1) % 12
  /\ UNCHANGED covered

\* A pass with the pointer down: the cells of the stroke are painted, the others follow the
\* block's rules.  A stroke lasts the three passes of a frame; here it may be any of them.
Paint_(c, m) ==
  /\ \E t \in Drawn : tex' = [t EXCEPT ![c] = m]
  /\ pass' = (pass + 1) % 12
  /\ UNCHANGED covered

\* A window appears, moves or goes, between two frames: collectShapeData draws all of them.
handleShapeTransform(s) ==
  /\ pass % 3 = 0
  /\ covered' = s
  /\ UNCHANGED <<tex, pass>>

Next ==
  \/ Pass
  \/ \E c \in Cells, m \in Paint : Paint_(c, m)
  \/ \E s \in Shapes : handleShapeTransform(s)

Spec == Init /\ [][Next]_vars

----------------------------------------------------------------------------
Grains(t) == Cardinality({c \in Cells \ covered : t[c] = SAND})

\* A plant beside water, in a block of the pass: the place where sand is known to vanish.
PlantDrinks == \E c, d \in Cells : getData(c) = PLANT /\ getData(d) = WATER

\* A step that only moves what is there neither loses nor makes a grain.
KeepsGrains == Grains(tex') = Grains(tex) \/ covered' # covered \/ ~Pass

\* The blocks of four offsets, each computed by four fragments on their own, lose no grain of
\* sand and make none, at walls, at windows and in whatever falls, flows or drifts past them,
\* but for the plant that drinks at the wrong place.
SandKept == [][KeepsGrains \/ PlantDrinks]_vars

\* sand.glsl.ts:486, a plant "has a chance to consume water": it consumes no sand.
PlantsConsumeWater == [][KeepsGrains]_vars
============================================================================
