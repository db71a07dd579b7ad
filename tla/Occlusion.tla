------------------------------ MODULE Occlusion ------------------------------
(***************************************************************************)
(* What an overlay may draw over which window: the clip paths that the     *)
(* client library keeps for every window (allio-client occlusion.ts), from *)
(* the windows of its mirror and their order (allio.ts).                   *)
(*                                                                         *)
(* The rectangles of a path are holes by the even-odd rule, so they must   *)
(* not overlap: computeRectUnion cuts the windows in front into disjoint   *)
(* ones.  A path is its sequence of holes; the big outer rectangle that    *)
(* all paths have, and SVG itself, are left out.                           *)
(***************************************************************************)
EXTENDS Integers, Sequences, FiniteSets, SequencesExt

CONSTANTS
  Window,   \* window ids
  Bounds,   \* rectangles windows have
  Level     \* z_index values

VARIABLES
  windows,    \* allio.windows: id, bounds and z_index, in the order of the map
  zOrder,     \* allio.zOrder, frontmost first
  clips,      \* clipPaths, relative to the window
  absClips    \* absoluteClipPaths

vars == <<windows, zOrder, clips, absClips>>

Ids(ws) == {ws[i].id : i \in DOMAIN ws}
Named(ws, id) == CHOOSE w \in Range(ws) : w.id = id

----------------------------------------------------------------------------
\* updateZOrder: a stable sort by z_index.
UpdateZOrder(ws) ==
  LET before(i, j) == ws[i].z < ws[j].z \/ (ws[i].z = ws[j].z /\ i < j)
      sorted == SetToSortSeq(DOMAIN ws, before)
  IN  [i \in DOMAIN ws |-> ws[sorted[i]].id]

\* The grid's lines: the edges of all rectangles.
Xs(rects) == SetToSortSeq({rects[i].x : i \in DOMAIN rects} \cup {rects[i].x + rects[i].w : i \in DOMAIN rects}, <)
Ys(rects) == SetToSortSeq({rects[i].y : i \in DOMAIN rects} \cup {rects[i].y + rects[i].h : i \in DOMAIN rects}, <)

\* Mutant of Grid: the lines are taken for the last cells of a rectangle.
GridWide(rects, xs, ys) ==
  {c \in (1..Len(ys) - 1) \X (1..Len(xs) - 1) :
     \E k \in DOMAIN rects : LET r == rects[k] IN
       r.y <= ys[c[1]] /\ ys[c[1]] <= r.y + r.h /\ r.x <= xs[c[2]] /\ xs[c[2]] < r.x + r.w}

\* The cells <<row, column>> covered by a rectangle.
Grid(rects, xs, ys) ==
  {c \in (1..Len(ys) - 1) \X (1..Len(xs) - 1) :
     \E k \in DOMAIN rects : LET r == rects[k] IN
       r.y <= ys[c[1]] /\ ys[c[1]] < r.y + r.h /\ r.x <= xs[c[2]] /\ xs[c[2]] < r.x + r.w}

\* The block of cells that starts at c: as wide as its first row allows, then as high as that
\* width allows.
Block(grid, c) ==
  LET fits(i1, j1) == (c[1]..i1) \X (c[2]..j1) \subseteq grid
      rows == 1..Cardinality(grid) + c[1]
      cols == 1..Cardinality(grid) + c[2]
      j == CHOOSE n \in cols : n >= c[2] /\ fits(c[1], n) /\ ~fits(c[1], n + 1)
      i == CHOOSE n \in rows : n >= c[1] /\ fits(n, j) /\ ~fits(n + 1, j)
  IN  (c[1]..i) \X (c[2]..j)

\* Blocks are taken off the grid row by row, each where the first cell is left.
RECURSIVE Cut(_, _, _)
Cut(grid, xs, ys) ==
  IF grid = {} THEN <<>>
  ELSE LET c == CHOOSE c \in grid : \A d \in grid : c[1] < d[1] \/ (c[1] = d[1] /\ c[2] <= d[2])
           block == Block(grid, c)
           i == Max({d[1] : d \in block})
           j == Max({d[2] : d \in block})
       IN  <<[x |-> xs[c[2]], y |-> ys[c[1]], w |-> xs[j + 1] - xs[c[2]], h |-> ys[i + 1] - ys[c[1]]]>>
           \o Cut(grid \ block, xs, ys)

ComputeRectUnion(rects) ==
  IF Len(rects) <= 1 THEN rects
  ELSE Cut(Grid(rects, Xs(rects), Ys(rects)), Xs(rects), Ys(rects))

\* updateClipPath and updateAbsoluteClipPath: the windows in front seen from an origin.
Holes(inFront, x0, y0) ==
  ComputeRectUnion([i \in DOMAIN inFront |->
    [x |-> inFront[i].bounds.x - x0, y |-> inFront[i].bounds.y - y0,
     w |-> inFront[i].bounds.w, h |-> inFront[i].bounds.h]])

\* update: a path for each window of the order that is in the mirror.
Update(ws, order) ==
  LET sorted == [i \in DOMAIN order |-> Named(ws, order[i])]
      front(id) == SubSeq(sorted, 1, (CHOOSE i \in DOMAIN order : order[i] = id) - 1)
  IN  /\ clips' = [id \in Ids(ws) |-> LET b == Named(ws, id).bounds IN Holes(front(id), b.x, b.y)]
      /\ absClips' = [id \in Ids(ws) |-> Holes(front(id), 0, 0)]

----------------------------------------------------------------------------
Init == windows = <<>> /\ zOrder = <<>> /\ clips = <<>> /\ absClips = <<>>

\* The mirror first, then the listeners: the paths are new before any demo draws.
Mirrored(ws) ==
  /\ windows' = ws
  /\ zOrder' = UpdateZOrder(ws)
  /\ Update(ws, UpdateZOrder(ws))

WindowAdded(id, b, z) ==
  /\ id \notin Ids(windows)
  /\ Mirrored(Append(windows, [id |-> id, bounds |-> b, z |-> z]))

WindowChanged(id, b, z) ==
  /\ id \in Ids(windows)
  /\ Mirrored([i \in DOMAIN windows |->
       IF windows[i].id = id THEN [id |-> id, bounds |-> b, z |-> z] ELSE windows[i]])

WindowRemoved(id) ==
  /\ id \in Ids(windows)
  /\ Mirrored(SelectSeq(windows, LAMBDA w : w.id # id))

Next ==
  \E id \in Window :
    \/ \E b \in Bounds, z \in Level : WindowAdded(id, b, z) \/ WindowChanged(id, b, z)
    \/ WindowRemoved(id)

Spec == Init /\ [][Next]_vars

----------------------------------------------------------------------------
Covers(r, x, y) == r.x <= x /\ x < r.x + r.w /\ r.y <= y /\ y < r.y + r.h

\* The even-odd rule.
Shown(holes, x, y) == Cardinality({i \in DOMAIN holes : Covers(holes[i], x, y)}) % 2 = 0

Pixels == UNION {(b.x..b.x + b.w) \X (b.y..b.y + b.h) : b \in Bounds}

\* Both of a window's paths show exactly the pixels that no window in front covers, however the
\* windows overlap and their levels tie: in front is the lower level, then the older in the map.
ClipsShowWhatIsNotCovered ==
  \A i \in DOMAIN windows : \A p \in Pixels :
    LET w == windows[i]
        covered == \E j \in DOMAIN windows :
                     /\ windows[j].z < w.z \/ (windows[j].z = w.z /\ j < i)
                     /\ Covers(windows[j].bounds, p[1], p[2])
    IN  /\ Shown(absClips[w.id], p[1], p[2]) = ~covered
        /\ Shown(clips[w.id], p[1] - w.bounds.x, p[2] - w.bounds.y) = ~covered
============================================================================
