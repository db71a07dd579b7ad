---------------------------- MODULE MCWindowSync ----------------------------
(***************************************************************************)
(* Small instances of WindowSync: the overlay w0 of the excluded process   *)
(* p0, and two windows of one process.                                     *)
(***************************************************************************)
EXTENDS WindowSync, TLC

CONSTANTS w0, w1, w2, p0, p1, h1, h2

MCWindowId == {w0, w1, w2}
MCOwner == [w \in MCWindowId |-> IF w = w0 THEN p0 ELSE p1]

\* Every window has a handle of its own
MCDistinct == (w0 :> {} @@ w1 :> {h1} @@ w2 :> {h2})

Entry(w, place, lit, ax) == [id |-> w, place |-> place, focused |-> lit, ax |-> ax]
Overlay == Entry(w0, "shown", FALSE, FALSE)

(***************************************************************************)
(* Empty; one window, with and without its element; both, in either order; *)
(* one hidden by a full screen or a space transition; the overlay missing, *)
(* or in front with the focus.                                             *)
(***************************************************************************)
MCScreens ==
  { <<Overlay>>,
    <<Overlay, Entry(w1, "shown", TRUE, FALSE)>>,
    <<Overlay, Entry(w1, "shown", TRUE, TRUE), Entry(w2, "shown", FALSE, TRUE)>>,
    <<Overlay, Entry(w2, "shown", TRUE, TRUE), Entry(w1, "shown", FALSE, TRUE)>>,
    <<Overlay, Entry(w2, "shown", TRUE, FALSE)>>,
    <<Overlay, Entry(w1, "fullscreen", TRUE, TRUE), Entry(w2, "shown", FALSE, TRUE)>>,
    <<Overlay, Entry(w1, "offscreen", FALSE, TRUE)>>,
    <<Entry(w1, "shown", FALSE, TRUE)>>,
    <<Entry(w2, "shown", FALSE, TRUE)>>,
    <<[Overlay EXCEPT !.focused = TRUE], Entry(w2, "shown", FALSE, TRUE)>> }
=============================================================================
