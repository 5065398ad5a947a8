---------------------------- MODULE MCFrameGuard -----------------------------
(* FrameGuard for TLC: two applications and two arrangements, so that the   *)
(* user can leave one and come back.  Of the two points one is on a display *)
(* in both arrangements; the other is in both bounding boxes but only on a  *)
(* display of the first.                                                    *)
EXTENDS FrameGuard

CONSTANTS w1, w2, one, two, p, q

MCWindows == {w1, w2}
MCLayouts == {one, two}
MCPoints == {p, q}
MCBounds == [l \in MCLayouts |-> MCPoints]
MCShown == [l \in MCLayouts |-> IF l = one THEN MCPoints ELSE {p}]
=============================================================================
