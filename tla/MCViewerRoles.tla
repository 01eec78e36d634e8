--------------------------- MODULE MCViewerRoles ---------------------------
(* Three viewers that report two widths: enough for an owner to leave two  *)
(* candidates behind, and for a handoff to keep or to change the size.     *)
EXTENDS ViewerRoles, TLC

Widths == {1, 2}
Symmetry == Permutations(Viewer)
=============================================================================
