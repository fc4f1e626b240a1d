----------------------------- MODULE MCUndoTree -----------------------------
(* Limits of no undo, of one level, which frees most of a tree, and of more *)
(* levels than there are changes.                                           *)
EXTENDS UndoTree

MCLevels == {-1, 1, 1000}
=============================================================================
