--------------------------- MODULE MCEditorModel ---------------------------
(* EditorModel for TLC: a file of two lines, each empty or not.  The one text  *)
(* of SameSize is as long as one of those that are typed, and not as the first *)
(* one: the check before a write, which compares sizes, can pass and fail.     *)
EXTENDS EditorModel

Document(first, second) == [l \in Lines |-> IF l = 1 THEN first ELSE second]

SameSize == {Document("a", "")}
AnyText == Docs
=============================================================================
