--------------------------- MODULE MCLessonStore ---------------------------
(* A small instance of LessonStore; processes and texts are interchangeable. *)
EXTENDS LessonStore, TLC
Symmetry == Permutations(Harnesses) \cup Permutations(Operators) \cup Permutations(Texts)
=============================================================================
