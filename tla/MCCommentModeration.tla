------------------------ MODULE MCCommentModeration ------------------------
(* A small post for TLC: texts with a detail, one without, one empty.      *)
EXTENDS CommentModeration, TLC

CONSTANT plain

MCRedacted == [t \in Sensitive |-> plain]

\* The texts with a detail are interchangeable.
Symmetry == Permutations(Sensitive)
=============================================================================
