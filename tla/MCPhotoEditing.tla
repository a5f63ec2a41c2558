--------------------------- MODULE MCPhotoEditing ---------------------------
(* A small instance of PhotoEditing for TLC. *)
EXTENDS PhotoEditing, TLC

\* A corner: no turn and no mirror image of the picture leaves it where it is.
Corner == {<<2, 0>>}

Symmetry == Permutations(Dialogs)

=============================================================================
