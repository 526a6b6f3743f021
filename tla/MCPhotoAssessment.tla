--------------------------- MODULE MCPhotoAssessment ---------------------------
EXTENDS PhotoAssessment, TLC

Symmetry == Permutations(Slots)
=============================================================================
