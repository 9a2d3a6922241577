----------------------------- MODULE MCCardPicture -----------------------------
\* Instances of CardPicture.
EXTENDS CardPicture, TLC

Symmetry == Permutations(Requests)
================================================================================
