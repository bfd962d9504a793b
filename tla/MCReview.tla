------------------------------ MODULE MCReview ------------------------------
EXTENDS Review, TLC

\* Handlers are interchangeable, and so are the texts of Results.
Symmetry == Permutations(Handlers) \cup Permutations(Texts)
=============================================================================
