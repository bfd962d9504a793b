------------------------------- MODULE MCHub -------------------------------
EXTENDS Hub, TLC

\* Connections are interchangeable, and so are publishers.
Symmetry == Permutations(Conns) \cup Permutations(Publishers)
=============================================================================
