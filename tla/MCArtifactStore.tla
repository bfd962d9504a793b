-------------------------- MODULE MCArtifactStore --------------------------
EXTENDS ArtifactStore, TLC

\* Goroutines are interchangeable, and so are contents.
Symmetry == Permutations(Writers) \cup Permutations(Contents)
=============================================================================
