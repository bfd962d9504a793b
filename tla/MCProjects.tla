----------------------------- MODULE MCProjects -----------------------------
EXTENDS Projects, TLC

\* Projects, directories, branches and handlers are each interchangeable.
Symmetry == Permutations(Projects) \cup Permutations(Dirs)
                \cup Permutations(Branches) \cup Permutations(Handlers)
=============================================================================
