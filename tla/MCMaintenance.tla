---------------------------- MODULE MCMaintenance ----------------------------
EXTENDS Maintenance, TLC

\* Each Project has a common-dir of its own.
OwnDirs == CHOOSE f \in [Projects -> Dirs] :
    \A p, q \in Projects : f[p] = f[q] => p = q

\* The name of the branch is not looked at.
Mains == [p \in Projects |-> CHOOSE b \in Branches : TRUE]

Symmetry == Permutations(Handlers)
=============================================================================
