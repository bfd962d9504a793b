--------------------------- MODULE MCSupervision ---------------------------
EXTENDS Supervision

CONSTANTS old, new

\* Two builds, with one and with three migrations.
BuildsLatest == [d \in Daemons |-> IF d = old THEN 1 ELSE 3]

\* What a tool leaves behind, which may end before it does: a child in its
\* group that holds its stdout, one with an output of its own, and one that
\* holds its stdout from another group.
InGroup == {{[pipe |-> TRUE, group |-> TRUE]}}
Quiet   == {{[pipe |-> FALSE, group |-> TRUE]}}
Escaped == {{[pipe |-> TRUE, group |-> FALSE]}}
=============================================================================
