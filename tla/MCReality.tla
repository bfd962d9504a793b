----------------------------- MODULE MCReality -----------------------------
EXTENDS Reality
=============================================================================
