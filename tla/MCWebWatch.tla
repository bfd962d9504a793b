----------------------------- MODULE MCWebWatch -----------------------------
EXTENDS WebWatch
=============================================================================
