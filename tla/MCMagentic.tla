----------------------------- MODULE MCMagentic -----------------------------
EXTENDS Magentic
=============================================================================
