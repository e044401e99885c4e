---------------------------- MODULE MCDiffRender ----------------------------
\* An instance of DiffRender for TLC.
EXTENDS DiffRender, TLC
=============================================================================
