----------------------------- MODULE MCWorkflow -----------------------------
\* An instance of Workflow for TLC: two workflows, of two changes in two files.
EXTENDS Workflow, TLC

CONSTANTS w1, w2, ev1, ev2, f1, f2

MCEventOf == w1 :> ev1 @@ w2 :> ev2
MCFileOf == w1 :> f1 @@ w2 :> f2
=============================================================================
