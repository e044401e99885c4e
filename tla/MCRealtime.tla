----------------------------- MODULE MCRealtime -----------------------------
\* An instance of Realtime for TLC: three changes of one file, the first of
\* which is stored; two instances, and a client of the first.
EXTENDS Realtime, TLC

CONSTANTS e0, e1, e2, c1

MCOld == <<e0>>
MCOldPrev == <<None>>
MCFileOf == [e \in Event |-> "file"]
MCWanted == c1 :> {e1, e2}
=============================================================================
