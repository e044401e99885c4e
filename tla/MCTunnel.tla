------------------------------ MODULE MCTunnel ------------------------------
\* An instance of Tunnel for TLC: a question about a file out of the watch roots,
\* and the diff of an event, asked for again and again.
EXTENDS Tunnel, TLC

CONSTANTS q1, d1

MCKindOf == q1 :> "stat"
MCPathOf == q1 :> "outside" @@ [d \in Diff |-> "watched"]
MCFormatOf == [d \in Diff |-> "unified"]
=============================================================================
