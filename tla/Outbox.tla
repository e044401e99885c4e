------------------------------- MODULE Outbox -------------------------------
(***************************************************************************)
(* What the agent's spool and the control plane's ingest promise together, *)
(* with no file, request, response or crash in sight: a change event is    *)
(* put in the outbox, the control plane stores at most one event for each  *)
(* idempotency key and, but for those that are sent past it, only events   *)
(* that are in the outbox, and an event is crossed off once its key is     *)
(* stored, for good.                                                       *)
(*                                                                         *)
(* AgentDelivery implements this specification.                            *)
(***************************************************************************)

CONSTANTS
  Event,      \* the change events
  KeyOf,      \* the key of each event; two events may share one
  Unspooled   \* the events that are sent past the outbox

VARIABLES
  spooled,  \* the events that have ever been put in the outbox
  stored,   \* the events the control plane has a row for
  acked     \* the events crossed off

vars == <<spooled, stored, acked>>

-----------------------------------------------------------------------------

Init ==
  /\ spooled = {}
  /\ stored = {}
  /\ acked = {}

Spool(e) ==
  /\ e \notin spooled
  /\ spooled' = spooled \union {e}
  /\ UNCHANGED <<stored, acked>>

\* One row for a key: a second event with a stored key is never stored.
Store(e) ==
  /\ e \in spooled \union Unspooled
  /\ \A f \in stored : KeyOf[f] # KeyOf[e]
  /\ stored' = stored \union {e}
  /\ UNCHANGED <<spooled, acked>>

\* An event is crossed off because its key is stored, by itself or by another.
Ack(e) ==
  /\ e \in spooled \ acked
  /\ \E f \in stored : KeyOf[f] = KeyOf[e]
  /\ acked' = acked \union {e}
  /\ UNCHANGED <<spooled, stored>>

Next == \E e \in Event : Spool(e) \/ Store(e) \/ Ack(e)

Spec == Init /\ [][Next]_vars

=============================================================================
