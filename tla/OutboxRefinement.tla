-------------------------- MODULE OutboxRefinement --------------------------
(***************************************************************************)
(* The outbox implements the courier: every step of the worker, of the     *)
(* handlers that queue and cancel, and of a restart is a courier step or   *)
(* changes nothing the courier shows.                                      *)
(***************************************************************************)
EXTENDS Outbox

\* What a row in state s shows: an uncertain clip is neither tried again nor waited for.
Phase(s, clip) ==
  CASE s = "absent"                    -> "absent"
    [] s = "ambiguous" /\ clip         -> "parked"
    [] s \in Open /\ ~(s = "ambiguous" /\ clip) -> "open"
    [] s = "sent"                      -> "delivered"
    [] s \in {"failed", "superseded"}  -> "dropped"

PhaseOf(r) == Phase(state[r], IsVideo(r))

C == INSTANCE Courier WITH
       to    <- [r \in Row |-> ChannelOf(r)],
       phase <- [r \in Row |-> PhaseOf(r)]

\* Bubbles of a channel reach the owner in the order they were said, a delivered one
\* is delivered for good, and only a dropped one is ever taken up again.
ImplementsCourier == C!CourierSpec
=============================================================================
