------------------------------ MODULE Courier ------------------------------
(***************************************************************************)
(* What the outbox promises, without a worker, a snapshot, attempts or a   *)
(* dialogue record: bubbles are offered one after another, each for one    *)
(* channel, and those of a channel reach the owner in that order.          *)
(***************************************************************************)
EXTENDS Naturals

CONSTANTS MaxRows, Channels, Nil

Bubbles == 1 .. MaxRows

VARIABLES
  to,     \* bubble -> its channel; Nil before it is offered
  phase,  \* bubble -> absent, open, parked (uncertain for ever), delivered, dropped
  copies  \* bubble -> how often it may have reached the owner

courierVars == <<to, phase, copies>>

CourierInit ==
  /\ to = [b \in Bubbles |-> Nil]
  /\ phase = [b \in Bubbles |-> "absent"]
  /\ copies = [b \in Bubbles |-> 0]

\* Nothing said earlier on b's channel is still undecided.
Foremost(b) ==
  /\ phase[b] = "open"
  /\ \A e \in Bubbles : e < b /\ to[e] = to[b] => phase[e] # "open"

\* A new bubble, after all the others.
Offer(b, c) ==
  /\ phase[b] = "absent"
  /\ \A e \in Bubbles : e < b <=> phase[e] # "absent"
  /\ to' = [to EXCEPT ![b] = c]
  /\ phase' = [phase EXCEPT ![b] = "open"]
  /\ UNCHANGED copies

\* b may have reached the owner: it is known to have, or it stays open for
\* another try, or it is left at that.
Reach(b) ==
  /\ Foremost(b)
  /\ copies' = [copies EXCEPT ![b] = @ + 1]
  /\ \E p \in {"delivered", "open", "parked", "dropped"} :
       phase' = [phase EXCEPT ![b] = p]
  /\ UNCHANGED to

\* Bubbles are withdrawn or given up; only a dropped one can be taken up again.
Revise(dropped, reopened) ==
  /\ \A b \in dropped : phase[b] \in {"open", "parked"}
  /\ \A b \in reopened : phase[b] = "dropped"
  /\ phase' = [b \in Bubbles |-> IF b \in dropped THEN "dropped"
                                 ELSE IF b \in reopened THEN "open" ELSE phase[b]]
  /\ UNCHANGED <<to, copies>>

\* A crash: what was on its way to the owner may have arrived, and the next
\* process drops and takes up what it finds.
Crash(dropped, reopened, underway) ==
  /\ \A b \in dropped : phase[b] \in {"open", "parked"}
  /\ \A b \in reopened : phase[b] = "dropped"
  /\ \A b \in underway : Foremost(b)
  /\ copies' = [b \in Bubbles |-> IF b \in underway THEN copies[b] + 1 ELSE copies[b]]
  /\ \E parked \in SUBSET underway :
       phase' = [b \in Bubbles |-> IF b \in dropped THEN "dropped"
                                   ELSE IF b \in reopened THEN "open"
                                   ELSE IF b \in parked THEN "parked" ELSE phase[b]]
  /\ UNCHANGED to

CourierNext ==
  \/ \E b \in Bubbles : (\E c \in Channels : Offer(b, c)) \/ Reach(b)
  \/ \E dropped, reopened \in SUBSET Bubbles :
       \/ Revise(dropped, reopened)
       \/ \E underway \in SUBSET Bubbles : Crash(dropped, reopened, underway)

CourierSpec == CourierInit /\ [][CourierNext]_courierVars
=============================================================================
