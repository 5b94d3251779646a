----------------------------- MODULE MCWorkflow -----------------------------
(* Workflow for TLC: a definition with a step and a terminal node. *)
EXTENDS Workflow, TLC

CONSTANTS plan, stop, Second
Nodes == {plan, stop}
Jumps == (plan :> {stop}) @@ (stop :> {})

\* Bound: one turn with steers and clients beside it, or, once one of Second has
\* begun, several turns with neither.
Joined == \E s \in Second : pc[s] # "idle"
Few == Joined => /\ \A c \in Client : cpc[c] = "idle"
                 /\ \A s \in Turn : steers[s] = 0

\* The turns of Second race, but need not go on.
BoundedSpec == Init /\ [][Next /\ Few']_vars
BoundedFairSpec ==
    BoundedSpec /\ (\A s \in Turn \ Second : TurnFairness(s)) /\ ClientFairness

\* Every turn ends, or waits for background tasks: the supervisor cannot keep a
\* turn going (the round budget, the timeout of a supervisor run), nor can the Stop
\* hook.  Said of a turn that no turn of Second has joined.
TurnEnds ==
    \A s \in Turn \ Second : pc[s] # "idle" ~> pc[s] \in {"relock", "done"} \/ Joined
==============================================================================
