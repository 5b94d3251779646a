------------------------------ MODULE MCParts ------------------------------
(* Two small models in one run of TLC: the application actor, and one tool    *)
(* task raced by everybody who may end it.  They are checked apart, as they   *)
(* are modelled: a behaviour is one of a single part, chosen at the start,    *)
(* and the other stays put.                                                   *)
EXTENDS Application, ToolTasks

VARIABLE part

PartsInit == part \in {"actor", "tool"} /\ ApplicationInit /\ Init

PartsNext ==
    /\ UNCHANGED part
    /\ \/ part = "actor" /\ ApplicationNext /\ UNCHANGED vars
       \/ part = "tool" /\ Next /\ UNCHANGED applicationVars

\* Each part under the fairness of its own module.
PartsFairSpec ==
    /\ PartsInit
    /\ [][PartsNext]_<<part, applicationVars, vars>>
    /\ \/ part = "actor" /\ ApplicationFairness
       \/ part = "tool" /\ Fairness
=============================================================================
