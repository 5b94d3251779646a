----------------------------- MODULE MCStores ------------------------------
(* The stores of a profile. They do not touch each other here: a behaviour  *)
(* is one of a single store, chosen at the start, and the others stay put.  *)
EXTENDS Memory, ChatGptAuth, Sessions, Outbox

VARIABLE part

StoresInit ==
    /\ part \in {"memory", "credentials", "sessions", "outbox"}
    /\ MemoryInit /\ AuthInit /\ SessionsInit /\ OutboxInit
    /\ part # "outbox" => binding = CHOOSE chat \in Chat : TRUE  \* the others do not look at it

Others(p) ==
    /\ p # "memory" => UNCHANGED memoryVars
    /\ p # "credentials" => UNCHANGED authVars
    /\ p # "sessions" => UNCHANGED sessionsVars
    /\ p # "outbox" => UNCHANGED outboxVars

StoresNext ==
    /\ UNCHANGED part
    /\ \/ part = "memory" /\ MemoryNext
       \/ part = "credentials" /\ AuthNext
       \/ part = "sessions" /\ SessionsNext
       \/ part = "outbox" /\ OutboxNext
    /\ Others(part)

StoresSpec == StoresInit /\ [][StoresNext]_<<part, memoryVars, authVars, sessionsVars, outboxVars>>
=============================================================================
