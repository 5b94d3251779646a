------------------------------ MODULE TaskBoard ------------------------------
(***************************************************************************)
(* What the tool-task manager promises its users, without locks, saves or  *)
(* files: a task runs until it completes or is cancelled, once; it may be  *)
(* marked as wanting a notification; and the notification of an ended,     *)
(* wanted task is claimed at most once.  Records of ended tasks may be     *)
(* forgotten.  A restart keeps no task running and bars every claim that   *)
(* was still open; it may bring a forgotten or unsaved outcome back, or    *)
(* turn it into a cancellation, since the file may lag behind memory.      *)
(***************************************************************************)
CONSTANT Task

VARIABLES
    phase,  \* what the manager answers for a task id
    told    \* the state of its completion notification

board == <<phase, told>>

Ended == {"completed", "cancelled"}
Phase == {"new", "running", "gone"} \cup Ended
Told == {"no", "wanted", "claimed", "barred"}

TypeOK == phase \in [Task -> Phase] /\ told \in [Task -> Told]

Init == phase = [t \in Task |-> "new"] /\ told = [t \in Task |-> "no"]

Begin(t) ==
    /\ phase[t] = "new"
    /\ phase' = [phase EXCEPT ![t] = "running"]
    /\ UNCHANGED told

End(t, outcome) ==
    /\ phase[t] = "running"
    /\ phase' = [phase EXCEPT ![t] = outcome]
    /\ UNCHANGED told

Want(t) ==
    /\ phase[t] \in {"running"} \cup Ended /\ told[t] = "no"
    /\ told' = [told EXCEPT ![t] = "wanted"]
    /\ UNCHANGED phase

Claim(t) ==
    /\ phase[t] \in Ended /\ told[t] = "wanted"
    /\ told' = [told EXCEPT ![t] = "claimed"]
    /\ UNCHANGED phase

\* A forgotten record takes its flags with it; that it was claimed is history.
Forgotten(t) == IF told[t] = "claimed" THEN "claimed" ELSE "no"
Forget(tasks) ==
    /\ \A t \in tasks : phase[t] \in Ended
    /\ phase' = [t \in Task |-> IF t \in tasks THEN "gone" ELSE phase[t]]
    /\ told' = [t \in Task |-> IF t \in tasks THEN Forgotten(t) ELSE told[t]]

AfterRestart(p) ==
    CASE p = "new" -> {"new"}
      [] p \in {"running", "cancelled"} -> {"cancelled", "gone"}
      [] OTHER -> {"completed", "cancelled", "gone"}

Restart ==
    /\ phase' \in [Task -> Phase]
    /\ \A t \in Task : phase'[t] \in AfterRestart(phase[t])
    /\ told' = [t \in Task |->
          IF phase'[t] \in Ended /\ told[t] # "claimed" THEN "barred" ELSE Forgotten(t)]

Next ==
    \/ \E t \in Task :
          \/ Begin(t) \/ Want(t) \/ Claim(t)
          \/ \E outcome \in Ended : End(t, outcome)
    \/ \E tasks \in SUBSET Task : Forget(tasks)
    \/ Restart

Spec == Init /\ [][Next]_board

\* A claimed notification stays claimed: nothing a run, a user or a restart does
\* makes the same task notify twice.
ClaimedForGood == [][\A t \in Task : told[t] = "claimed" => told'[t] = "claimed"]_board
==============================================================================
