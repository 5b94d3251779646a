------------------------- MODULE ToolTasksRefinement -------------------------
(* The tool-task manager implements the task board. *)
EXTENDS ToolTasks

phaseBar == [t \in Task |->
    IF waiter[t] = "unborn" THEN "new" ELSE IF status[t] = "absent" THEN "gone" ELSE status[t]]

toldBar == [t \in Task |->
    IF claims[t] > 0 THEN "claimed"
    ELSE IF t \in delivered THEN "barred"
    ELSE IF t \in notify THEN "wanted" ELSE "no"]

Board == INSTANCE TaskBoard WITH phase <- phaseBar, told <- toldBar

\* Every step of the locks, saves, spawned futures and of the restart is a step
\* of the task board or leaves the board as it is.
ImplementsTaskBoard == Board!Spec
==============================================================================
