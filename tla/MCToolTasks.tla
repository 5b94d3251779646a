---------------------------- MODULE MCToolTasks ----------------------------
(* ToolTasks, with its mapping to TaskBoard, for TLC. *)
EXTENDS ToolTasksRefinement

============================================================================
