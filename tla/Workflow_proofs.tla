--------------------------- MODULE Workflow_proofs ---------------------------
(***************************************************************************)
(* What holds of the workflow for any turns, clients, marks, questions and        *)
(* definition: types, coherent copies, the budget of the supervisor,       *)
(* pauses and clears that nobody overlaps, and what a cancelled turn saves *)
(* last.                                                                   *)
(***************************************************************************)
EXTENDS Workflow, TLAPS

\* What a turn has in hand where it uses it without looking.
Holding ==
    \A s \in Turn :
        /\ pc[s] = "storing" => raw[s] # Unset
        /\ pc[s] = "deciding" => IsActive(loaded[s])
TypeInv == TypeOK /\ Holding


------------------------------------------------------------------------------
(* Types. *)

\* The fields of an instance that steps read.
LEMMA InstanceTypes ==
    ASSUME NEW i \in Instance
    PROVE  i.round \in Nat /\ i.node \in Node \cup {Ask} /\ i.back \in Node \cup {Ask, NoNode}
  BY DEF Instance

\* What the operations make of an instance is an instance: a workflow that waits
\* has a node to return to.
LEMMA OperatorTypes ==
    ASSUME NEW i \in Instance, NEW r \in Nat
    PROVE  /\ PausedByUser(i) \in Instance /\ Interrupted(i, r) \in Instance
           /\ Uninterrupted(i, r) \in Instance /\ EnteredAsk(i, r) \in Instance
           /\ i.back # NoNode => LeftAsk(i, r) \in Instance
           /\ Failed(i, r) \in Instance
           /\ \A n \in Node : Decided(i, n, r) \in Instance
  BY NodeAssumption DEF Instance, Status, Reason, Started, PausedByUser, Interrupted,
       Uninterrupted, EnteredAsk, LeftAsk, Failed, Decided

\* A started workflow is an instance (start_workflow).
LEMMA StartedType == Started \in Instance
  BY NodeAssumption DEF Instance, Status, Reason, Started

\* Every step keeps the types.
LEMMA TypeStep == TypeInv /\ [Next]_vars => TypeInv'
<1> SUFFICES ASSUME TypeInv, [Next]_vars PROVE TypeInv'
  OBVIOUS
<1> USE NameAssumption DEF TypeInv, Holding, TypeOK, Pc, Then, Maybe, turns, clients, marks, asking,
     carried, counters, Goto
<1>1. ASSUME NEW s \in Turn, SaveInstance(s) PROVE TypeInv'
  BY <1>1 DEF SaveInstance
<1>2. ASSUME NEW s \in Turn, Message(s) PROVE TypeInv'
  BY <1>2, InstanceTypes DEF Message, IsActive
<1>3. ASSUME NEW s \in Turn, StartWorkflow(s) PROVE TypeInv'
  BY <1>3, StartedType DEF StartWorkflow
<1>4. ASSUME NEW s \in Turn, Evaluate(s) PROVE TypeInv'
  BY <1>4 DEF Evaluate, Unsupervised, IsActive
<1>5. ASSUME NEW s \in Turn, DecideFails(s) PROVE TypeInv'
  <2>1. Failed(loaded[s], round[s]) \in Instance
    BY <1>5, OperatorTypes DEF DecideFails, IsActive
  <2> QED BY <1>5, <2>1 DEF DecideFails, Reported, Save, IsActive
<1>6. ASSUME NEW s \in Turn, DecideCancelled(s) PROVE TypeInv'
  <2>1. CASE IsActive(disk)
    <3>1. Interrupted(disk, round[s]) \in Instance
      BY <2>1, OperatorTypes DEF IsActive
    <3> QED BY <1>6, <2>1, <3>1 DEF DecideCancelled, Reported, Save, Skip, IsActive
  <2>2. CASE ~IsActive(disk)
    BY <1>6, <2>2 DEF DecideCancelled, Skip, IsActive
  <2> QED BY <2>1, <2>2
<1>7. ASSUME NEW s \in Turn, AfterReport(s) PROVE TypeInv'
  BY <1>7, BoundAssumption DEF AfterReport
<1>8. ASSUME NEW s \in Turn, Lock(s) PROVE TypeInv'
  BY <1>8 DEF Lock
<1>9. ASSUME NEW s \in Turn, Relock(s) PROVE TypeInv'
  BY <1>9, BoundAssumption DEF Relock
<1>10. ASSUME NEW s \in Turn, CancelWait(s) PROVE TypeInv'
  BY <1>10 DEF CancelWait
<1>11. ASSUME NEW s \in Turn, ResumeInterrupted(s) PROVE TypeInv'
  <2>1. CASE IsPaused(disk, "interrupted")
    <3>1. Uninterrupted(disk, round[s]) \in Instance
      BY <2>1, OperatorTypes DEF IsPaused
    <3> QED BY <1>11, <2>1, <3>1 DEF ResumeInterrupted, Save, Skip, IsActive
  <2>2. CASE ~IsPaused(disk, "interrupted")
    BY <1>11, <2>2 DEF ResumeInterrupted, Skip, IsActive
  <2> QED BY <2>1, <2>2
<1>12. ASSUME NEW s \in Turn, OpenRound(s) PROVE TypeInv'
  BY <1>12 DEF OpenRound
<1>13. ASSUME NEW s \in Turn, Refuse(s) PROVE TypeInv'
  BY <1>13 DEF Refuse
<1>14. ASSUME NEW s \in Turn, StateUpdate(s) PROVE TypeInv'
  BY <1>14 DEF StateUpdate, LeaveBatch, Merged, Refreshed
<1>15. ASSUME NEW s \in Turn, PersistIntermediate(s) PROVE TypeInv'
  BY <1>15 DEF PersistIntermediate
<1>16. ASSUME NEW s \in Turn, Interrupt(s) PROVE TypeInv'
  <2>1. CASE IsActive(disk)
    <3>1. Interrupted(disk, round[s]) \in Instance
      BY <2>1, OperatorTypes DEF IsActive
    <3> QED BY <1>16, <2>1, <3>1 DEF Interrupt, Save, Skip, Overrides, IsActive
  <2>2. CASE ~IsActive(disk)
    BY <1>16, <2>2 DEF Interrupt, Save, Skip, Overrides, IsActive
  <2> QED BY <2>1, <2>2
<1>17. ASSUME NEW s \in Turn, History(s) PROVE TypeInv'
  BY <1>17 DEF History, LeaveBatch, Merged, Refreshed
<1>18. ASSUME NEW s \in Turn, EndsEarly(s) PROVE TypeInv'
  BY <1>18 DEF EndsEarly, LeaveBatch
<1>19. ASSUME NEW s \in Turn, Done(s) PROVE TypeInv'
  BY <1>19 DEF Done, Merged, Refreshed
<1>20. ASSUME NEW s \in Turn, PersistTurn(s) PROVE TypeInv'
  BY <1>20 DEF PersistTurn, EndRound
<1>21. ASSUME NEW s \in Turn, CancelRound(s) PROVE TypeInv'
  <2>1. CASE IsActive(disk)
    <3>1. Interrupted(disk, round[s]) \in Instance
      BY <2>1, OperatorTypes DEF IsActive
    <3> QED BY <1>21, <2>1, <3>1 DEF CancelRound, Save, Skip, Overrides, IsActive
  <2>2. CASE ~IsActive(disk)
    BY <1>21, <2>2 DEF CancelRound, Save, Skip, Overrides, IsActive
  <2> QED BY <2>1, <2>2
<1>22. ASSUME NEW s \in Turn, PersistCancelled(s) PROVE TypeInv'
  BY <1>22 DEF PersistCancelled, EndRound, Carried
<1>23. ASSUME NEW s \in Turn, FailRound(s) PROVE TypeInv'
  BY <1>23 DEF FailRound, EndRound, Carried
<1>24. ASSUME NEW s \in Turn, SteerRound(s) PROVE TypeInv'
  BY <1>24, BoundAssumption DEF SteerRound
<1>25. ASSUME NEW s \in Turn, WaitForTasks(s) PROVE TypeInv'
  BY <1>25 DEF WaitForTasks
<1>26. ASSUME NEW s \in Turn, Settle(s) PROVE TypeInv'
  BY <1>26 DEF Settle
<1>27. ASSUME NEW s \in Turn, Judge(s) PROVE TypeInv'
  BY <1>27 DEF Judge
<1>28. ASSUME NEW s \in Turn, StopHook(s) PROVE TypeInv'
  BY <1>28 DEF StopHook
<1>29. ASSUME NEW s \in Turn, Close(s) PROVE TypeInv'
  BY <1>29 DEF Close
<1>30. ASSUME NEW s \in Turn, NEW n \in Node, Decide(s, n) PROVE TypeInv'
  <2> DEFINE i == Decided(loaded[s], n, round[s])
  <2>1. i \in Instance
    BY <1>30, OperatorTypes DEF Decide, IsActive
  <2> HIDE DEF i
  <2>2. CASE Continues(s, i)
    BY <1>30, <2>1, <2>2, SMTT(30) DEF Decide, Save, IsActive, i
  <2>3. CASE ~Continues(s, i)
    BY <1>30, <2>1, <2>3 DEF Decide, Reported, Save, IsActive, i
  <2> QED BY <2>2, <2>3
<1>31. ASSUME NEW s \in Turn, NEW q \in Question, AskQuestion(s, q) PROVE TypeInv'
  <2>1. CASE IsActive(disk)
    <3>1. EnteredAsk(disk, round[s]) \in Instance
      BY <2>1, OperatorTypes DEF IsActive
    <3> QED BY <1>31, <2>1, <3>1 DEF AskQuestion, Save, Skip, Overrides, IsActive
  <2>2. CASE ~IsActive(disk)
    BY <1>31, <2>2 DEF AskQuestion, Save, Skip, Overrides, IsActive
  <2> QED BY <2>1, <2>2
<1>32. ASSUME NEW s \in Turn, NEW q \in Question, ShowQuestion(s, q) PROVE TypeInv'
  BY <1>32 DEF ShowQuestion
<1>33. ASSUME NEW s \in Turn, NEW q \in Question, TakeAnswer(s, q) PROVE TypeInv'
  <2>1. CASE IsWaiting(disk)
    <3>1. LeftAsk(disk, round[s]) \in Instance
      BY <2>1, OperatorTypes DEF IsWaiting, IsPaused
    <3> QED BY <1>33, <2>1, <3>1, SMTT(30) DEF TakeAnswer, Save, Skip, Overrides, IsActive
  <2>2. CASE ~IsWaiting(disk)
    BY <1>33, <2>2 DEF TakeAnswer, Save, Skip, Overrides, IsActive
  <2> QED BY <2>1, <2>2
<1>34. ASSUME NEW c \in Client, PauseWorkflow(c) PROVE TypeInv'
  BY <1>34, OperatorTypes DEF PauseWorkflow, Hold, ClientDone
<1>35. ASSUME NEW c \in Client, SaveHeld(c) PROVE TypeInv'
  BY <1>35 DEF SaveHeld, Hold
<1>36. ASSUME NEW c \in Client, ClearWorkflow(c) PROVE TypeInv'
  BY <1>36 DEF ClearWorkflow, ClientDone
<1>37. ASSUME NEW c \in Client, StartWorkflowById(c) PROVE TypeInv'
  BY <1>37, StartedType DEF StartWorkflowById, ClientDone
<1>38. ASSUME NEW c \in Client, ResumeAnswered(c) PROVE TypeInv'
  BY <1>38, OperatorTypes DEF ResumeAnswered, Hold, ClientDone, IsWaiting, IsPaused
<1>39. ASSUME NEW c \in Client, NEW q \in Question, AnswerQuestion(c, q) PROVE TypeInv'
  BY <1>39 DEF AnswerQuestion
<1>40. CASE UNCHANGED vars
  BY <1>40 DEF vars, IsActive
<1> QED BY <1>1, <1>2, <1>3, <1>4, <1>5, <1>6, <1>7, <1>8, <1>9, <1>10, <1>11, <1>12, <1>13,
     <1>14, <1>15, <1>16, <1>17, <1>18, <1>19, <1>20, <1>21, <1>22, <1>23, <1>24, <1>25,
     <1>26, <1>27, <1>28, <1>29, <1>30, <1>31, <1>32, <1>33, <1>34, <1>35, <1>36, <1>37,
     <1>38, <1>39, <1>40 DEF Next, TurnNext, ClientNext, Deciding, Asking, Agent, Advance

\* TypeInv holds throughout: a turn that stores or decides has something in hand.
LEMMA TypeInvariant == Spec => []TypeInv
<1>1. Init => TypeInv
  BY NodeAssumption, NameAssumption, BoundAssumption, StartedType DEF Init, TypeInv, TypeOK,
       Holding, Pc, Then, Maybe
<1> QED BY <1>1, TypeStep, PTL DEF Spec

\* For any turns, clients, marks, questions and definition every variable keeps its
\* type: no decision, answer, pause or save writes an instance that is not one.
THEOREM TypeCorrect == Spec => []TypeOK
BY TypeInvariant, PTL DEF TypeInv

------------------------------------------------------------------------------
(* Copies. *)

\* No instance, and one that was just started, are coherent.
LEMMA CoherentBasics == Coherent(NoInstance) /\ Coherent(Started)
  BY NodeAssumption DEF Coherent, Started

\* Each operation keeps an instance coherent where its guard allows it.
LEMMA CoherentOperators ==
    ASSUME NEW i \in Instance, NEW r \in Nat, Coherent(i)
    PROVE  /\ Coherent(PausedByUser(i))
           /\ IsActive(i) => Coherent(Interrupted(i, r)) /\ Coherent(EnteredAsk(i,
                r)) /\ Coherent(Failed(i, r))
           /\ IsPaused(i, "interrupted") => Coherent(Uninterrupted(i, r))
           /\ IsWaiting(i) => Coherent(LeftAsk(i, r))
           /\ IsActive(i) => \A n \in Node : Coherent(Decided(i, n, r))
<1>1. Coherent(PausedByUser(i))
  BY NodeAssumption, NameAssumption DEF Instance, Status, Reason, PausedByUser, Coherent
<1>2. ASSUME IsActive(i) PROVE Coherent(Interrupted(i, r)) /\ Coherent(EnteredAsk(i,
     r)) /\ Coherent(Failed(i, r))
  BY <1>2, NodeAssumption, NameAssumption DEF Instance, Status, Reason, IsActive, Interrupted,
       EnteredAsk, Failed, Coherent
<1>3. ASSUME IsPaused(i, "interrupted") PROVE Coherent(Uninterrupted(i, r))
  BY <1>3, NodeAssumption, NameAssumption DEF Instance, Status, Reason, IsPaused,
       Uninterrupted, Coherent
<1>4. ASSUME IsWaiting(i) PROVE Coherent(LeftAsk(i, r))
  BY <1>4, NodeAssumption, NameAssumption DEF Instance, Status, Reason, IsPaused, IsWaiting,
       LeftAsk, Coherent
<1>5. ASSUME IsActive(i), NEW n \in Node PROVE Coherent(Decided(i, n, r))
  BY <1>5, NodeAssumption, NameAssumption DEF Instance, Status, Reason, IsActive, Decided,
       Coherent
<1> QED BY <1>1, <1>2, <1>3, <1>4, <1>5

\* Every step keeps every copy coherent.
LEMMA CoherentStep == TypeInv /\ CopiesAreCoherent /\ [Next]_vars => CopiesAreCoherent'
<1> SUFFICES ASSUME TypeInv, CopiesAreCoherent, [Next]_vars PROVE CopiesAreCoherent'
  OBVIOUS
<1> USE NameAssumption, CoherentBasics DEF CopiesAreCoherent, TypeInv, Holding, TypeOK, Pc,
     Then, Maybe, turns, clients, marks, asking, carried, counters, Goto
<1>1. ASSUME NEW s \in Turn, SaveInstance(s) PROVE CopiesAreCoherent'
  BY <1>1 DEF SaveInstance
<1>2. ASSUME NEW s \in Turn, Message(s) PROVE CopiesAreCoherent'
  BY <1>2, CoherentOperators DEF Message, IsActive
<1>3. ASSUME NEW s \in Turn, StartWorkflow(s) PROVE CopiesAreCoherent'
  BY <1>3, CoherentOperators DEF StartWorkflow
<1>4. ASSUME NEW s \in Turn, Evaluate(s) PROVE CopiesAreCoherent'
  BY <1>4 DEF Evaluate, Unsupervised, IsActive
<1>5. ASSUME NEW s \in Turn, DecideFails(s) PROVE CopiesAreCoherent'
  BY <1>5, CoherentOperators DEF DecideFails, Reported, Save, IsActive
<1>6. ASSUME NEW s \in Turn, DecideCancelled(s) PROVE CopiesAreCoherent'
  <2>1. CASE IsActive(disk)
    <3>1. Coherent(Interrupted(disk, round[s]))
      BY <2>1, CoherentOperators DEF IsActive, IsPaused, IsWaiting
    <3> QED BY <1>6, <2>1, <3>1 DEF DecideCancelled, Reported, Save, Skip, IsActive
  <2>2. CASE ~IsActive(disk)
    BY <1>6, <2>2 DEF DecideCancelled, Reported, Save, Skip, IsActive
  <2> QED BY <2>1, <2>2
<1>7. ASSUME NEW s \in Turn, AfterReport(s) PROVE CopiesAreCoherent'
  BY <1>7 DEF AfterReport
<1>8. ASSUME NEW s \in Turn, Lock(s) PROVE CopiesAreCoherent'
  BY <1>8 DEF Lock
<1>9. ASSUME NEW s \in Turn, Relock(s) PROVE CopiesAreCoherent'
  BY <1>9 DEF Relock
<1>10. ASSUME NEW s \in Turn, CancelWait(s) PROVE CopiesAreCoherent'
  BY <1>10 DEF CancelWait
<1>11. ASSUME NEW s \in Turn, ResumeInterrupted(s) PROVE CopiesAreCoherent'
  <2>1. CASE IsPaused(disk, "interrupted")
    <3>1. Coherent(Uninterrupted(disk, round[s]))
      BY <2>1, CoherentOperators DEF IsActive, IsPaused, IsWaiting
    <3> QED BY <1>11, <2>1, <3>1 DEF ResumeInterrupted, Save, Skip, IsActive
  <2>2. CASE ~IsPaused(disk, "interrupted")
    BY <1>11, <2>2 DEF ResumeInterrupted, Save, Skip, IsActive
  <2> QED BY <2>1, <2>2
<1>12. ASSUME NEW s \in Turn, OpenRound(s) PROVE CopiesAreCoherent'
  BY <1>12 DEF OpenRound
<1>13. ASSUME NEW s \in Turn, Refuse(s) PROVE CopiesAreCoherent'
  BY <1>13 DEF Refuse
<1>14. ASSUME NEW s \in Turn, StateUpdate(s) PROVE CopiesAreCoherent'
  BY <1>14 DEF StateUpdate, LeaveBatch, Merged, Refreshed
<1>15. ASSUME NEW s \in Turn, PersistIntermediate(s) PROVE CopiesAreCoherent'
  BY <1>15 DEF PersistIntermediate
<1>16. ASSUME NEW s \in Turn, Interrupt(s) PROVE CopiesAreCoherent'
  <2>1. CASE IsActive(disk)
    <3>1. Coherent(Interrupted(disk, round[s]))
      BY <2>1, CoherentOperators DEF IsActive, IsPaused, IsWaiting
    <3> QED BY <1>16, <2>1, <3>1 DEF Interrupt, Save, Skip, Overrides, IsActive
  <2>2. CASE ~IsActive(disk)
    BY <1>16, <2>2 DEF Interrupt, Save, Skip, Overrides, IsActive
  <2> QED BY <2>1, <2>2
<1>17. ASSUME NEW s \in Turn, History(s) PROVE CopiesAreCoherent'
  BY <1>17 DEF History, LeaveBatch, Merged, Refreshed
<1>18. ASSUME NEW s \in Turn, EndsEarly(s) PROVE CopiesAreCoherent'
  BY <1>18 DEF EndsEarly, LeaveBatch
<1>19. ASSUME NEW s \in Turn, Done(s) PROVE CopiesAreCoherent'
  BY <1>19 DEF Done, Merged, Refreshed
<1>20. ASSUME NEW s \in Turn, PersistTurn(s) PROVE CopiesAreCoherent'
  BY <1>20 DEF PersistTurn, EndRound
<1>21. ASSUME NEW s \in Turn, CancelRound(s) PROVE CopiesAreCoherent'
  <2>1. CASE IsActive(disk)
    <3>1. Coherent(Interrupted(disk, round[s]))
      BY <2>1, CoherentOperators DEF IsActive, IsPaused, IsWaiting
    <3> QED BY <1>21, <2>1, <3>1 DEF CancelRound, Save, Skip, Overrides, IsActive
  <2>2. CASE ~IsActive(disk)
    BY <1>21, <2>2 DEF CancelRound, Save, Skip, Overrides, IsActive
  <2> QED BY <2>1, <2>2
<1>22. ASSUME NEW s \in Turn, PersistCancelled(s) PROVE CopiesAreCoherent'
  BY <1>22 DEF PersistCancelled, EndRound, Carried
<1>23. ASSUME NEW s \in Turn, FailRound(s) PROVE CopiesAreCoherent'
  BY <1>23 DEF FailRound, EndRound, Carried
<1>24. ASSUME NEW s \in Turn, SteerRound(s) PROVE CopiesAreCoherent'
  BY <1>24 DEF SteerRound
<1>25. ASSUME NEW s \in Turn, WaitForTasks(s) PROVE CopiesAreCoherent'
  BY <1>25 DEF WaitForTasks
<1>26. ASSUME NEW s \in Turn, Settle(s) PROVE CopiesAreCoherent'
  BY <1>26 DEF Settle
<1>27. ASSUME NEW s \in Turn, Judge(s) PROVE CopiesAreCoherent'
  BY <1>27 DEF Judge
<1>28. ASSUME NEW s \in Turn, StopHook(s) PROVE CopiesAreCoherent'
  BY <1>28 DEF StopHook
<1>29. ASSUME NEW s \in Turn, Close(s) PROVE CopiesAreCoherent'
  BY <1>29 DEF Close
<1>30. ASSUME NEW s \in Turn, NEW n \in Node, Decide(s, n) PROVE CopiesAreCoherent'
  <2>1. Coherent(Decided(loaded[s], n, round[s]))
    BY <1>30, CoherentOperators DEF IsActive, Decide
  <2> QED BY <1>30, <2>1 DEF Decide, Reported, Save
<1>31. ASSUME NEW s \in Turn, NEW q \in Question, AskQuestion(s, q) PROVE CopiesAreCoherent'
  <2>1. CASE IsActive(disk)
    <3>1. Coherent(EnteredAsk(disk, round[s]))
      BY <2>1, CoherentOperators DEF IsActive, IsPaused, IsWaiting
    <3> QED BY <1>31, <2>1, <3>1 DEF AskQuestion, Save, Skip, Overrides, IsActive
  <2>2. CASE ~IsActive(disk)
    BY <1>31, <2>2 DEF AskQuestion, Save, Skip, Overrides, IsActive
  <2> QED BY <2>1, <2>2
<1>32. ASSUME NEW s \in Turn, NEW q \in Question, ShowQuestion(s, q) PROVE CopiesAreCoherent'
  BY <1>32 DEF ShowQuestion
<1>33. ASSUME NEW s \in Turn, NEW q \in Question, TakeAnswer(s, q) PROVE CopiesAreCoherent'
  <2>1. CASE IsWaiting(disk)
    <3>1. Coherent(LeftAsk(disk, round[s]))
      BY <2>1, CoherentOperators DEF IsActive, IsPaused, IsWaiting
    <3> QED BY <1>33, <2>1, <3>1 DEF TakeAnswer, Save, Skip, Overrides, IsActive
  <2>2. CASE ~IsWaiting(disk)
    BY <1>33, <2>2 DEF TakeAnswer, Save, Skip, Overrides, IsActive
  <2> QED BY <2>1, <2>2
<1>34. ASSUME NEW c \in Client, PauseWorkflow(c) PROVE CopiesAreCoherent'
  BY <1>34, CoherentOperators DEF PauseWorkflow, Hold, ClientDone
<1>35. ASSUME NEW c \in Client, SaveHeld(c) PROVE CopiesAreCoherent'
  BY <1>35 DEF SaveHeld, Hold
<1>36. ASSUME NEW c \in Client, ClearWorkflow(c) PROVE CopiesAreCoherent'
  BY <1>36 DEF ClearWorkflow, ClientDone
<1>37. ASSUME NEW c \in Client, StartWorkflowById(c) PROVE CopiesAreCoherent'
  BY <1>37, CoherentOperators DEF StartWorkflowById, ClientDone
<1>38. ASSUME NEW c \in Client, ResumeAnswered(c) PROVE CopiesAreCoherent'
  BY <1>38, CoherentOperators DEF ResumeAnswered, Hold, ClientDone, IsWaiting, IsPaused
<1>39. ASSUME NEW c \in Client, NEW q \in Question, AnswerQuestion(c,
     q) PROVE CopiesAreCoherent'
  BY <1>39 DEF AnswerQuestion
<1>40. CASE UNCHANGED vars
  BY <1>40 DEF vars, marks
<1> QED BY <1>1, <1>2, <1>3, <1>4, <1>5, <1>6, <1>7, <1>8, <1>9, <1>10, <1>11, <1>12, <1>13,
     <1>14, <1>15, <1>16, <1>17, <1>18, <1>19, <1>20, <1>21, <1>22, <1>23, <1>24, <1>25,
     <1>26, <1>27, <1>28, <1>29, <1>30, <1>31, <1>32, <1>33, <1>34, <1>35, <1>36, <1>37,
     <1>38, <1>39, <1>40 DEF Next, TurnNext, ClientNext, Deciding, Asking, Agent, Advance

\* However many turns and clients load, carry and save the instance in whatever
\* order: every copy is one the supervisor can go on from
\* (enter_ask_user_for_help, resume_from_ask_user_for_help, apply_decision).
THEOREM CopiesAreCoherentAlways == Spec => []CopiesAreCoherent
<1>1. Init => CopiesAreCoherent
  BY CoherentBasics DEF Init, CopiesAreCoherent
<1> QED BY <1>1, TypeInvariant, CoherentStep, PTL DEF Spec

------------------------------------------------------------------------------
(* The budget of the supervisor. *)

Before == {"idle", "evaluate", "deciding"}
Outside == Before \cup {"saving", "locking", "reported", "done"}
Budget(s) ==
    /\ given[s] <= MaxRounds + 1
    /\ at[s] = "round" =>
          /\ given[s] <= round[s] + 1
          /\ pc[s] \notin {"idle", "locking", "reported"}
          /\ pc[s] = "saving" => next[s] \notin {"idle", "locking", "reported"}
    /\ at[s] # "round" =>
          /\ given[s] <= 1
          /\ pc[s] \in Outside
          /\ pc[s] = "saving" => next[s] \in {"locking", "reported", "done"}
          /\ pc[s] \in Before => given[s] = 0
BudgetInv == \A s \in Turn : Budget(s)

\* Every step keeps the budget.
LEMMA BudgetStep == TypeInv /\ BudgetInv /\ [Next]_vars => BudgetInv'
<1> SUFFICES ASSUME TypeInv, BudgetInv, [Next]_vars PROVE BudgetInv'
  OBVIOUS
<1> USE BoundAssumption DEF BudgetInv, Budget, Before, Outside, TypeInv, TypeOK, Holding, Pc,
     Then, turns, clients, marks, asking, carried, counters, Goto
<1>1. ASSUME NEW s \in Turn, SaveInstance(s) PROVE BudgetInv'
  BY <1>1 DEF SaveInstance
<1>2. ASSUME NEW s \in Turn, Message(s) PROVE BudgetInv'
  BY <1>2 DEF Message, IsActive
<1>3. ASSUME NEW s \in Turn, StartWorkflow(s) PROVE BudgetInv'
  BY <1>3 DEF StartWorkflow
<1>4. ASSUME NEW s \in Turn, Evaluate(s) PROVE BudgetInv'
  BY <1>4 DEF Evaluate, Unsupervised, IsActive
<1>5. ASSUME NEW s \in Turn, DecideFails(s) PROVE BudgetInv'
  BY <1>5 DEF DecideFails, Reported, Save, IsActive
<1>6. ASSUME NEW s \in Turn, DecideCancelled(s) PROVE BudgetInv'
  BY <1>6 DEF DecideCancelled, Reported, Save, Skip, IsActive
<1>7. ASSUME NEW s \in Turn, AfterReport(s) PROVE BudgetInv'
  BY <1>7 DEF AfterReport
<1>8. ASSUME NEW s \in Turn, Lock(s) PROVE BudgetInv'
  BY <1>8 DEF Lock
<1>9. ASSUME NEW s \in Turn, Relock(s) PROVE BudgetInv'
  BY <1>9 DEF Relock
<1>10. ASSUME NEW s \in Turn, CancelWait(s) PROVE BudgetInv'
  BY <1>10 DEF CancelWait
<1>11. ASSUME NEW s \in Turn, ResumeInterrupted(s) PROVE BudgetInv'
  BY <1>11 DEF ResumeInterrupted, Save, Skip, IsPaused
<1>12. ASSUME NEW s \in Turn, OpenRound(s) PROVE BudgetInv'
  BY <1>12 DEF OpenRound
<1>13. ASSUME NEW s \in Turn, Refuse(s) PROVE BudgetInv'
  BY <1>13 DEF Refuse
<1>14. ASSUME NEW s \in Turn, StateUpdate(s) PROVE BudgetInv'
  BY <1>14 DEF StateUpdate, LeaveBatch, Merged, Refreshed
<1>15. ASSUME NEW s \in Turn, PersistIntermediate(s) PROVE BudgetInv'
  BY <1>15 DEF PersistIntermediate
<1>16. ASSUME NEW s \in Turn, Interrupt(s) PROVE BudgetInv'
  BY <1>16 DEF Interrupt, Save, Skip, Overrides, IsActive
<1>17. ASSUME NEW s \in Turn, History(s) PROVE BudgetInv'
  BY <1>17 DEF History, LeaveBatch, Merged, Refreshed
<1>18. ASSUME NEW s \in Turn, EndsEarly(s) PROVE BudgetInv'
  BY <1>18 DEF EndsEarly, LeaveBatch
<1>19. ASSUME NEW s \in Turn, Done(s) PROVE BudgetInv'
  BY <1>19 DEF Done, Merged, Refreshed
<1>20. ASSUME NEW s \in Turn, PersistTurn(s) PROVE BudgetInv'
  BY <1>20 DEF PersistTurn, EndRound
<1>21. ASSUME NEW s \in Turn, CancelRound(s) PROVE BudgetInv'
  BY <1>21 DEF CancelRound, Save, Skip, Overrides, IsActive
<1>22. ASSUME NEW s \in Turn, PersistCancelled(s) PROVE BudgetInv'
  BY <1>22 DEF PersistCancelled, EndRound, Carried
<1>23. ASSUME NEW s \in Turn, FailRound(s) PROVE BudgetInv'
  BY <1>23 DEF FailRound, EndRound, Carried
<1>24. ASSUME NEW s \in Turn, SteerRound(s) PROVE BudgetInv'
  BY <1>24 DEF SteerRound
<1>25. ASSUME NEW s \in Turn, WaitForTasks(s) PROVE BudgetInv'
  BY <1>25 DEF WaitForTasks
<1>26. ASSUME NEW s \in Turn, Settle(s) PROVE BudgetInv'
  BY <1>26 DEF Settle
<1>27. ASSUME NEW s \in Turn, Judge(s) PROVE BudgetInv'
  BY <1>27 DEF Judge
<1>28. ASSUME NEW s \in Turn, StopHook(s) PROVE BudgetInv'
  BY <1>28 DEF StopHook
<1>29. ASSUME NEW s \in Turn, Close(s) PROVE BudgetInv'
  BY <1>29 DEF Close
<1>30. ASSUME NEW s \in Turn, NEW n \in Node, Decide(s, n) PROVE BudgetInv'
  BY <1>30 DEF Decide, Reported, Save, Continues, HasMessage
<1>31. ASSUME NEW s \in Turn, NEW q \in Question, AskQuestion(s, q) PROVE BudgetInv'
  BY <1>31 DEF AskQuestion, Save, Skip, Overrides, IsActive
<1>32. ASSUME NEW s \in Turn, NEW q \in Question, ShowQuestion(s, q) PROVE BudgetInv'
  BY <1>32 DEF ShowQuestion
<1>33. ASSUME NEW s \in Turn, NEW q \in Question, TakeAnswer(s, q) PROVE BudgetInv'
  BY <1>33 DEF TakeAnswer, Save, Skip, Overrides, IsWaiting, IsPaused
<1>34. ASSUME NEW c \in Client, PauseWorkflow(c) PROVE BudgetInv'
  BY <1>34 DEF PauseWorkflow, Hold, ClientDone
<1>35. ASSUME NEW c \in Client, SaveHeld(c) PROVE BudgetInv'
  BY <1>35 DEF SaveHeld, Hold
<1>36. ASSUME NEW c \in Client, ClearWorkflow(c) PROVE BudgetInv'
  BY <1>36 DEF ClearWorkflow, ClientDone
<1>37. ASSUME NEW c \in Client, StartWorkflowById(c) PROVE BudgetInv'
  BY <1>37 DEF StartWorkflowById, ClientDone
<1>38. ASSUME NEW c \in Client, ResumeAnswered(c) PROVE BudgetInv'
  BY <1>38 DEF ResumeAnswered, Hold, ClientDone, IsWaiting, IsPaused
<1>39. ASSUME NEW c \in Client, NEW q \in Question, AnswerQuestion(c, q) PROVE BudgetInv'
  BY <1>39 DEF AnswerQuestion
<1>40. CASE UNCHANGED vars
  BY <1>40 DEF vars, marks
<1> QED BY <1>1, <1>2, <1>3, <1>4, <1>5, <1>6, <1>7, <1>8, <1>9, <1>10, <1>11, <1>12, <1>13,
     <1>14, <1>15, <1>16, <1>17, <1>18, <1>19, <1>20, <1>21, <1>22, <1>23, <1>24, <1>25,
     <1>26, <1>27, <1>28, <1>29, <1>30, <1>31, <1>32, <1>33, <1>34, <1>35, <1>36, <1>37,
     <1>38, <1>39, <1>40 DEF Next, TurnNext, ClientNext, Deciding, Asking, Agent, Advance

\* BudgetInv holds throughout: a turn is charged for every message it is given.
LEMMA BudgetInvariant == Spec => []BudgetInv
<1>1. Init => BudgetInv
  <2> SUFFICES ASSUME Init, NEW s \in Turn PROVE Budget(s)
    BY DEF BudgetInv
  <2>1. given[s] = 0 /\ at[s] = "head" /\ pc[s] = "idle"
    BY DEF Init
  <2> QED BY <2>1, BoundAssumption DEF Budget, Before, Outside
<1> QED BY <1>1, TypeInvariant, BudgetStep, PTL DEF Spec

\* For any limit and any number of turns, steers and Stop hooks: a turn gets at
\* most max_rounds messages of the supervisor after the one that may open it
\* (workflow_round_allows_continue).
THEOREM RoundBudgetAlways == Spec => []RoundBudget
<1>1. BudgetInv => RoundBudget
  BY DEF BudgetInv, Budget, RoundBudget
<1> QED BY <1>1, BudgetInvariant, PTL

------------------------------------------------------------------------------
(* Pauses and clears that nobody overlaps. *)

Idle(i) ==
    /\ kept = "pause" => i = NoInstance \/ IsPaused(i, "manual")
    /\ kept = "clear" => i = NoInstance
QuietTurn(s) ==
    /\ ~InRound(s) => copy[s] = NoInstance /\ raw[s] = Unset /\ override[s] = NoInstance
    /\ Idle(copy[s]) /\ Idle(override[s])
    /\ raw[s] # Unset => Idle(raw[s])
    /\ pc[s] \in {"deciding", "saving"} => Idle(loaded[s])
QuietInv ==
    /\ Idle(disk)
    /\ \A s \in Turn : QuietTurn(s)
    /\ \A c \in Client : Idle(held[c]) /\ (cpc[c] # "saving" => held[c] = NoInstance)

\* Every step keeps what a quiet command promises.
LEMMA QuietStep == TypeInv /\ QuietInv /\ [Next]_vars => QuietInv'
<1> SUFFICES ASSUME TypeInv, QuietInv, [Next]_vars PROVE QuietInv'
  OBVIOUS
<1> USE NameAssumption DEF QuietInv, QuietTurn, Idle, InRound, RoundPc, Carrying, IsPaused,
     IsActive, Maybe, TypeInv, TypeOK, Holding, Pc, Then, turns, clients, marks, asking, carried,
     counters, Goto
<1>1. ASSUME NEW s \in Turn, SaveInstance(s) PROVE QuietInv'
  BY <1>1 DEF SaveInstance
<1>2. ASSUME NEW s \in Turn, Message(s) PROVE QuietInv'
  BY <1>2 DEF Message
<1>3. ASSUME NEW s \in Turn, StartWorkflow(s) PROVE QuietInv'
  BY <1>3 DEF StartWorkflow
<1>4. ASSUME NEW s \in Turn, Evaluate(s) PROVE QuietInv'
  BY <1>4 DEF Evaluate, Unsupervised
<1>5. ASSUME NEW s \in Turn, DecideFails(s) PROVE QuietInv'
  BY <1>5 DEF DecideFails, Reported, Save
<1>6. ASSUME NEW s \in Turn, DecideCancelled(s) PROVE QuietInv'
  BY <1>6 DEF DecideCancelled, Reported, Save, Skip
<1>7. ASSUME NEW s \in Turn, AfterReport(s) PROVE QuietInv'
  BY <1>7 DEF AfterReport
<1>8. ASSUME NEW s \in Turn, Lock(s) PROVE QuietInv'
  BY <1>8 DEF Lock
<1>9. ASSUME NEW s \in Turn, Relock(s) PROVE QuietInv'
  BY <1>9 DEF Relock
<1>10. ASSUME NEW s \in Turn, CancelWait(s) PROVE QuietInv'
  BY <1>10 DEF CancelWait
<1>11. ASSUME NEW s \in Turn, ResumeInterrupted(s) PROVE QuietInv'
  BY <1>11 DEF ResumeInterrupted, Save, Skip, Uninterrupted
<1>12. ASSUME NEW s \in Turn, OpenRound(s) PROVE QuietInv'
  BY <1>12 DEF OpenRound
<1>13. ASSUME NEW s \in Turn, Refuse(s) PROVE QuietInv'
  BY <1>13 DEF Refuse
<1>14. ASSUME NEW s \in Turn, StateUpdate(s) PROVE QuietInv'
  BY <1>14 DEF StateUpdate, LeaveBatch, Merged, Refreshed
<1>15. ASSUME NEW s \in Turn, PersistIntermediate(s) PROVE QuietInv'
  BY <1>15 DEF PersistIntermediate
<1>16. ASSUME NEW s \in Turn, Interrupt(s) PROVE QuietInv'
  BY <1>16 DEF Interrupt, Save, Skip, Overrides
<1>17. ASSUME NEW s \in Turn, History(s) PROVE QuietInv'
  BY <1>17 DEF History, LeaveBatch, Merged, Refreshed
<1>18. ASSUME NEW s \in Turn, EndsEarly(s) PROVE QuietInv'
  BY <1>18 DEF EndsEarly, LeaveBatch
<1>19. ASSUME NEW s \in Turn, Done(s) PROVE QuietInv'
  BY <1>19 DEF Done, Merged, Refreshed
<1>20. ASSUME NEW s \in Turn, PersistTurn(s) PROVE QuietInv'
  BY <1>20 DEF PersistTurn, EndRound
<1>21. ASSUME NEW s \in Turn, CancelRound(s) PROVE QuietInv'
  BY <1>21 DEF CancelRound, Save, Skip, Overrides
<1>22. ASSUME NEW s \in Turn, PersistCancelled(s) PROVE QuietInv'
  BY <1>22 DEF PersistCancelled, EndRound, Carried
<1>23. ASSUME NEW s \in Turn, FailRound(s) PROVE QuietInv'
  BY <1>23 DEF FailRound, EndRound, Carried
<1>24. ASSUME NEW s \in Turn, SteerRound(s) PROVE QuietInv'
  BY <1>24 DEF SteerRound
<1>25. ASSUME NEW s \in Turn, WaitForTasks(s) PROVE QuietInv'
  BY <1>25 DEF WaitForTasks
<1>26. ASSUME NEW s \in Turn, Settle(s) PROVE QuietInv'
  BY <1>26 DEF Settle
<1>27. ASSUME NEW s \in Turn, Judge(s) PROVE QuietInv'
  BY <1>27 DEF Judge
<1>28. ASSUME NEW s \in Turn, StopHook(s) PROVE QuietInv'
  BY <1>28 DEF StopHook
<1>29. ASSUME NEW s \in Turn, Close(s) PROVE QuietInv'
  BY <1>29 DEF Close
<1>30. ASSUME NEW s \in Turn, NEW n \in Node, Decide(s, n) PROVE QuietInv'
  BY <1>30 DEF Decide, Reported, Save, Continues, HasMessage
<1>31. ASSUME NEW s \in Turn, NEW q \in Question, AskQuestion(s, q) PROVE QuietInv'
  BY <1>31 DEF AskQuestion, Save, Skip, Overrides
<1>32. ASSUME NEW s \in Turn, NEW q \in Question, ShowQuestion(s, q) PROVE QuietInv'
  BY <1>32 DEF ShowQuestion
<1>33. ASSUME NEW s \in Turn, NEW q \in Question, TakeAnswer(s, q) PROVE QuietInv'
  BY <1>33 DEF TakeAnswer, Save, Skip, Overrides, IsWaiting
<1>34. ASSUME NEW c \in Client, PauseWorkflow(c) PROVE QuietInv'
  <2>1. CASE disk # NoInstance
    <3>1. Idle(PausedByUser(disk))
      BY <2>1 DEF PausedByUser, Instance
    <3> QED BY <1>34, <2>1, <3>1 DEF PauseWorkflow, Hold, ClientDone
  <2>2. CASE disk = NoInstance
    BY <1>34, <2>2 DEF PauseWorkflow, Hold, ClientDone, PausedByUser
  <2> QED BY <2>1, <2>2
<1>35. ASSUME NEW c \in Client, SaveHeld(c) PROVE QuietInv'
  BY <1>35 DEF SaveHeld, Hold, Quiet
<1>36. ASSUME NEW c \in Client, ClearWorkflow(c) PROVE QuietInv'
  BY <1>36 DEF ClearWorkflow, ClientDone, Quiet
<1>37. ASSUME NEW c \in Client, StartWorkflowById(c) PROVE QuietInv'
  BY <1>37 DEF StartWorkflowById, ClientDone
<1>38. ASSUME NEW c \in Client, ResumeAnswered(c) PROVE QuietInv'
  BY <1>38 DEF ResumeAnswered, Hold, ClientDone, IsWaiting
<1>39. ASSUME NEW c \in Client, NEW q \in Question, AnswerQuestion(c, q) PROVE QuietInv'
  BY <1>39 DEF AnswerQuestion
<1>40. CASE UNCHANGED vars
  BY <1>40 DEF vars, marks
<1> QED BY <1>1, <1>2, <1>3, <1>4, <1>5, <1>6, <1>7, <1>8, <1>9, <1>10, <1>11, <1>12, <1>13,
     <1>14, <1>15, <1>16, <1>17, <1>18, <1>19, <1>20, <1>21, <1>22, <1>23, <1>24, <1>25,
     <1>26, <1>27, <1>28, <1>29, <1>30, <1>31, <1>32, <1>33, <1>34, <1>35, <1>36, <1>37,
     <1>38, <1>39, <1>40 DEF Next, TurnNext, ClientNext, Deciding, Asking, Agent, Advance

\* QuietInv holds throughout: a turn outside a round carries nothing.
LEMMA QuietInvariant == Spec => []QuietInv
<1>1. Init => QuietInv
  BY NameAssumption DEF Init, QuietInv, QuietTurn, Idle, InRound, RoundPc, Carrying
<1> QED BY <1>1, TypeInvariant, QuietStep, PTL DEF Spec

\* For any number of turns and clients: a pause or clear that lands while nobody
\* carries an instance holds until a workflow is started (pause_workflow,
\* clear_workflow).
THEOREM QuietCommandHoldsAlways == Spec => []QuietCommandHolds
<1>1. QuietInv => QuietCommandHolds
  BY DEF QuietInv, QuietCommandHolds, Idle, IsPaused, IsActive
<1> QED BY <1>1, QuietInvariant, PTL

------------------------------------------------------------------------------
(* Cancelled turns. *)

\* The run lock covers a turn from its first round on, except for its wait for tasks.
HoldsLock(s) == at[s] = "round" /\ pc[s] \notin {"relock", "done"} => lock = s
LockInv == \A s \in Turn : HoldsLock(s)

\* Every step leaves the lock with the turn that runs.
LEMMA LockStep == TypeInv /\ BudgetInv /\ LockInv /\ [Next]_vars => LockInv'
<1> SUFFICES ASSUME TypeInv, BudgetInv, LockInv, [Next]_vars PROVE LockInv'
  OBVIOUS
<1> USE BoundAssumption DEF LockInv, HoldsLock, BudgetInv, Budget, Before, Outside, TypeInv,
     TypeOK, Pc, Then, turns, clients, marks, asking, carried, counters, Goto
<1>1. ASSUME NEW s \in Turn, SaveInstance(s) PROVE LockInv'
  BY <1>1 DEF SaveInstance
<1>2. ASSUME NEW s \in Turn, Message(s) PROVE LockInv'
  BY <1>2 DEF Message
<1>3. ASSUME NEW s \in Turn, StartWorkflow(s) PROVE LockInv'
  BY <1>3 DEF StartWorkflow
<1>4. ASSUME NEW s \in Turn, Evaluate(s) PROVE LockInv'
  BY <1>4 DEF Evaluate, Unsupervised
<1>5. ASSUME NEW s \in Turn, DecideFails(s) PROVE LockInv'
  BY <1>5 DEF DecideFails, Reported, Save
<1>6. ASSUME NEW s \in Turn, DecideCancelled(s) PROVE LockInv'
  BY <1>6 DEF DecideCancelled, Reported, Save, Skip
<1>7. ASSUME NEW s \in Turn, AfterReport(s) PROVE LockInv'
  BY <1>7 DEF AfterReport
<1>8. ASSUME NEW s \in Turn, Lock(s) PROVE LockInv'
  BY <1>8 DEF Lock
<1>9. ASSUME NEW s \in Turn, Relock(s) PROVE LockInv'
  BY <1>9 DEF Relock
<1>10. ASSUME NEW s \in Turn, CancelWait(s) PROVE LockInv'
  BY <1>10 DEF CancelWait
<1>11. ASSUME NEW s \in Turn, ResumeInterrupted(s) PROVE LockInv'
  BY <1>11 DEF ResumeInterrupted, Save, Skip, Uninterrupted
<1>12. ASSUME NEW s \in Turn, OpenRound(s) PROVE LockInv'
  BY <1>12 DEF OpenRound
<1>13. ASSUME NEW s \in Turn, Refuse(s) PROVE LockInv'
  BY <1>13 DEF Refuse
<1>14. ASSUME NEW s \in Turn, StateUpdate(s) PROVE LockInv'
  BY <1>14 DEF StateUpdate, LeaveBatch, Merged, Refreshed
<1>15. ASSUME NEW s \in Turn, PersistIntermediate(s) PROVE LockInv'
  BY <1>15 DEF PersistIntermediate
<1>16. ASSUME NEW s \in Turn, Interrupt(s) PROVE LockInv'
  BY <1>16 DEF Interrupt, Save, Skip, Overrides
<1>17. ASSUME NEW s \in Turn, History(s) PROVE LockInv'
  BY <1>17 DEF History, LeaveBatch, Merged, Refreshed
<1>18. ASSUME NEW s \in Turn, EndsEarly(s) PROVE LockInv'
  BY <1>18 DEF EndsEarly, LeaveBatch
<1>19. ASSUME NEW s \in Turn, Done(s) PROVE LockInv'
  BY <1>19 DEF Done, Merged, Refreshed
<1>20. ASSUME NEW s \in Turn, PersistTurn(s) PROVE LockInv'
  BY <1>20 DEF PersistTurn, EndRound
<1>21. ASSUME NEW s \in Turn, CancelRound(s) PROVE LockInv'
  BY <1>21 DEF CancelRound, Save, Skip, Overrides
<1>22. ASSUME NEW s \in Turn, PersistCancelled(s) PROVE LockInv'
  BY <1>22 DEF PersistCancelled, EndRound, Carried
<1>23. ASSUME NEW s \in Turn, FailRound(s) PROVE LockInv'
  BY <1>23 DEF FailRound, EndRound, Carried
<1>24. ASSUME NEW s \in Turn, SteerRound(s) PROVE LockInv'
  BY <1>24 DEF SteerRound
<1>25. ASSUME NEW s \in Turn, WaitForTasks(s) PROVE LockInv'
  BY <1>25 DEF WaitForTasks
<1>26. ASSUME NEW s \in Turn, Settle(s) PROVE LockInv'
  BY <1>26 DEF Settle
<1>27. ASSUME NEW s \in Turn, Judge(s) PROVE LockInv'
  BY <1>27 DEF Judge
<1>28. ASSUME NEW s \in Turn, StopHook(s) PROVE LockInv'
  BY <1>28 DEF StopHook
<1>29. ASSUME NEW s \in Turn, Close(s) PROVE LockInv'
  BY <1>29 DEF Close
<1>30. ASSUME NEW s \in Turn, NEW n \in Node, Decide(s, n) PROVE LockInv'
  BY <1>30 DEF Decide, Reported, Save, Continues, HasMessage
<1>31. ASSUME NEW s \in Turn, NEW q \in Question, AskQuestion(s, q) PROVE LockInv'
  BY <1>31 DEF AskQuestion, Save, Skip, Overrides
<1>32. ASSUME NEW s \in Turn, NEW q \in Question, ShowQuestion(s, q) PROVE LockInv'
  BY <1>32 DEF ShowQuestion
<1>33. ASSUME NEW s \in Turn, NEW q \in Question, TakeAnswer(s, q) PROVE LockInv'
  BY <1>33 DEF TakeAnswer, Save, Skip, Overrides, IsWaiting
<1>34. ASSUME NEW c \in Client, PauseWorkflow(c) PROVE LockInv'
  BY <1>34 DEF PauseWorkflow, Hold, ClientDone
<1>35. ASSUME NEW c \in Client, SaveHeld(c) PROVE LockInv'
  BY <1>35 DEF SaveHeld, Hold
<1>36. ASSUME NEW c \in Client, ClearWorkflow(c) PROVE LockInv'
  BY <1>36 DEF ClearWorkflow, ClientDone
<1>37. ASSUME NEW c \in Client, StartWorkflowById(c) PROVE LockInv'
  BY <1>37 DEF StartWorkflowById, ClientDone
<1>38. ASSUME NEW c \in Client, ResumeAnswered(c) PROVE LockInv'
  BY <1>38 DEF ResumeAnswered, Hold, ClientDone, IsWaiting
<1>39. ASSUME NEW c \in Client, NEW q \in Question, AnswerQuestion(c, q) PROVE LockInv'
  BY <1>39 DEF AnswerQuestion
<1>40. CASE UNCHANGED vars
  BY <1>40 DEF vars, marks
<1> QED BY <1>1, <1>2, <1>3, <1>4, <1>5, <1>6, <1>7, <1>8, <1>9, <1>10, <1>11, <1>12, <1>13,
     <1>14, <1>15, <1>16, <1>17, <1>18, <1>19, <1>20, <1>21, <1>22, <1>23, <1>24, <1>25,
     <1>26, <1>27, <1>28, <1>29, <1>30, <1>31, <1>32, <1>33, <1>34, <1>35, <1>36, <1>37,
     <1>38, <1>39, <1>40 DEF Next, TurnNext, ClientNext, Deciding, Asking, Agent, Advance

\* LockInv holds throughout.
LEMMA LockInvariant == Spec => []LockInv
<1>1. Init => LockInv
  BY DEF Init, LockInv, HoldsLock
<1> QED BY <1>1, TypeInvariant, BudgetInvariant, LockStep, PTL DEF Spec

\* Two turns are never in a round together.
LEMMA RoundsApart ==
    ASSUME BudgetInv, LockInv, NEW s \in Turn, NEW t \in Turn, InRound(s), InRound(t)
    PROVE  s = t
<1>1. ASSUME NEW u \in Turn, InRound(u) PROVE lock = u
  BY <1>1 DEF BudgetInv, Budget, Outside, Before, LockInv, HoldsLock, InRound, RoundPc, Carrying
<1> QED BY <1>1

\* A workflow that is there and not active, for a reason other than the user's command.
Halted(i) == i # NoInstance /\ ~IsActive(i) /\ ~IsPaused(i, "manual")
\* What halts the workflow in a round that no other turn overtakes reaches what the
\* round carries.
CarriesHalted(s) ==
    /\ Halted(disk) /\ pc[s] \in {"round", "batch", "showing", "storing"}
         /\ override[s] = NoInstance => ~IsActive(copy[s])
    /\ Halted(disk) /\ pc[s] \in {"round", "cancelling", "cancelled"} => ~IsActive(Carried(s))
StaysHalted(s) ==
    /\ s \notin overtaken => CarriesHalted(s)
    /\ pc[s] = "storing" /\ override[s] = NoInstance => raw[s] = copy[s]
    /\ pc[s] = "round" /\ raw[s] = Unset => override[s] = NoInstance
    /\ pc[s] = "saving" /\ InRound(s) => override[s] # NoInstance
    /\ pc[s] = "saving" /\ next[s] = "cancelled" => raw[s] # Unset /\ ~IsActive(raw[s])
HaltInv ==
    /\ \A s \in Turn : StaysHalted(s)
    /\ \A c \in Client : ~Halted(held[c])

\* What pausing, asking and answering make of an instance (pause_workflow,
\* enter_ask_user_for_help, resume_from_ask_user_for_help).
LEMMA Stopped ==
    ASSUME NEW i \in Instance, NEW r \in Nat
    PROVE  /\ IsPaused(PausedByUser(i), "manual")
           /\ Interrupted(i, r) \in Instance /\ ~IsActive(Interrupted(i, r))
           /\ EnteredAsk(i, r) \in Instance /\ ~IsActive(EnteredAsk(i, r))
           /\ IsWaiting(i) => LeftAsk(i, r) \in Instance /\ IsActive(LeftAsk(i, r))
<1>1. IsPaused(PausedByUser(i), "manual")
  BY NameAssumption, OperatorTypes DEF Instance, PausedByUser, IsPaused
<1>2. Interrupted(i, r) \in Instance /\ ~IsActive(Interrupted(i, r))
  BY OperatorTypes DEF Instance, Interrupted, IsActive
<1>3. EnteredAsk(i, r) \in Instance /\ ~IsActive(EnteredAsk(i, r))
  BY OperatorTypes DEF EnteredAsk, IsActive
<1>4. ASSUME IsWaiting(i) PROVE LeftAsk(i, r) \in Instance /\ IsActive(LeftAsk(i, r))
  BY <1>4, NameAssumption, OperatorTypes DEF IsWaiting, LeftAsk, IsActive
<1> QED BY <1>1, <1>2, <1>3, <1>4

\* Every step keeps a halted workflow halted in what a turn carries.
LEMMA HaltStep ==
    TypeInv /\ BudgetInv /\ QuietInv /\ LockInv /\ HaltInv /\ [Next]_vars => HaltInv'
<1> SUFFICES ASSUME TypeInv, BudgetInv, QuietInv, LockInv, HaltInv, [Next]_vars PROVE HaltInv'
  OBVIOUS
<1>a. \A s \in Turn :
        ~InRound(s) => copy[s] = NoInstance /\ raw[s] = Unset /\ override[s] = NoInstance
  BY DEF QuietInv, QuietTurn
<1>b. \A s, t \in Turn : InRound(s) /\ InRound(t) => s = t
  BY RoundsApart
<1>d. ASSUME NEW s \in Turn, IsActive(disk)
      PROVE  /\ Interrupted(disk, round[s]) \in Instance /\ ~IsActive(Interrupted(disk, round[s]))
             /\ EnteredAsk(disk, round[s]) \in Instance /\ ~IsActive(EnteredAsk(disk, round[s]))
  <2>1. disk \in Instance /\ round[s] \in Nat
    BY <1>d DEF TypeInv, TypeOK, Maybe, IsActive
  <2> QED BY <2>1, Stopped
<1>e. ASSUME NEW s \in Turn, IsWaiting(disk)
      PROVE  LeftAsk(disk, round[s]) \in Instance /\ IsActive(LeftAsk(disk, round[s]))
  <2>1. disk \in Instance /\ round[s] \in Nat
    BY <1>e DEF TypeInv, TypeOK, Maybe, IsWaiting, IsPaused
  <2> QED BY <1>e, <2>1, Stopped
<1> USE <1>a, <1>b, NameAssumption DEF HaltInv, StaysHalted, CarriesHalted, Halted, InRound, RoundPc,
     Carrying, Carried, IsPaused, IsActive, Maybe, TypeInv, TypeOK, Holding, Pc, Then, turns,
     clients, marks, asking, carried, counters, Goto
<1>1. ASSUME NEW s \in Turn, SaveInstance(s) PROVE HaltInv'
  BY <1>1 DEF SaveInstance
<1>2. ASSUME NEW s \in Turn, Message(s) PROVE HaltInv'
  BY <1>2 DEF Message
<1>3. ASSUME NEW s \in Turn, StartWorkflow(s) PROVE HaltInv'
  BY <1>3 DEF StartWorkflow, Started
<1>4. ASSUME NEW s \in Turn, Evaluate(s) PROVE HaltInv'
  BY <1>4 DEF Evaluate, Unsupervised
<1>5. ASSUME NEW s \in Turn, DecideFails(s) PROVE HaltInv'
  BY <1>5 DEF DecideFails, Reported, Save
<1>6. ASSUME NEW s \in Turn, DecideCancelled(s) PROVE HaltInv'
  BY <1>6 DEF DecideCancelled, Reported, Save, Skip
<1>7. ASSUME NEW s \in Turn, AfterReport(s) PROVE HaltInv'
  BY <1>7 DEF AfterReport
<1>8. ASSUME NEW s \in Turn, Lock(s) PROVE HaltInv'
  BY <1>8 DEF Lock
<1>9. ASSUME NEW s \in Turn, Relock(s) PROVE HaltInv'
  BY <1>9 DEF Relock
<1>10. ASSUME NEW s \in Turn, CancelWait(s) PROVE HaltInv'
  BY <1>10 DEF CancelWait
<1>11. ASSUME NEW s \in Turn, ResumeInterrupted(s) PROVE HaltInv'
  BY <1>11 DEF ResumeInterrupted, Save, Skip, Uninterrupted
<1>12. ASSUME NEW s \in Turn, OpenRound(s) PROVE HaltInv'
  BY <1>12 DEF OpenRound
<1>13. ASSUME NEW s \in Turn, Refuse(s) PROVE HaltInv'
  BY <1>13 DEF Refuse
<1>14. ASSUME NEW s \in Turn, StateUpdate(s) PROVE HaltInv'
  BY <1>14 DEF StateUpdate, LeaveBatch, Merged, Refreshed
<1>15. ASSUME NEW s \in Turn, PersistIntermediate(s) PROVE HaltInv'
  BY <1>15 DEF PersistIntermediate
<1>16. ASSUME NEW s \in Turn, Interrupt(s) PROVE HaltInv'
  <2>1. CASE IsActive(disk)
    <3> DEFINE i == Interrupted(disk, round[s])
    <3>1. i \in Instance /\ ~IsActive(i)
      BY <2>1, <1>d
    <3> HIDE DEF i
    <3> QED BY <1>16, <2>1, <3>1 DEF Interrupt, i, Save, Skip, Overrides
  <2>2. CASE ~IsActive(disk)
    BY <1>16, <2>2 DEF Interrupt, Save, Skip, Overrides
  <2> QED BY <2>1, <2>2
<1>17. ASSUME NEW s \in Turn, History(s) PROVE HaltInv'
  BY <1>17 DEF History, LeaveBatch, Merged, Refreshed
<1>18. ASSUME NEW s \in Turn, EndsEarly(s) PROVE HaltInv'
  BY <1>18 DEF EndsEarly, LeaveBatch
<1>19. ASSUME NEW s \in Turn, Done(s) PROVE HaltInv'
  BY <1>19 DEF Done, Merged, Refreshed
<1>20. ASSUME NEW s \in Turn, PersistTurn(s) PROVE HaltInv'
  BY <1>20 DEF PersistTurn, EndRound
<1>21. ASSUME NEW s \in Turn, CancelRound(s) PROVE HaltInv'
  <2>1. CASE IsActive(disk)
    <3> DEFINE i == Interrupted(disk, round[s])
    <3>1. i \in Instance /\ ~IsActive(i)
      BY <2>1, <1>d
    <3> HIDE DEF i
    <3> QED BY <1>21, <2>1, <3>1 DEF CancelRound, i, Save, Skip, Overrides
  <2>2. CASE ~IsActive(disk)
    BY <1>21, <2>2 DEF CancelRound, Save, Skip, Overrides
  <2> QED BY <2>1, <2>2
<1>22. ASSUME NEW s \in Turn, PersistCancelled(s) PROVE HaltInv'
  BY <1>22 DEF PersistCancelled, EndRound
<1>23. ASSUME NEW s \in Turn, FailRound(s) PROVE HaltInv'
  BY <1>23 DEF FailRound, EndRound
<1>24. ASSUME NEW s \in Turn, SteerRound(s) PROVE HaltInv'
  BY <1>24 DEF SteerRound
<1>25. ASSUME NEW s \in Turn, WaitForTasks(s) PROVE HaltInv'
  BY <1>25 DEF WaitForTasks
<1>26. ASSUME NEW s \in Turn, Settle(s) PROVE HaltInv'
  BY <1>26 DEF Settle
<1>27. ASSUME NEW s \in Turn, Judge(s) PROVE HaltInv'
  BY <1>27 DEF Judge
<1>28. ASSUME NEW s \in Turn, StopHook(s) PROVE HaltInv'
  BY <1>28 DEF StopHook
<1>29. ASSUME NEW s \in Turn, Close(s) PROVE HaltInv'
  BY <1>29 DEF Close
<1>30. ASSUME NEW s \in Turn, NEW n \in Node, Decide(s, n) PROVE HaltInv'
  BY <1>30 DEF Decide, Reported, Save, Continues, HasMessage
<1>31. ASSUME NEW s \in Turn, NEW q \in Question, AskQuestion(s, q) PROVE HaltInv'
  <2>1. CASE IsActive(disk)
    <3> DEFINE i == EnteredAsk(disk, round[s])
    <3>1. i \in Instance /\ ~IsActive(i)
      BY <2>1, <1>d
    <3> HIDE DEF i
    <3> QED BY <1>31, <2>1, <3>1 DEF AskQuestion, i, Save, Skip, Overrides
  <2>2. CASE ~IsActive(disk)
    BY <1>31, <2>2 DEF AskQuestion, Save, Skip, Overrides
  <2> QED BY <2>1, <2>2
<1>32. ASSUME NEW s \in Turn, NEW q \in Question, ShowQuestion(s, q) PROVE HaltInv'
  BY <1>32 DEF ShowQuestion
<1>33. ASSUME NEW s \in Turn, NEW q \in Question, TakeAnswer(s, q) PROVE HaltInv'
  <2>1. CASE IsWaiting(disk)
    <3> DEFINE i == LeftAsk(disk, round[s])
    <3>1. i \in Instance /\ IsActive(i)
      BY <2>1, <1>e
    <3> HIDE DEF i
    <3> QED BY <1>33, <2>1, <3>1 DEF TakeAnswer, i, Save, Skip, Overrides
  <2>2. CASE ~IsWaiting(disk)
    BY <1>33, <2>2 DEF TakeAnswer, Save, Skip, Overrides, IsWaiting
  <2> QED BY <2>1, <2>2
<1>34. ASSUME NEW c \in Client, PauseWorkflow(c) PROVE HaltInv'
  <2>1. disk # NoInstance => ~Halted(PausedByUser(disk))
    BY Stopped DEF IsPaused
  <2> QED BY <1>34, <2>1 DEF PauseWorkflow, Hold, ClientDone
<1>35. ASSUME NEW c \in Client, SaveHeld(c) PROVE HaltInv'
  BY <1>35 DEF SaveHeld, Hold
<1>36. ASSUME NEW c \in Client, ClearWorkflow(c) PROVE HaltInv'
  BY <1>36 DEF ClearWorkflow, ClientDone
<1>37. ASSUME NEW c \in Client, StartWorkflowById(c) PROVE HaltInv'
  BY <1>37 DEF StartWorkflowById, Started, ClientDone
<1>38. ASSUME NEW c \in Client, ResumeAnswered(c) PROVE HaltInv'
  BY <1>38 DEF ResumeAnswered, LeftAsk, Hold, ClientDone, IsWaiting
<1>39. ASSUME NEW c \in Client, NEW q \in Question, AnswerQuestion(c, q) PROVE HaltInv'
  BY <1>39 DEF AnswerQuestion
<1>40. CASE UNCHANGED vars
  BY <1>40 DEF vars, marks
<1> QED BY <1>1, <1>2, <1>3, <1>4, <1>5, <1>6, <1>7, <1>8, <1>9, <1>10, <1>11, <1>12, <1>13,
     <1>14, <1>15, <1>16, <1>17, <1>18, <1>19, <1>20, <1>21, <1>22, <1>23, <1>24, <1>25,
     <1>26, <1>27, <1>28, <1>29, <1>30, <1>31, <1>32, <1>33, <1>34, <1>35, <1>36, <1>37,
     <1>38, <1>39, <1>40 DEF Next, TurnNext, ClientNext, Deciding, Asking, Agent, Advance

\* For any turns, clients, questions and definition: the user state a cancelled
\* turn saves last does not make a workflow active that is paused, waits for the
\* user or has failed, unless another turn has ended or paused it in this turn's
\* round (the Cancelled event of stream_with_options).
THEOREM CancelPausesAlways == Spec => CancelPauses
<1>1. Init => HaltInv
  BY NameAssumption DEF Init, HaltInv, StaysHalted, CarriesHalted, Halted, InRound, RoundPc
<1>2. TypeInv /\ HaltInv /\ [Next]_vars =>
        [\A s \in Turn : Revives(s) => s \in overtaken]_vars
  <2> SUFFICES ASSUME TypeInv, HaltInv, [Next]_vars, NEW s \in Turn, Revives(s)
               PROVE  s \in overtaken
    OBVIOUS
  <2> USE DEF Revives
  <2>1. PersistCancelled(s)
    <3>1. PICK t \in Turn : TurnNext(t)
      <4>1. pc # pc'
        OBVIOUS
      <4> QED BY <4>1 DEF Next, ClientNext, PauseWorkflow, SaveHeld, ClearWorkflow,
           StartWorkflowById, ResumeAnswered, AnswerQuestion, vars, turns
    <3> USE DEF TypeInv, TypeOK, Goto, Save, Skip
    <3>2. CASE Deciding(t)
      BY <3>2 DEF Deciding, Decide, DecideFails, DecideCancelled
    <3>3. CASE Asking(t)
      BY <3>3 DEF Asking, AskQuestion, ShowQuestion, TakeAnswer
    <3>4. CASE Agent(t)
      BY <3>4 DEF Agent, StateUpdate, Interrupt, History, EndsEarly, FailRound
    <3>5. CASE Message(t) \/ StartWorkflow(t) \/ Lock(t) \/ Relock(t) \/ CancelWait(t)
      BY <3>5 DEF Message, StartWorkflow, Lock, Relock, CancelWait
    <3>6. CASE Advance(t)
      <4>1. CASE PersistCancelled(t)
        BY <4>1 DEF PersistCancelled
      <4>2. CASE ~PersistCancelled(t)
        BY <3>6, <4>2 DEF Advance, SaveInstance, Evaluate, AfterReport, ResumeInterrupted,
             OpenRound, Refuse, PersistIntermediate, Done, PersistTurn, CancelRound, SteerRound,
             WaitForTasks, Settle, Judge, StopHook, Close
      <4> QED BY <4>1, <4>2
    <3> QED BY <3>1, <3>2, <3>3, <3>4, <3>5, <3>6 DEF TurnNext
  <2>2. disk' = Carried(s)
    BY <2>1 DEF PersistCancelled
  <2> QED BY <2>2 DEF HaltInv, StaysHalted, CarriesHalted, Halted
<1> QED BY <1>1, <1>2, TypeInvariant, BudgetInvariant, QuietInvariant, LockInvariant, HaltStep,
     PTL DEF Spec, CancelPauses
==============================================================================
