--------------------------- MODULE TurnLoop_proofs ---------------------------
(* Type correctness, mutual exclusion of rounds, the safety of the shared steer *)
(* queue, and where every message and completion is, for any constants.        *)
EXTENDS TurnLoop, FiniteSetTheorems, TLAPS

USE MessageAssumption, OptionAssumption

\* The two queues a run may create exist.
LEMMA QueueTyped == ASSUME NEW r \in Message
                    PROVE  <<r, "outer">> \in Queue /\ <<r, "inner">> \in Queue
BY DEF Queue

\* What a drain does to the types, for whoever drains and whatever it holds.
LEMMA DrainTyped ==
    ASSUME TypeOK, NEW r \in Message, NEW q \in Queue, NEW held \in SUBSET Message,
           Drain(r, q, held)
    PROVE  /\ pending' \in [Queue -> Seq(Item)]
           /\ permit' \in [Queue -> BOOLEAN]
           /\ carry' \in [Message -> SUBSET Message]
           /\ informed' \subseteq Task
<1>1. PICK n \in 1..Len(pending[q]) :
          /\ carry' = [carry EXCEPT ![r] = held \cup ({pending[q][i] : i \in 1..n} \cap Message)]
          /\ informed' = informed \cup ({pending[q][i] : i \in 1..n} \cap Task)
          /\ pending' = [pending EXCEPT ![q] = SubSeq(@, n + 1, Len(@))]
          /\ permit' = permit
  BY DEF Drain
<1>2. pending[q] \in Seq(Item) BY DEF TypeOK
<1>3. SubSeq(pending[q], n + 1, Len(pending[q])) \in Seq(Item) BY <1>2
<1>4. QED BY <1>1, <1>3 DEF TypeOK

\* A push keeps the queues and permits typed.
LEMMA PushTyped ==
    ASSUME TypeOK, NEW q \in Queue, NEW item \in Item, Push(q, item)
    PROVE  pending' \in [Queue -> Seq(Item)] /\ permit' \in [Queue -> BOOLEAN]
BY DEF Push, TypeOK

\* Past its first lock a live run has a queue from its inner registration.
LEMMA InnerTyped ==
    ASSUME TypeOK, NEW r \in Message, pc[r] \in Live \ {"locking"}
    PROVE  inner[r] \in Queue
BY DEF TypeOK, Serving, Served

\* What drain_batch followed by another round does to the types.
LEMMA NextRoundTyped ==
    ASSUME TypeOK, NEW r \in Message, inner[r] \in Queue, NextRound(r)
    PROVE  /\ pending' \in [Queue -> Seq(Item)] /\ permit' \in [Queue -> BOOLEAN]
           /\ carry' \in [Message -> SUBSET Message] /\ informed' \subseteq Task
           /\ pc' \in [Message -> Pc]
<1>1. Drain(r, inner[r], {}) BY DEF NextRound
<1>2. pc' \in [Message -> Pc] BY DEF NextRound, Goto, TypeOK, Pc
<1>3. QED BY <1>1, <1>2, DrainTyped

\* The same of drain_or_close_steer_queue.
LEMMA DrainOrCloseTyped ==
    ASSUME TypeOK, NEW r \in Message, inner[r] \in Queue, DrainOrClose(r)
    PROVE  /\ pending' \in [Queue -> Seq(Item)] /\ permit' \in [Queue -> BOOLEAN]
           /\ carry' \in [Message -> SUBSET Message] /\ informed' \subseteq Task
           /\ pc' \in [Message -> Pc] /\ active' \in Queue \cup {NoQueue}
<1>1. CASE NextRound(r) /\ UNCHANGED active BY <1>1, NextRoundTyped DEF TypeOK
<1>2. CASE CloseQueue(r) BY <1>2 DEF CloseQueue, TypeOK, Goto, Pc
<1>3. QED BY <1>1, <1>2 DEF DrainOrClose

\* Whatever ends a round saves nothing that the run does not hold.
LEMMA SavesHeld ==
    ASSUME NEW r \in Message
    PROVE  /\ \A saved \in DoneSaves(r) : saved \subseteq carry[r]
           /\ \A saved \in {carry[r]} \cup Unreported(r) : saved \subseteq carry[r]
           /\ \A saved \in Checkpointed(r) : saved \subseteq carry[r]
<1>1. \A saved \in Checkpointed(r) : saved \subseteq carry[r] BY DEF Checkpointed
<1>2. \A saved \in Unreported(r) : saved \subseteq carry[r] BY DEF Unreported
<1>3. \A saved \in DoneSaves(r) : saved \subseteq carry[r] BY <1>1, <1>2 DEF DoneSaves
<1>4. QED BY <1>1, <1>2, <1>3

\* What the end of a round that saves a part of what it holds does to the types.
LEMMA PersistTyped ==
    ASSUME TypeOK, NEW r \in Message, NEW saved, saved \subseteq carry[r], Persist(r, saved)
    PROVE  /\ history' \subseteq Message /\ forfeited' \subseteq Message
           /\ reported' \subseteq Message /\ injected' \subseteq Message
BY DEF TypeOK, Persist, EndRound

\* An idle thread is well typed.
LEMMA TypeInit == Init => TypeOK
BY DEF Init, TypeOK, Board!Init, Board!TypeOK, Board!Phase, Board!Told, Board!Ended, Pc, Queue, Item, Serving, Live, HoldsLock, Served

\* A live run keeps the queue it serves: registrations only change as a run
\* starts and ends.
LEMMA ServingStep == TypeOK /\ [Next]_vars => Serving'
<1> SUFFICES ASSUME TypeOK, [Next]_vars PROVE Serving'
  OBVIOUS
<1> USE DEF TypeOK, Goto, Pc, tasks, queues, Serving, Live, HoldsLock, Served
<1>1. CASE UNCHANGED vars
  BY <1>1 DEF vars
<1>2. ASSUME NEW r \in Message, Submit(r) PROVE Serving'
  <2>1. (Goto(r, "steered") \/ Goto(r, "starting")) /\ UNCHANGED <<outer, inner>>
    <3> HIDE DEF TypeOK, Goto, Serving, Served, Live
    <3>1. QED BY <1>2 DEF Submit
  <2>2. QED BY <2>1
<1>3. ASSUME NEW r \in Message, Register(r) PROVE Serving'
  BY <1>3, QueueTyped DEF Register, Registered
<1>4. ASSUME NEW r \in Message, FirstLock(r) PROVE Serving'
  BY <1>4, QueueTyped DEF FirstLock, Registered
<1>5. ASSUME NEW r \in Message, Relock(r) PROVE Serving'
  BY <1>5 DEF Relock
<1>6. ASSUME NEW r \in Message, BeginRound(r) PROVE Serving'
  BY <1>6 DEF BeginRound
<1>7. ASSUME NEW r \in Message, InjectSteer(r) PROVE Serving'
  BY <1>7 DEF InjectSteer
<1>8. ASSUME NEW r \in Message, RoundDone(r) PROVE Serving'
  BY <1>8 DEF RoundDone
<1>9. ASSUME NEW r \in Message, RoundError(r) PROVE Serving'
  <2>1. Goto(r, "open") \/ Goto(r, "relock") \/ Goto(r, "closed")
    <3> HIDE DEF TypeOK, Goto, Serving, Served, Live
    <3>1. QED BY <1>9 DEF RoundError, DrainOrClose, CloseQueue, NextRound
  <2>2. pc[r] = "round" /\ UNCHANGED <<outer, inner>> BY <1>9 DEF RoundError
  <2>3. inner[r] \in Queue BY <2>2
  <2>4. \A s \in Message \ {r} : pc'[s] = pc[s] BY <2>1
  <2>5. pc'[r] # "locking" BY <2>1
  <2>6. QED BY <2>2, <2>3, <2>4, <2>5
<1>10. ASSUME NEW r \in Message, RoundCancelled(r) PROVE Serving'
  BY <1>10 DEF RoundCancelled
<1>11. ASSUME NEW r \in Message, NEW kept \in BOOLEAN, RefuseRound(r, kept) PROVE Serving'
  BY <1>11 DEF RefuseRound
<1>12. ASSUME NEW r \in Message, NEW t \in Task, StartTask(r, t) PROVE Serving'
  BY <1>12 DEF StartTask
<1>13. ASSUME NEW r \in Message, NEW t \in Task, PromoteTask(r, t) PROVE Serving'
  BY <1>13 DEF PromoteTask
<1>14. ASSUME NEW r \in Message, NEW t \in Task, Hear(r, t) PROVE Serving'
  BY <1>14 DEF Hear
<1>15. ASSUME NEW r \in Message, ContinueOrWait(r) PROVE Serving'
  <2>1. CASE NextRound(r) BY <1>15, <2>1 DEF ContinueOrWait, NextRound
  <2>2. CASE Goto(r, "poll") \/ Goto(r, "evaluate") BY <1>15, <2>2, ZenonT(30) DEF ContinueOrWait
  <2>3. QED BY <1>15, <2>1, <2>2 DEF ContinueOrWait
<1>16. ASSUME NEW r \in Message, WaitDrain(r) PROVE Serving'
  BY <1>16 DEF WaitDrain, NextRound
<1>17. ASSUME NEW r \in Message, WaitScan(r) PROVE Serving'
  BY <1>17 DEF WaitScan
<1>18. ASSUME NEW r \in Message, WaitCheck(r) PROVE Serving'
  BY <1>18 DEF WaitCheck
<1>19. ASSUME NEW r \in Message, WaitNotified(r) PROVE Serving'
  BY <1>19 DEF WaitNotified
<1>20. ASSUME NEW r \in Message, WaitCancelled(r) PROVE Serving'
  BY <1>20 DEF WaitCancelled
<1>21. ASSUME NEW r \in Message, ExtraRound(r) PROVE Serving'
  BY <1>21 DEF ExtraRound
<1>22. ASSUME NEW r \in Message, EvaluationCancelled(r) PROVE Serving'
  BY <1>22 DEF EvaluationCancelled
<1>23. ASSUME NEW r \in Message, Close(r) PROVE Serving'
  BY <1>23, ZenonT(30) DEF Close, DrainOrClose, CloseQueue, NextRound
<1>24. ASSUME NEW r \in Message, Finish(r) PROVE Serving'
  BY <1>24 DEF Finish, EndStream, DropRegistrations
<1>25. ASSUME NEW r \in Message, DropRun(r) PROVE Serving'
  BY <1>25 DEF DropRun, EndStream, DropRegistrations
<1>26. ASSUME NEW t \in Task, TaskCompletes(t) PROVE Serving'
  BY <1>26 DEF TaskCompletes
<1>27. ASSUME NEW t \in Task, Broadcast(t) PROVE Serving'
  BY <1>27 DEF Broadcast
<1>28. ASSUME NEW t \in Task, CancelTask(t) PROVE Serving'
  BY <1>28 DEF CancelTask
<1> HIDE DEF TypeOK, Serving
<1>29. QED
  BY <1>1, <1>2, <1>3, <1>4, <1>5, <1>6, <1>7, <1>8, <1>9, <1>10, <1>11, <1>12, <1>13, <1>14, <1>15, <1>16, <1>17, <1>18, <1>19, <1>20, <1>21, <1>22, <1>23, <1>24, <1>25, <1>26, <1>27, <1>28
     DEF Next, RoundStep, WaitStep, EndStep, TaskStep

\* No step of a run or of a tool task leaves the types.
LEMMA TypeStep == TypeOK /\ [Next]_vars => TypeOK'
<1> SUFFICES ASSUME TypeOK, [Next]_vars PROVE TypeOK'
  OBVIOUS
<1> USE DEF TypeOK, Goto, Pc, tasks, queues, reports
<1>0. Serving' BY ServingStep
<1> USE <1>0
<1>1. CASE UNCHANGED vars
  BY <1>1 DEF vars, Board!TypeOK
<1>2. ASSUME NEW r \in Message, Submit(r) PROVE TypeOK'
  <2>1. pending' \in [Queue -> Seq(Item)] /\ permit' \in [Queue -> BOOLEAN]
    <3>1. CASE active = NoQueue BY <1>2, <3>1 DEF Submit
    <3>2. CASE active # NoQueue BY <1>2, <3>2, PushTyped DEF Submit, Item
    <3>3. QED BY <3>1, <3>2
  <2>2. pc' \in [Message -> Pc]
    <3>1. Goto(r, "steered") \/ Goto(r, "starting")
      <4> HIDE DEF TypeOK, Goto
      <4>1. QED BY <1>2 DEF Submit
    <3>2. QED BY <3>1
  <2>3. UNCHANGED <<tasks, heard, lock, active, outer, inner, carry, reports, extra, history, informed, forfeited>>
    BY <1>2 DEF Submit
  <2>4. QED BY <2>1, <2>2, <2>3 DEF Board!TypeOK
<1>3. ASSUME NEW r \in Message, Register(r) PROVE TypeOK'
  BY <1>3, QueueTyped DEF Register, Registered, Board!TypeOK
<1>4. ASSUME NEW r \in Message, FirstLock(r) PROVE TypeOK'
  <2>1. active' \in Queue BY <1>4, QueueTyped DEF FirstLock, Registered
  <2>2. inner' = [inner EXCEPT ![r] = active'] BY <1>4 DEF FirstLock
  <2>3. carry' \in [Message -> SUBSET Message] BY <1>4 DEF FirstLock
  <2>4. QED BY <1>4, <2>1, <2>2, <2>3 DEF FirstLock, Board!TypeOK
<1>5. ASSUME NEW r \in Message, Relock(r) PROVE TypeOK'
  BY <1>5 DEF Relock, Board!TypeOK
<1>6. ASSUME NEW r \in Message, BeginRound(r) PROVE TypeOK'
  BY <1>6 DEF BeginRound, Board!TypeOK
<1>7. ASSUME NEW r \in Message, InjectSteer(r) PROVE TypeOK'
  <2>1. inner[r] \in Queue BY <1>7, InnerTyped DEF InjectSteer, Live, HoldsLock
  <2>2. Drain(r, inner[r], carry[r]) /\ carry[r] \in SUBSET Message BY <1>7 DEF InjectSteer
  <2>3. /\ pending' \in [Queue -> Seq(Item)] /\ permit' \in [Queue -> BOOLEAN]
        /\ carry' \in [Message -> SUBSET Message] /\ informed' \subseteq Task
    BY <2>1, <2>2, DrainTyped
  <2>4. injected' \subseteq Message BY <1>7, <2>3 DEF InjectSteer
  <2>5. QED BY <1>7, <2>3, <2>4 DEF InjectSteer, Board!TypeOK
<1>8. ASSUME NEW r \in Message, RoundDone(r) PROVE TypeOK'
  <2>1. PICK saved \in DoneSaves(r) : Persist(r, saved) BY <1>8 DEF RoundDone
  <2>2. /\ history' \subseteq Message /\ forfeited' \subseteq Message
        /\ reported' \subseteq Message /\ injected' \subseteq Message
    BY <2>1, SavesHeld, PersistTyped
  <2>3. QED BY <1>8, <2>2 DEF RoundDone, Board!TypeOK
<1>9. ASSUME NEW r \in Message, RoundError(r) PROVE TypeOK'
  <2>1. inner[r] \in Queue BY <1>9, InnerTyped DEF RoundError, Live, HoldsLock
  <2>2. PICK saved \in {carry[r]} \cup Unreported(r) : Persist(r, saved) BY <1>9 DEF RoundError
  <2>3. /\ history' \subseteq Message /\ forfeited' \subseteq Message
        /\ reported' \subseteq Message /\ injected' \subseteq Message
    BY <2>2, SavesHeld, PersistTyped
  <2>4. DrainOrClose(r) BY <1>9 DEF RoundError
  <2>5. QED BY <1>9, <2>1, <2>3, <2>4, DrainOrCloseTyped DEF RoundError, Board!TypeOK
<1>10. ASSUME NEW r \in Message, RoundCancelled(r) PROVE TypeOK'
  <2>1. PICK saved \in Checkpointed(r) : Persist(r, saved) BY <1>10 DEF RoundCancelled
  <2>2. /\ history' \subseteq Message /\ forfeited' \subseteq Message
        /\ reported' \subseteq Message /\ injected' \subseteq Message
    BY <2>1, SavesHeld, PersistTyped
  <2>3. QED BY <1>10, <2>2 DEF RoundCancelled, CancelAllTasks, Board!TypeOK, Board!Phase, Board!Ended
<1>11. ASSUME NEW r \in Message, NEW kept \in BOOLEAN, RefuseRound(r, kept) PROVE TypeOK'
  BY <1>11 DEF RefuseRound, Board!TypeOK
<1>12. ASSUME NEW r \in Message, NEW t \in Task, StartTask(r, t) PROVE TypeOK'
  BY <1>12 DEF StartTask, Board!Begin, Board!TypeOK, Board!Phase
<1>13. ASSUME NEW r \in Message, NEW t \in Task, PromoteTask(r, t) PROVE TypeOK'
  BY <1>13 DEF PromoteTask, Board!Want, Board!TypeOK, Board!Told
<1>14. ASSUME NEW r \in Message, NEW t \in Task, Hear(r, t) PROVE TypeOK'
  <2>1. inner[r] \in Queue BY <1>14, InnerTyped DEF Hear, Live, HoldsLock
  <2>2. /\ told' \in [Task -> Board!Told] /\ phase' = phase
        /\ pending' \in [Queue -> Seq(Item)] /\ permit' \in [Queue -> BOOLEAN]
    <3>1. CASE Claimable(t)
      <4>1. TakeClaim(t) /\ Push(inner[r], t) BY <1>14, <3>1 DEF Hear
      <4>2. pending' \in [Queue -> Seq(Item)] /\ permit' \in [Queue -> BOOLEAN]
        BY <2>1, <4>1, PushTyped DEF Item
      <4>3. QED BY <4>1, <4>2 DEF TakeClaim, Board!TypeOK, Board!Told
    <3>2. CASE ~Claimable(t) BY <1>14, <3>2 DEF Hear, Board!TypeOK
    <3>3. QED BY <3>1, <3>2
  <2>3. QED BY <1>14, <2>2 DEF Hear, Board!TypeOK
<1>15. ASSUME NEW r \in Message, ContinueOrWait(r) PROVE TypeOK'
  <2>1. inner[r] \in Queue BY <1>15, InnerTyped DEF ContinueOrWait, Live, HoldsLock
  <2>2. CASE NextRound(r)
    BY <1>15, <2>1, <2>2, NextRoundTyped DEF ContinueOrWait, Board!TypeOK
  <2>3. ASSUME pending[inner[r]] = <<>>,
               IF AsyncAgent THEN lock' = NoRun /\ Goto(r, "poll")
                             ELSE UNCHANGED lock /\ Goto(r, "evaluate"),
               UNCHANGED <<pending, permit, carry, informed>>
        PROVE  TypeOK'
    <3>1. lock' \in Message \cup {NoRun} /\ pc' \in [Message -> Pc]
      <4>1. lock \in Message \cup {NoRun} /\ pc \in [Message -> Pc] OBVIOUS
      <4>2. (lock' = NoRun \/ lock' = lock) /\ (Goto(r, "poll") \/ Goto(r, "evaluate"))
        <5> HIDE DEF TypeOK, Goto
        <5>1. QED BY <2>3
      <4> HIDE DEF TypeOK
      <4>3. QED BY <4>1, <4>2
    <3>2. UNCHANGED <<tasks, heard, active, outer, inner, reports, extra, history, forfeited>>
      BY <1>15 DEF ContinueOrWait
    <3>3. QED BY <2>3, <3>1, <3>2 DEF Board!TypeOK
  <2>4. QED BY <1>15, <2>2, <2>3 DEF ContinueOrWait
<1>16. ASSUME NEW r \in Message, WaitDrain(r) PROVE TypeOK'
  <2>1. inner[r] \in Queue BY <1>16, InnerTyped DEF WaitDrain, Live, HoldsLock
  <2>2. QED BY <1>16, <2>1, NextRoundTyped DEF WaitDrain, Board!TypeOK
<1>17. ASSUME NEW r \in Message, WaitScan(r) PROVE TypeOK'
  <2>1. inner[r] \in Queue BY <1>17, InnerTyped DEF WaitScan, Live, HoldsLock
  <2>2. ASSUME NEW t \in Task, TakeClaim(t), Push(inner[r], t), UNCHANGED pc PROVE TypeOK'
    <3>1. pending' \in [Queue -> Seq(Item)] /\ permit' \in [Queue -> BOOLEAN]
      BY <2>1, <2>2, PushTyped DEF Item
    <3>2. QED BY <1>17, <2>2, <3>1 DEF WaitScan, TakeClaim, Board!TypeOK, Board!Told
  <2>3. CASE Goto(r, "check") /\ UNCHANGED <<phase, told, pending, permit>>
    BY <1>17, <2>3 DEF WaitScan, Board!TypeOK
  <2>4. QED BY <1>17, <2>2, <2>3 DEF WaitScan
<1>18. ASSUME NEW r \in Message, WaitCheck(r) PROVE TypeOK'
  BY <1>18 DEF WaitCheck, Board!TypeOK
<1>19. ASSUME NEW r \in Message, WaitNotified(r) PROVE TypeOK'
  BY <1>19 DEF WaitNotified, Board!TypeOK
<1>20. ASSUME NEW r \in Message, WaitCancelled(r) PROVE TypeOK'
  BY <1>20 DEF WaitCancelled, CancelAllTasks, Board!TypeOK, Board!Phase, Board!Ended
<1>21. ASSUME NEW r \in Message, ExtraRound(r) PROVE TypeOK'
  BY <1>21 DEF ExtraRound, MayAddRound, Board!TypeOK
<1>22. ASSUME NEW r \in Message, EvaluationCancelled(r) PROVE TypeOK'
  BY <1>22 DEF EvaluationCancelled, Board!TypeOK
<1>23. ASSUME NEW r \in Message, Close(r) PROVE TypeOK'
  <2>1. inner[r] \in Queue BY <1>23, InnerTyped DEF Close, Live, HoldsLock
  <2>2. QED BY <1>23, <2>1, DrainOrCloseTyped DEF Close, Board!TypeOK
<1>24. ASSUME NEW r \in Message, Finish(r) PROVE TypeOK'
  BY <1>24 DEF Finish, EndStream, EndRound, DropRegistrations, Unconsumed, Board!TypeOK
<1>25. ASSUME NEW r \in Message, DropRun(r) PROVE TypeOK'
  BY <1>25 DEF DropRun, EndStream, EndRound, DropRegistrations, Unconsumed, Board!TypeOK
<1>26. ASSUME NEW t \in Task, TaskCompletes(t) PROVE TypeOK'
  BY <1>26 DEF TaskCompletes, Board!End, Board!TypeOK, Board!Phase, Board!Ended
<1>27. ASSUME NEW t \in Task, Broadcast(t) PROVE TypeOK'
  BY <1>27 DEF Broadcast, Board!TypeOK
<1>28. ASSUME NEW t \in Task, CancelTask(t) PROVE TypeOK'
  BY <1>28 DEF CancelTask, Board!End, Board!TypeOK, Board!Phase, Board!Ended
<1> HIDE DEF TypeOK
<1>29. QED
  BY <1>1, <1>2, <1>3, <1>4, <1>5, <1>6, <1>7, <1>8, <1>9, <1>10, <1>11, <1>12, <1>13, <1>14, <1>15, <1>16, <1>17, <1>18, <1>19, <1>20, <1>21, <1>22, <1>23, <1>24, <1>25, <1>26, <1>27, <1>28
     DEF Next, RoundStep, WaitStep, EndStep, TaskStep

\* For any messages, tasks and bounds the turn loop keeps its types, and a live
\* run the queue that it serves (TypeOK includes Serving).
THEOREM TypeCorrect == Spec => []TypeOK
<1>1. Init => TypeOK BY TypeInit
<1>2. TypeOK /\ [Next]_vars => TypeOK' BY TypeStep
<1>3. QED BY <1>1, <1>2, PTL DEF Spec

\* Only the free lock is taken, and only its holder gives it back.
LEMMA RoundsExcludeStep == TypeOK /\ RoundsExclude /\ [Next]_vars => RoundsExclude'
<1> SUFFICES ASSUME TypeOK, RoundsExclude, [Next]_vars PROVE RoundsExclude'
  OBVIOUS
<1> USE DEF TypeOK, Goto, Pc, queues, RoundsExclude, HoldsLock
<1>1. CASE UNCHANGED vars
  BY <1>1 DEF vars
<1>2. ASSUME NEW r \in Message, Submit(r) PROVE RoundsExclude'
  BY <1>2 DEF Submit
<1>3. ASSUME NEW r \in Message, Register(r) PROVE RoundsExclude'
  BY <1>3 DEF Register
<1>4. ASSUME NEW r \in Message, FirstLock(r) PROVE RoundsExclude'
  BY <1>4 DEF FirstLock, LockFree
<1>5. ASSUME NEW r \in Message, Relock(r) PROVE RoundsExclude'
  BY <1>5 DEF Relock, LockFree
<1>6. ASSUME NEW r \in Message, BeginRound(r) PROVE RoundsExclude'
  BY <1>6 DEF BeginRound
<1>7. ASSUME NEW r \in Message, InjectSteer(r) PROVE RoundsExclude'
  BY <1>7 DEF InjectSteer
<1>8. ASSUME NEW r \in Message, RoundDone(r) PROVE RoundsExclude'
  BY <1>8 DEF RoundDone
<1>9. ASSUME NEW r \in Message, RoundError(r) PROVE RoundsExclude'
  BY <1>9 DEF RoundError, DrainOrClose, CloseQueue, NextRound
<1>10. ASSUME NEW r \in Message, RoundCancelled(r) PROVE RoundsExclude'
  BY <1>10 DEF RoundCancelled
<1>11. ASSUME NEW r \in Message, NEW kept \in BOOLEAN, RefuseRound(r, kept) PROVE RoundsExclude'
  BY <1>11 DEF RefuseRound
<1>12. ASSUME NEW r \in Message, NEW t \in Task, StartTask(r, t) PROVE RoundsExclude'
  BY <1>12 DEF StartTask
<1>13. ASSUME NEW r \in Message, NEW t \in Task, PromoteTask(r, t) PROVE RoundsExclude'
  BY <1>13 DEF PromoteTask
<1>14. ASSUME NEW r \in Message, NEW t \in Task, Hear(r, t) PROVE RoundsExclude'
  BY <1>14 DEF Hear
<1>15. ASSUME NEW r \in Message, ContinueOrWait(r) PROVE RoundsExclude'
  BY <1>15 DEF ContinueOrWait, NextRound
<1>16. ASSUME NEW r \in Message, WaitDrain(r) PROVE RoundsExclude'
  BY <1>16 DEF WaitDrain, NextRound
<1>17. ASSUME NEW r \in Message, WaitScan(r) PROVE RoundsExclude'
  BY <1>17 DEF WaitScan
<1>18. ASSUME NEW r \in Message, WaitCheck(r) PROVE RoundsExclude'
  BY <1>18 DEF WaitCheck
<1>19. ASSUME NEW r \in Message, WaitNotified(r) PROVE RoundsExclude'
  BY <1>19 DEF WaitNotified
<1>20. ASSUME NEW r \in Message, WaitCancelled(r) PROVE RoundsExclude'
  BY <1>20 DEF WaitCancelled
<1>21. ASSUME NEW r \in Message, ExtraRound(r) PROVE RoundsExclude'
  BY <1>21 DEF ExtraRound
<1>22. ASSUME NEW r \in Message, EvaluationCancelled(r) PROVE RoundsExclude'
  BY <1>22 DEF EvaluationCancelled
<1>23. ASSUME NEW r \in Message, Close(r) PROVE RoundsExclude'
  BY <1>23 DEF Close, DrainOrClose, CloseQueue, NextRound
<1>24. ASSUME NEW r \in Message, Finish(r) PROVE RoundsExclude'
  BY <1>24 DEF Finish, EndStream
<1>25. ASSUME NEW r \in Message, DropRun(r) PROVE RoundsExclude'
  BY <1>25 DEF DropRun, EndStream
<1>26. ASSUME NEW t \in Task, TaskCompletes(t) PROVE RoundsExclude'
  BY <1>26 DEF TaskCompletes
<1>27. ASSUME NEW t \in Task, Broadcast(t) PROVE RoundsExclude'
  BY <1>27 DEF Broadcast
<1>28. ASSUME NEW t \in Task, CancelTask(t) PROVE RoundsExclude'
  BY <1>28 DEF CancelTask
<1> HIDE DEF TypeOK, RoundsExclude
<1>29. QED
  BY <1>1, <1>2, <1>3, <1>4, <1>5, <1>6, <1>7, <1>8, <1>9, <1>10, <1>11, <1>12, <1>13, <1>14, <1>15, <1>16, <1>17, <1>18, <1>19, <1>20, <1>21, <1>22, <1>23, <1>24, <1>25, <1>26, <1>27, <1>28
     DEF Next, RoundStep, WaitStep, EndStep, TaskStep

\* For any number of runs, rounds exclude each other.
THEOREM RoundsExcludeAlways == Spec => []RoundsExclude
<1>1. Init => RoundsExclude BY DEF Init, RoundsExclude, HoldsLock
<1>2. TypeOK /\ RoundsExclude /\ [Next]_vars => RoundsExclude' BY RoundsExcludeStep
<1>3. QED BY <1>1, <1>2, TypeCorrect, PTL DEF Spec

\* Whoever stops serving the active queue, closes it or drops its registrations,
\* takes it out of active_steers in the same step.
LEMMA ActiveIsServedStep == TypeOK /\ ActiveIsServed /\ [Next]_vars => ActiveIsServed'
<1> SUFFICES ASSUME TypeOK, ActiveIsServed, [Next]_vars PROVE ActiveIsServed'
  OBVIOUS
<1> USE DEF TypeOK, Goto, Pc, queues, ActiveIsServed, Live, HoldsLock, Served, Queue
<1>1. CASE UNCHANGED vars
  BY <1>1 DEF vars
<1>2. ASSUME NEW r \in Message, Submit(r) PROVE ActiveIsServed'
  BY <1>2 DEF Submit
<1>3. ASSUME NEW r \in Message, Register(r) PROVE ActiveIsServed'
  BY <1>3 DEF Register, Registered
<1>4. ASSUME NEW r \in Message, FirstLock(r) PROVE ActiveIsServed'
  BY <1>4 DEF FirstLock, Registered
<1>5. ASSUME NEW r \in Message, Relock(r) PROVE ActiveIsServed'
  BY <1>5 DEF Relock
<1>6. ASSUME NEW r \in Message, BeginRound(r) PROVE ActiveIsServed'
  BY <1>6 DEF BeginRound
<1>7. ASSUME NEW r \in Message, InjectSteer(r) PROVE ActiveIsServed'
  BY <1>7 DEF InjectSteer
<1>8. ASSUME NEW r \in Message, RoundDone(r) PROVE ActiveIsServed'
  BY <1>8 DEF RoundDone
<1>9. ASSUME NEW r \in Message, RoundError(r) PROVE ActiveIsServed'
  BY <1>9 DEF RoundError, DrainOrClose, CloseQueue, NextRound
<1>10. ASSUME NEW r \in Message, RoundCancelled(r) PROVE ActiveIsServed'
  BY <1>10 DEF RoundCancelled
<1>11. ASSUME NEW r \in Message, NEW kept \in BOOLEAN, RefuseRound(r, kept) PROVE ActiveIsServed'
  BY <1>11 DEF RefuseRound
<1>12. ASSUME NEW r \in Message, NEW t \in Task, StartTask(r, t) PROVE ActiveIsServed'
  BY <1>12 DEF StartTask
<1>13. ASSUME NEW r \in Message, NEW t \in Task, PromoteTask(r, t) PROVE ActiveIsServed'
  BY <1>13 DEF PromoteTask
<1>14. ASSUME NEW r \in Message, NEW t \in Task, Hear(r, t) PROVE ActiveIsServed'
  BY <1>14 DEF Hear
<1>15. ASSUME NEW r \in Message, ContinueOrWait(r) PROVE ActiveIsServed'
  BY <1>15 DEF ContinueOrWait, NextRound
<1>16. ASSUME NEW r \in Message, WaitDrain(r) PROVE ActiveIsServed'
  BY <1>16 DEF WaitDrain, NextRound
<1>17. ASSUME NEW r \in Message, WaitScan(r) PROVE ActiveIsServed'
  BY <1>17 DEF WaitScan
<1>18. ASSUME NEW r \in Message, WaitCheck(r) PROVE ActiveIsServed'
  BY <1>18 DEF WaitCheck
<1>19. ASSUME NEW r \in Message, WaitNotified(r) PROVE ActiveIsServed'
  BY <1>19 DEF WaitNotified
<1>20. ASSUME NEW r \in Message, WaitCancelled(r) PROVE ActiveIsServed'
  BY <1>20 DEF WaitCancelled
<1>21. ASSUME NEW r \in Message, ExtraRound(r) PROVE ActiveIsServed'
  BY <1>21 DEF ExtraRound
<1>22. ASSUME NEW r \in Message, EvaluationCancelled(r) PROVE ActiveIsServed'
  BY <1>22 DEF EvaluationCancelled
<1>23. ASSUME NEW r \in Message, Close(r) PROVE ActiveIsServed'
  BY <1>23 DEF Close, DrainOrClose, CloseQueue, NextRound
<1>24. ASSUME NEW r \in Message, Finish(r) PROVE ActiveIsServed'
  BY <1>24 DEF Finish, EndStream, DropRegistrations, Owned
<1>25. ASSUME NEW r \in Message, DropRun(r) PROVE ActiveIsServed'
  BY <1>25 DEF DropRun, EndStream, DropRegistrations, Owned
<1>26. ASSUME NEW t \in Task, TaskCompletes(t) PROVE ActiveIsServed'
  BY <1>26 DEF TaskCompletes
<1>27. ASSUME NEW t \in Task, Broadcast(t) PROVE ActiveIsServed'
  BY <1>27 DEF Broadcast
<1>28. ASSUME NEW t \in Task, CancelTask(t) PROVE ActiveIsServed'
  BY <1>28 DEF CancelTask
<1> HIDE DEF TypeOK, ActiveIsServed
<1>29. QED
  BY <1>1, <1>2, <1>3, <1>4, <1>5, <1>6, <1>7, <1>8, <1>9, <1>10, <1>11, <1>12, <1>13, <1>14, <1>15, <1>16, <1>17, <1>18, <1>19, <1>20, <1>21, <1>22, <1>23, <1>24, <1>25, <1>26, <1>27, <1>28
     DEF Next, RoundStep, WaitStep, EndStep, TaskStep

\* For any number of runs, the queue that accepts messages has a live reader.
THEOREM ActiveIsServedAlways == Spec => []ActiveIsServed
<1>1. Init => ActiveIsServed BY DEF Init, ActiveIsServed
<1>2. TypeOK /\ ActiveIsServed /\ [Next]_vars => ActiveIsServed' BY ActiveIsServedStep
<1>3. QED BY <1>1, <1>2, TypeCorrect, PTL DEF Spec

\* NoQueue is told apart from every queue.
LEMMA NoQueueIsNone == NoQueue \notin Queue
BY DEF Queue

\* A drain takes a prefix: what is left of a queue was in it.
LEMMA DrainKeepsUsers ==
    ASSUME TypeOK, QueuedIsActive, NEW r \in Message, NEW q \in Queue, NEW held,
           Drain(r, q, held), UNCHANGED active
    PROVE  QueuedIsActive'
<1>1. PICK n \in 1..Len(pending[q]) :
          pending' = [pending EXCEPT ![q] = SubSeq(@, n + 1, Len(@))]
  BY DEF Drain
<1>2. pending[q] \in Seq(Item) BY DEF TypeOK
<1>3. \A i \in 1..Len(pending'[q]) :
          i + n \in 1..Len(pending[q]) /\ pending'[q][i] = pending[q][i + n]
  BY <1>1, <1>2 DEF TypeOK
<1>4. QED BY <1>1, <1>3 DEF QueuedIsActive, TypeOK

\* A completion is pushed on any queue, active or not: it is no user message.
LEMMA PushKeepsUsers ==
    ASSUME TypeOK, QueuedIsActive, NEW q \in Queue, NEW t \in Task, Push(q, t), UNCHANGED active
    PROVE  QueuedIsActive'
<1>1. pending' = [pending EXCEPT ![q] = Append(@, t)] /\ t \notin Message
  BY DEF Push
<1>2. pending[q] \in Seq(Item) BY DEF TypeOK
<1>3. QED BY <1>1, <1>2 DEF QueuedIsActive, TypeOK

\* A queue is closed only when it is empty, and a registration that owns it takes
\* its messages along.
LEMMA QueuedIsActiveStep == TypeOK /\ QueuedIsActive /\ [Next]_vars => QueuedIsActive'
<1> SUFFICES ASSUME TypeOK, QueuedIsActive, [Next]_vars PROVE QueuedIsActive'
  OBVIOUS
<1> USE DEF TypeOK, QueuedIsActive, queues
<1>1. CASE UNCHANGED vars
  BY <1>1 DEF vars
<1>2. ASSUME NEW r \in Message, Submit(r) PROVE QueuedIsActive'
  <2>1. CASE active = NoQueue BY <1>2, <2>1 DEF Submit
  <2>2. CASE active # NoQueue
    <3>1. Push(active, r) /\ UNCHANGED active /\ active \in Queue BY <1>2, <2>2 DEF Submit
    <3>2. QED BY <3>1 DEF Push
  <2>3. QED BY <2>1, <2>2
<1>3. ASSUME NEW r \in Message, Register(r) PROVE QueuedIsActive'
  BY <1>3, NoQueueIsNone DEF Register, Registered
<1>4. ASSUME NEW r \in Message, FirstLock(r) PROVE QueuedIsActive'
  BY <1>4, NoQueueIsNone DEF FirstLock, Registered
<1>5. ASSUME NEW r \in Message, Relock(r) PROVE QueuedIsActive'
  BY <1>5 DEF Relock
<1>6. ASSUME NEW r \in Message, BeginRound(r) PROVE QueuedIsActive'
  BY <1>6 DEF BeginRound
<1>7. ASSUME NEW r \in Message, InjectSteer(r) PROVE QueuedIsActive'
  <2>1. inner[r] \in Queue BY <1>7, InnerTyped DEF InjectSteer, Live, HoldsLock
  <2>2. QED BY <1>7, <2>1, DrainKeepsUsers DEF InjectSteer
<1>8. ASSUME NEW r \in Message, RoundDone(r) PROVE QueuedIsActive'
  BY <1>8 DEF RoundDone
<1>9. ASSUME NEW r \in Message, RoundError(r) PROVE QueuedIsActive'
  <2>1. inner[r] \in Queue BY <1>9, InnerTyped DEF RoundError, Live, HoldsLock
  <2>2. CASE NextRound(r) /\ UNCHANGED active BY <2>1, <2>2, DrainKeepsUsers DEF NextRound
  <2>3. CASE CloseQueue(r) BY <2>1, <2>3 DEF CloseQueue, NothingQueued
  <2>4. QED BY <1>9, <2>2, <2>3 DEF RoundError, DrainOrClose
<1>10. ASSUME NEW r \in Message, RoundCancelled(r) PROVE QueuedIsActive'
  BY <1>10 DEF RoundCancelled
<1>11. ASSUME NEW r \in Message, NEW kept \in BOOLEAN, RefuseRound(r, kept) PROVE QueuedIsActive'
  BY <1>11 DEF RefuseRound
<1>12. ASSUME NEW r \in Message, NEW t \in Task, StartTask(r, t) PROVE QueuedIsActive'
  BY <1>12 DEF StartTask
<1>13. ASSUME NEW r \in Message, NEW t \in Task, PromoteTask(r, t) PROVE QueuedIsActive'
  BY <1>13 DEF PromoteTask
<1>14. ASSUME NEW r \in Message, NEW t \in Task, Hear(r, t) PROVE QueuedIsActive'
  <2>1. inner[r] \in Queue BY <1>14, InnerTyped DEF Hear, Live, HoldsLock
  <2>2. CASE Claimable(t) BY <1>14, <2>1, <2>2, PushKeepsUsers DEF Hear
  <2>3. CASE ~Claimable(t) BY <1>14, <2>3 DEF Hear
  <2>4. QED BY <2>2, <2>3
<1>15. ASSUME NEW r \in Message, ContinueOrWait(r) PROVE QueuedIsActive'
  <2>1. inner[r] \in Queue BY <1>15, InnerTyped DEF ContinueOrWait, Live, HoldsLock
  <2>2. CASE NextRound(r) BY <1>15, <2>1, <2>2, DrainKeepsUsers DEF ContinueOrWait, NextRound
  <2>3. CASE UNCHANGED pending BY <1>15, <2>3 DEF ContinueOrWait
  <2>4. QED BY <1>15, <2>2, <2>3 DEF ContinueOrWait
<1>16. ASSUME NEW r \in Message, WaitDrain(r) PROVE QueuedIsActive'
  <2>1. inner[r] \in Queue BY <1>16, InnerTyped DEF WaitDrain, Live, HoldsLock
  <2>2. QED BY <1>16, <2>1, DrainKeepsUsers DEF WaitDrain, NextRound
<1>17. ASSUME NEW r \in Message, WaitScan(r) PROVE QueuedIsActive'
  <2>1. inner[r] \in Queue BY <1>17, InnerTyped DEF WaitScan, Live, HoldsLock
  <2>2. ASSUME NEW t \in Task, Push(inner[r], t) PROVE QueuedIsActive'
    BY <1>17, <2>1, <2>2, PushKeepsUsers DEF WaitScan
  <2>3. CASE UNCHANGED pending BY <1>17, <2>3 DEF WaitScan
  <2>4. QED BY <1>17, <2>2, <2>3 DEF WaitScan
<1>18. ASSUME NEW r \in Message, WaitCheck(r) PROVE QueuedIsActive'
  BY <1>18 DEF WaitCheck
<1>19. ASSUME NEW r \in Message, WaitNotified(r) PROVE QueuedIsActive'
  BY <1>19 DEF WaitNotified
<1>20. ASSUME NEW r \in Message, WaitCancelled(r) PROVE QueuedIsActive'
  BY <1>20 DEF WaitCancelled
<1>21. ASSUME NEW r \in Message, ExtraRound(r) PROVE QueuedIsActive'
  BY <1>21 DEF ExtraRound
<1>22. ASSUME NEW r \in Message, EvaluationCancelled(r) PROVE QueuedIsActive'
  BY <1>22 DEF EvaluationCancelled
<1>23. ASSUME NEW r \in Message, Close(r) PROVE QueuedIsActive'
  <2>1. inner[r] \in Queue BY <1>23, InnerTyped DEF Close, Live, HoldsLock
  <2>2. CASE NextRound(r) /\ UNCHANGED active BY <2>1, <2>2, DrainKeepsUsers DEF NextRound
  <2>3. CASE CloseQueue(r) BY <2>1, <2>3 DEF CloseQueue, NothingQueued
  <2>4. QED BY <1>23, <2>2, <2>3 DEF Close, DrainOrClose
<1>24. ASSUME NEW r \in Message, Finish(r) PROVE QueuedIsActive'
  BY <1>24 DEF Finish, EndStream, DropRegistrations
<1>25. ASSUME NEW r \in Message, DropRun(r) PROVE QueuedIsActive'
  BY <1>25 DEF DropRun, EndStream, DropRegistrations
<1>26. ASSUME NEW t \in Task, TaskCompletes(t) PROVE QueuedIsActive'
  BY <1>26 DEF TaskCompletes
<1>27. ASSUME NEW t \in Task, Broadcast(t) PROVE QueuedIsActive'
  BY <1>27 DEF Broadcast
<1>28. ASSUME NEW t \in Task, CancelTask(t) PROVE QueuedIsActive'
  BY <1>28 DEF CancelTask
<1> HIDE DEF TypeOK, QueuedIsActive
<1>29. QED
  BY <1>1, <1>2, <1>3, <1>4, <1>5, <1>6, <1>7, <1>8, <1>9, <1>10, <1>11, <1>12, <1>13, <1>14, <1>15, <1>16, <1>17, <1>18, <1>19, <1>20, <1>21, <1>22, <1>23, <1>24, <1>25, <1>26, <1>27, <1>28
     DEF Next, RoundStep, WaitStep, EndStep, TaskStep

\* For any number of runs, no message is left behind in a closed queue.
THEOREM QueuedIsActiveAlways == Spec => []QueuedIsActive
<1>1. Init => QueuedIsActive BY DEF Init, QueuedIsActive
<1>2. TypeOK /\ QueuedIsActive /\ [Next]_vars => QueuedIsActive' BY QueuedIsActiveStep
<1>3. QED BY <1>1, <1>2, TypeCorrect, PTL DEF Spec

\* For any number of runs that share or own queues and end in any order: a message
\* that was accepted (SteerQueueRegistration) is in the queue of a live run.
THEOREM QueueIsServedAlways == Spec => []QueueIsServed
<1>1. ActiveIsServed /\ QueuedIsActive => QueueIsServed BY DEF QueueIsServed
<1>2. QED BY <1>1, ActiveIsServedAlways, QueuedIsActiveAlways, PTL

------------------------------------------------------------------------------
(* Where a message is.  The cardinalities of SteerInOnePlace and InformedOnce  *)
(* follow from an inductive invariant without any: nothing is queued twice,    *)
(* whatever is queued is nowhere else, and whatever was accepted is somewhere. *)

AnyQueued(x) == \E q \in Queue : \E i \in 1..Len(pending[q]) : pending[q][i] = x
AnyHolder(m) == \E r \in Message : m \in carry[r]

OnceQueued ==
    \A q, p \in Queue : \A i \in 1..Len(pending[q]) : \A j \in 1..Len(pending[p]) :
        pending[q][i] = pending[p][j] => q = p /\ i = j

\* Only an accepted message and a claimed completion are pushed.
QueuedIsFree ==
    \A q \in Queue : \A i \in 1..Len(pending[q]) :
        /\ pending[q][i] \in Message =>
              /\ pc[pending[q][i]] = "steered" /\ ~AnyHolder(pending[q][i])
              /\ pending[q][i] \notin history /\ pending[q][i] \notin forfeited
        /\ pending[q][i] \in Task => told[pending[q][i]] = "claimed" /\ pending[q][i] \notin informed

HeldOnce ==
    \A r, m \in Message : m \in carry[r] =>
        /\ m \notin history /\ m \notin forfeited
        /\ \A s \in Message : m \in carry[s] => s = r

SavedOrGivenUp == \A m \in Message : ~(m \in history /\ m \in forfeited)

\* A run takes its own message up with its first lock.
Young(m) == pc[m] \in {"unsent", "starting", "locking"}
YoungIsNowhere == \A m \in Message : Young(m) => ~AnyHolder(m) /\ m \notin history /\ m \notin forfeited

AcceptedIsSomewhere ==
    \A m \in Message : pc[m] = "steered" =>
        AnyQueued(m) \/ AnyHolder(m) \/ m \in history \/ m \in forfeited

InformedIsClaimed == \A t \in informed : told[t] = "claimed"

PlaceInv ==
    /\ OnceQueued /\ QueuedIsFree /\ HeldOnce /\ SavedOrGivenUp
    /\ YoungIsNowhere /\ AcceptedIsSomewhere /\ InformedIsClaimed

\* Outside its rounds a run holds no message: a new round may replace what it holds.
HandsEmpty == \A r \in Message : pc[r] \notin {"open", "round", "relock"} => carry[r] = {}

\* What most steps leave alone, and how far they may take a message.
Follows == \A m \in Message : (pc'[m] = "steered" <=> pc[m] = "steered") /\ (Young(m)' => Young(m))
KeepsClaims == \A t \in Task : told[t] = "claimed" => told'[t] = "claimed"

LEMMA GotoFollows ==
    ASSUME TypeOK, NEW r \in Message, NEW l, Goto(r, l), pc[r] # "steered",
           l \notin {"steered", "unsent", "starting", "locking"}
    PROVE  Follows
BY DEF Goto, TypeOK, Follows, Young

\* A step that moves no message keeps the places.
LEMMA StillKeeps ==
    ASSUME PlaceInv, Follows, KeepsClaims, TypeOK,
           UNCHANGED <<pending, carry, history, forfeited, informed>>
    PROVE  PlaceInv'
<1> USE DEF Follows, KeepsClaims
<1>1. OnceQueued' BY DEF PlaceInv, OnceQueued
<1>2. \A m : AnyHolder(m)' <=> AnyHolder(m) BY DEF AnyHolder
<1>3. \A m : AnyQueued(m)' <=> AnyQueued(m) BY DEF AnyQueued
<1>4. QueuedIsFree' BY <1>2 DEF PlaceInv, QueuedIsFree
<1>5. HeldOnce' /\ SavedOrGivenUp' BY DEF PlaceInv, HeldOnce, SavedOrGivenUp
<1>6. YoungIsNowhere' BY <1>2 DEF PlaceInv, YoungIsNowhere
<1>7. AcceptedIsSomewhere' BY <1>2, <1>3 DEF PlaceInv, AcceptedIsSomewhere
<1>8. InformedIsClaimed' BY DEF PlaceInv, InformedIsClaimed, TypeOK
<1>9. QED BY <1>1, <1>4, <1>5, <1>6, <1>7, <1>8 DEF PlaceInv

\* What the invariant says of whatever is queued.
LEMMA QueuedMessages ==
    PlaceInv => \A x \in Message : AnyQueued(x) =>
                   pc[x] = "steered" /\ ~AnyHolder(x) /\ x \notin history /\ x \notin forfeited
BY DEF PlaceInv, QueuedIsFree, AnyQueued
LEMMA QueuedTasks ==
    PlaceInv => \A x \in Task : AnyQueued(x) => told[x] = "claimed" /\ x \notin informed
BY DEF PlaceInv, QueuedIsFree, AnyQueued

\* One more entry at the end of one queue, of something that was in none.
LEMMA PushOnce ==
    ASSUME TypeOK, PlaceInv, NEW q \in Queue, NEW x \in Item, Push(q, x), ~AnyQueued(x)
    PROVE  /\ OnceQueued' /\ AnyQueued(x)'
           /\ \A y : AnyQueued(y) => AnyQueued(y)'
           /\ \A y : AnyQueued(y)' => AnyQueued(y) \/ y = x
<1>1. pending[q] \in Seq(Item) /\ pending' = [pending EXCEPT ![q] = Append(@, x)]
  BY DEF TypeOK, Push
<1>2. /\ Len(pending'[q]) = Len(pending[q]) + 1 /\ Len(pending[q]) \in Nat
      /\ pending'[q][Len(pending[q]) + 1] = x
      /\ \A i \in 1..Len(pending[q]) : pending'[q][i] = pending[q][i]
  BY <1>1 DEF TypeOK
<1>3. \A p \in Queue : p # q => pending'[p] = pending[p] BY <1>1 DEF TypeOK
<1>4. \A p \in Queue : \A i \in 1..Len(pending'[p]) :
          \/ p = q /\ i = Len(pending[q]) + 1 /\ pending'[p][i] = x
          \/ i \in 1..Len(pending[p]) /\ pending'[p][i] = pending[p][i]
  BY <1>2, <1>3
<1>5. \A p \in Queue : \A i \in 1..Len(pending[p]) : pending[p][i] # x BY DEF AnyQueued
<1>6. OnceQueued'
  <2>1. OnceQueued BY DEF PlaceInv
  <2>2. QED BY <1>4, <1>5, <2>1, SMTT(30) DEF OnceQueued
<1>7. \A p \in Queue : \A i \in 1..Len(pending[p]) :
          i \in 1..Len(pending'[p]) /\ pending'[p][i] = pending[p][i]
  BY <1>2, <1>3
<1>8. \A y : AnyQueued(y) => AnyQueued(y)' BY <1>7 DEF AnyQueued
<1>9. AnyQueued(x)'
  <2>1. Len(pending[q]) + 1 \in 1..Len(pending'[q]) BY <1>2
  <2>2. QED BY <1>2, <2>1 DEF AnyQueued
<1>10. \A y : AnyQueued(y)' => AnyQueued(y) \/ y = x BY <1>4 DEF AnyQueued
<1>11. QED BY <1>6, <1>8, <1>9, <1>10

\* submit_queued_input accepts a message that was nowhere yet.
LEMMA SubmitKeeps ==
    ASSUME TypeOK, PlaceInv, NEW m \in Message, pc[m] = "unsent", active \in Queue,
           Push(active, m), Goto(m, "steered"),
           UNCHANGED <<told, carry, history, forfeited, informed>>
    PROVE  PlaceInv'
<1>1. ~AnyQueued(m) BY DEF PlaceInv, QueuedIsFree, AnyQueued
<1>2. m \in Item /\ m \notin Task BY DEF Item
<1>3. /\ OnceQueued' /\ AnyQueued(m)'
      /\ \A y : AnyQueued(y) => AnyQueued(y)'
      /\ \A y : AnyQueued(y)' => AnyQueued(y) \/ y = m
  BY <1>1, <1>2, PushOnce
<1>4. pc'[m] = "steered" /\ \A n \in Message : n # m => pc'[n] = pc[n] BY DEF Goto, TypeOK
<1>5. \A n : AnyHolder(n)' <=> AnyHolder(n) BY DEF AnyHolder
<1>6. ~AnyHolder(m) /\ m \notin history /\ m \notin forfeited
  BY DEF PlaceInv, YoungIsNowhere, Young
<1>7. QueuedIsFree'
  <2>1. \A x \in Message : AnyQueued(x)' =>
            pc'[x] = "steered" /\ ~AnyHolder(x)' /\ x \notin history' /\ x \notin forfeited'
    BY <1>3, <1>4, <1>5, <1>6, QueuedMessages
  <2>2. \A x \in Task : AnyQueued(x)' => told'[x] = "claimed" /\ x \notin informed'
    BY <1>2, <1>3, QueuedTasks
  <2>3. QED BY <2>1, <2>2 DEF QueuedIsFree, AnyQueued
<1>8. HeldOnce' /\ SavedOrGivenUp' BY DEF PlaceInv, HeldOnce, SavedOrGivenUp
<1>9. YoungIsNowhere' BY <1>4, <1>5 DEF PlaceInv, YoungIsNowhere, Young
<1>10. AcceptedIsSomewhere' BY <1>3, <1>4, <1>5 DEF PlaceInv, AcceptedIsSomewhere
<1>11. InformedIsClaimed' BY DEF PlaceInv, InformedIsClaimed
<1>12. QED BY <1>3, <1>7, <1>8, <1>9, <1>10, <1>11 DEF PlaceInv

\* A completion is claimed before it is pushed, so no second push finds it wanted.
LEMMA ClaimKeeps ==
    ASSUME TypeOK, PlaceInv, NEW t \in Task, NEW q \in Queue, TakeClaim(t), Push(q, t), Follows,
           UNCHANGED <<carry, history, forfeited, informed>>
    PROVE  PlaceInv'
<1>1. told[t] = "wanted" /\ told'[t] = "claimed" /\ \A u \in Task : u # t => told'[u] = told[u]
  BY DEF TakeClaim, Claimable, TypeOK, Board!TypeOK
<1>2. t \in Item /\ t \notin Message BY DEF Item
<1>3. ~AnyQueued(t) BY <1>1 DEF PlaceInv, QueuedIsFree, AnyQueued
<1>4. /\ OnceQueued'
      /\ \A y : AnyQueued(y) => AnyQueued(y)'
      /\ \A y : AnyQueued(y)' => AnyQueued(y) \/ y = t
  BY <1>2, <1>3, PushOnce
<1>5. t \notin informed BY <1>1 DEF PlaceInv, InformedIsClaimed
<1>6. \A n : AnyHolder(n)' <=> AnyHolder(n) BY DEF AnyHolder
<1>7. QueuedIsFree'
  <2>1. \A x \in Message : AnyQueued(x)' =>
            pc'[x] = "steered" /\ ~AnyHolder(x)' /\ x \notin history' /\ x \notin forfeited'
    BY <1>2, <1>4, <1>6, QueuedMessages DEF Follows
  <2>2. \A x \in Task : AnyQueued(x)' => told'[x] = "claimed" /\ x \notin informed'
    BY <1>1, <1>4, <1>5, QueuedTasks
  <2>3. QED BY <2>1, <2>2 DEF QueuedIsFree, AnyQueued
<1>8. HeldOnce' /\ SavedOrGivenUp' BY DEF PlaceInv, HeldOnce, SavedOrGivenUp
<1>9. YoungIsNowhere' BY <1>6 DEF PlaceInv, YoungIsNowhere, Follows
<1>10. AcceptedIsSomewhere' BY <1>4, <1>6 DEF PlaceInv, AcceptedIsSomewhere, Follows
<1>11. InformedIsClaimed' BY <1>1 DEF PlaceInv, InformedIsClaimed, TypeOK
<1>12. QED BY <1>4, <1>7, <1>8, <1>9, <1>10, <1>11 DEF PlaceInv

\* A run takes up its own message, which was nowhere, with empty hands.
LEMMA TakeUpKeeps ==
    ASSUME TypeOK, PlaceInv, NEW r \in Message, Young(r), ~Young(r)', carry[r] = {}, Follows,
           carry' = [carry EXCEPT ![r] = {r}],
           UNCHANGED <<pending, told, history, forfeited, informed>>
    PROVE  PlaceInv'
<1>1. carry'[r] = {r} /\ \A s \in Message : s # r => carry'[s] = carry[s] BY DEF TypeOK
<1>2. ~AnyHolder(r) /\ r \notin history /\ r \notin forfeited BY DEF PlaceInv, YoungIsNowhere
<1>3. \A m : m # r => (AnyHolder(m)' <=> AnyHolder(m)) BY <1>1 DEF AnyHolder
<1>4. OnceQueued' BY DEF PlaceInv, OnceQueued
<1>5. \A m : AnyQueued(m)' <=> AnyQueued(m) BY DEF AnyQueued
<1>6. pc[r] # "steered" BY DEF Young
<1>7. QueuedIsFree' BY <1>3, <1>6 DEF PlaceInv, QueuedIsFree, Follows
<1>8. HeldOnce'
  <2>1. HeldOnce /\ \A s \in Message : r \notin carry[s] BY <1>2 DEF PlaceInv, AnyHolder
  <2>2. QED BY <1>1, <1>2, <2>1 DEF HeldOnce
<1>9. SavedOrGivenUp' BY DEF PlaceInv, SavedOrGivenUp
<1>10. YoungIsNowhere' BY <1>3 DEF PlaceInv, YoungIsNowhere, Follows
<1>11. AcceptedIsSomewhere' BY <1>3, <1>5, <1>6 DEF PlaceInv, AcceptedIsSomewhere, Follows
<1>12. InformedIsClaimed' BY DEF PlaceInv, InformedIsClaimed
<1>13. QED BY <1>4, <1>7, <1>8, <1>9, <1>10, <1>11, <1>12 DEF PlaceInv

\* What a run holds is saved, or given up, and the run holds it no longer.
LEMMA LetGoKeeps ==
    ASSUME TypeOK, PlaceInv, NEW r \in Message, Follows, KeepsClaims,
           NEW saved \in SUBSET Message, NEW given \in SUBSET Message,
           saved \cup given = carry[r], saved \cap given = {},
           history' = history \cup saved, forfeited' = forfeited \cup given,
           carry' = [carry EXCEPT ![r] = {}],
           UNCHANGED <<pending, informed>>
    PROVE  PlaceInv'
<1>1. carry'[r] = {} /\ \A s \in Message : s # r => carry'[s] = carry[s] BY DEF TypeOK
<1>2. \A m : m \notin carry[r] => (AnyHolder(m)' <=> AnyHolder(m)) BY <1>1 DEF AnyHolder
<1>3. \A m : AnyHolder(m)' => AnyHolder(m) BY <1>1 DEF AnyHolder
<1>4. OnceQueued' BY DEF PlaceInv, OnceQueued
<1>5. \A m : AnyQueued(m)' <=> AnyQueued(m) BY DEF AnyQueued
<1>6. \A m \in carry[r] : AnyHolder(m) BY DEF AnyHolder
<1>7. QueuedIsFree' BY <1>2, <1>6 DEF PlaceInv, QueuedIsFree, Follows, KeepsClaims
<1>8. HeldOnce'
  <2>1. HeldOnce BY DEF PlaceInv
  <2>2. QED BY <1>1, <2>1 DEF HeldOnce
<1>9. SavedOrGivenUp' BY DEF PlaceInv, SavedOrGivenUp, HeldOnce, TypeOK
<1>10. YoungIsNowhere' BY <1>2, <1>6 DEF PlaceInv, YoungIsNowhere, Follows
<1>11. AcceptedIsSomewhere' BY <1>2, <1>5 DEF PlaceInv, AcceptedIsSomewhere, Follows
<1>12. InformedIsClaimed' BY DEF PlaceInv, InformedIsClaimed, KeepsClaims, TypeOK
<1>13. QED BY <1>4, <1>7, <1>8, <1>9, <1>10, <1>11, <1>12 DEF PlaceInv

LEMMA SuffixOfSeq ==
    ASSUME NEW S, NEW s \in Seq(S), NEW n \in 1..Len(s), NEW t, t = SubSeq(s, n + 1, Len(s))
    PROVE  /\ Len(t) = Len(s) - n
           /\ \A i \in 1..Len(t) : i + n \in 1..Len(s) /\ t[i] = s[i + n]
<1>1. Len(s) \in Nat /\ n \in Nat /\ n <= Len(s) OBVIOUS
<1>2. Len(t) = Len(s) - n BY <1>1
<1>3. ASSUME NEW i \in 1..Len(t) PROVE i + n \in 1..Len(s) /\ t[i] = s[i + n]
  <2>1. i \in Nat /\ 1 <= i /\ i <= Len(s) - n BY <1>1, <1>2
  <2>2. i + n \in 1..Len(s) BY <1>1, <2>1
  <2>3. t[i] = s[(n + 1) + i - 1] BY <1>1, <2>1
  <2>4. (n + 1) + i - 1 = i + n BY <1>1, <2>1
  <2>5. QED BY <2>2, <2>3, <2>4
<1>4. QED BY <1>2, <1>3

\* What a run holds is saved in part, and the rest of it is given up.
LEMMA PersistKeeps ==
    ASSUME TypeOK, PlaceInv, NEW r \in Message, Follows, KeepsClaims,
           NEW saved, saved \subseteq carry[r], Persist(r, saved),
           carry' = [carry EXCEPT ![r] = {}],
           UNCHANGED <<pending, informed>>
    PROVE  PlaceInv'
<1>1. carry[r] \in SUBSET Message BY DEF TypeOK
<1>2. /\ saved \in SUBSET Message /\ carry[r] \ saved \in SUBSET Message
      /\ saved \cup (carry[r] \ saved) = carry[r] /\ saved \cap (carry[r] \ saved) = {}
  BY <1>1
<1>3. history' = history \cup saved /\ forfeited' = forfeited \cup (carry[r] \ saved) BY DEF Persist
<1>4. QED BY <1>2, <1>3, LetGoKeeps

\* A drain hands the batch to the run: its messages are held, its completions
\* injected, and none of them is queued any more.
LEMMA DrainKeeps ==
    ASSUME TypeOK, PlaceInv, NEW r \in Message, NEW q \in Queue, NEW held \in SUBSET carry[r],
           NEW saved \in SUBSET (carry[r] \ held), Drain(r, q, held), Follows,
           history' = history \cup saved,
           forfeited' = forfeited \cup ((carry[r] \ held) \ saved), UNCHANGED told
    PROVE  PlaceInv'
<1>1. PICK n \in 1..Len(pending[q]) :
          /\ carry' = [carry EXCEPT ![r] = held \cup ({pending[q][i] : i \in 1..n} \cap Message)]
          /\ informed' = informed \cup ({pending[q][i] : i \in 1..n} \cap Task)
          /\ pending' = [pending EXCEPT ![q] = SubSeq(@, n + 1, Len(@))]
  BY DEF Drain
<1> DEFINE batch == {pending[q][i] : i \in 1..n}
<1>2. pending[q] \in Seq(Item) /\ Len(pending[q]) \in Nat /\ n \in Nat BY DEF TypeOK
<1>3. pending'[q] = SubSeq(pending[q], n + 1, Len(pending[q])) BY <1>1 DEF TypeOK
<1>4. /\ Len(pending'[q]) = Len(pending[q]) - n
      /\ \A i \in 1..Len(pending'[q]) : i + n \in 1..Len(pending[q]) /\ pending'[q][i] = pending[q][i + n]
  <2> DEFINE s == pending[q]
             t == pending'[q]
  <2>1. s \in Seq(Item) /\ n \in 1..Len(s) /\ t = SubSeq(s, n + 1, Len(s)) BY <1>2, <1>3
  <2> HIDE DEF s, t
  <2>2. Len(t) = Len(s) - n /\ \A i \in 1..Len(t) : i + n \in 1..Len(s) /\ t[i] = s[i + n]
    BY <2>1, SuffixOfSeq
  <2>3. QED BY <2>2 DEF s, t
<1>5. \A p \in Queue : p # q => pending'[p] = pending[p] BY <1>1 DEF TypeOK
<1>6. OnceQueued BY DEF PlaceInv
<1>7. \A x \in batch : \E i \in 1..Len(pending[q]) : i <= n /\ pending[q][i] = x BY <1>2
<1>8. \A p \in Queue : \A i \in 1..Len(pending'[p]) :
          /\ pending'[p][i] \notin batch
          /\ \E j \in 1..Len(pending[p]) : pending[p][j] = pending'[p][i]
  <2> SUFFICES ASSUME NEW p \in Queue, NEW i \in 1..Len(pending'[p])
               PROVE  /\ pending'[p][i] \notin batch
                      /\ \E j \in 1..Len(pending[p]) : pending[p][j] = pending'[p][i]
    OBVIOUS
  <2>1. CASE p = q
    <3>1. i + n \in 1..Len(pending[q]) /\ pending'[q][i] = pending[q][i + n] BY <1>4, <2>1
    <3>2. i + n > n BY <1>2, <1>4, <2>1
    <3>3. \A k \in 1..Len(pending[q]) : pending[q][k] = pending[q][i + n] => k = i + n
      BY <1>6, <3>1 DEF OnceQueued
    <3>4. QED BY <1>2, <1>7, <2>1, <3>1, <3>2, <3>3
  <2>2. CASE p # q
    <3>1. i \in 1..Len(pending[p]) /\ pending'[p][i] = pending[p][i] BY <1>5, <2>2
    <3>2. \A k \in 1..Len(pending[q]) : pending[q][k] # pending[p][i] BY <1>6, <2>2, <3>1 DEF OnceQueued
    <3>3. QED BY <1>7, <3>1, <3>2
  <2>3. QED BY <2>1, <2>2
<1>9. OnceQueued'
  <2> SUFFICES ASSUME NEW p \in Queue, NEW p2 \in Queue, NEW i \in 1..Len(pending'[p]),
                      NEW j \in 1..Len(pending'[p2]), pending'[p][i] = pending'[p2][j]
               PROVE  p = p2 /\ i = j
    BY DEF OnceQueued
  <2>1. PICK a \in 1..Len(pending[p]) :
            pending[p][a] = pending'[p][i] /\ a = (IF p = q THEN i + n ELSE i)
    BY <1>4, <1>5
  <2>2. PICK b \in 1..Len(pending[p2]) :
            pending[p2][b] = pending'[p2][j] /\ b = (IF p2 = q THEN j + n ELSE j)
    BY <1>4, <1>5
  <2>3. p = p2 /\ a = b BY <1>6, <2>1, <2>2 DEF OnceQueued
  <2>4. i \in Int /\ j \in Int BY <1>2, <1>4, <1>5, <2>1, <2>2
  <2>5. QED BY <1>2, <2>1, <2>2, <2>3, <2>4
<1>10. \A x : AnyQueued(x)' => AnyQueued(x) /\ x \notin batch BY <1>8 DEF AnyQueued
<1>11. \A x : AnyQueued(x) => AnyQueued(x)' \/ x \in batch
  <2> SUFFICES ASSUME NEW x, NEW p \in Queue, NEW i \in 1..Len(pending[p]), pending[p][i] = x, x \notin batch
               PROVE  AnyQueued(x)'
    BY DEF AnyQueued
  <2>1. CASE p # q BY <1>5, <2>1 DEF AnyQueued
  <2>2. CASE p = q
    <3>1. i > n BY <1>2, <2>2
    <3>2. i - n \in 1..Len(pending'[q]) /\ (i - n) + n = i BY <1>2, <1>4, <2>2, <3>1
    <3>3. pending'[q][i - n] = pending[q][(i - n) + n] BY <1>4, <3>2
    <3>4. QED BY <2>2, <3>2, <3>3 DEF AnyQueued
  <2>3. QED BY <2>1, <2>2
<1>12. \A x \in batch : AnyQueued(x) BY <1>7 DEF AnyQueued
<1> HIDE DEF batch
<1>13. \A x \in Message : AnyQueued(x) =>
          pc[x] = "steered" /\ ~AnyHolder(x) /\ x \notin history /\ x \notin forfeited
  BY QueuedMessages
<1>14. \A x \in Task : AnyQueued(x) => told[x] = "claimed" /\ x \notin informed
  BY QueuedTasks
<1>15. /\ carry'[r] = held \cup (batch \cap Message) /\ informed' = informed \cup (batch \cap Task)
       /\ \A s \in Message : s # r => carry'[s] = carry[s]
  BY <1>1 DEF batch, TypeOK
<1>16. \A m : m \notin batch => (AnyHolder(m)' => AnyHolder(m)) BY <1>15 DEF AnyHolder
<1>17. \A m \in Message :
           AnyHolder(m) \/ m \in batch => AnyHolder(m)' \/ m \in history' \/ m \in forfeited'
  BY <1>15 DEF AnyHolder
<1>18. \A m \in carry[r] : AnyHolder(m) /\ m \in Message BY DEF AnyHolder, TypeOK
<1>19. QueuedIsFree'
  <2>1. \A x \in Message : AnyQueued(x)' =>
            pc'[x] = "steered" /\ ~AnyHolder(x)' /\ x \notin history' /\ x \notin forfeited'
    BY <1>10, <1>13, <1>16, <1>18 DEF Follows
  <2>2. \A x \in Task : AnyQueued(x)' => told'[x] = "claimed" /\ x \notin informed'
    BY <1>10, <1>14, <1>15
  <2>3. QED BY <2>1, <2>2 DEF QueuedIsFree, AnyQueued
<1>20. HeldOnce'
  <2> SUFFICES ASSUME NEW s \in Message, NEW m \in Message, m \in carry'[s]
               PROVE  /\ m \notin history' /\ m \notin forfeited'
                      /\ \A u \in Message : m \in carry'[u] => u = s
    BY DEF HeldOnce
  <2>1. CASE m \in batch
    <3>1. ~AnyHolder(m) /\ m \notin history /\ m \notin forfeited BY <1>12, <1>13, <2>1
    <3>2. \A u \in Message : m \notin carry[u] BY <3>1 DEF AnyHolder
    <3>3. QED BY <1>15, <3>1, <3>2
  <2>2. CASE m \notin batch
    <3>1. m \in carry[s] /\ (s = r => m \in held) BY <1>15, <2>2
    <3>2. \A u \in Message : m \in carry'[u] => m \in carry[u] BY <1>15, <2>2
    <3>3. HeldOnce BY DEF PlaceInv
    <3>4. QED BY <3>1, <3>2, <3>3 DEF HeldOnce
  <2>3. QED BY <2>1, <2>2
<1>21. SavedOrGivenUp' BY DEF PlaceInv, SavedOrGivenUp, HeldOnce
<1>22. YoungIsNowhere'
  <2> SUFFICES ASSUME NEW m \in Message, Young(m)'
               PROVE  ~AnyHolder(m)' /\ m \notin history' /\ m \notin forfeited'
    BY DEF YoungIsNowhere
  <2>1. Young(m) /\ ~AnyHolder(m) /\ m \notin history /\ m \notin forfeited
    BY DEF Follows, PlaceInv, YoungIsNowhere
  <2>2. m \notin batch BY <1>12, <1>13, <2>1 DEF Young
  <2>3. QED BY <1>16, <1>18, <2>1, <2>2
<1>23. AcceptedIsSomewhere' BY <1>11, <1>17 DEF PlaceInv, AcceptedIsSomewhere, Follows
<1>24. InformedIsClaimed' BY <1>12, <1>14, <1>15 DEF PlaceInv, InformedIsClaimed
<1>25. QED BY <1>9, <1>19, <1>20, <1>21, <1>22, <1>23, <1>24 DEF PlaceInv

\* Whatever ends a round saves what the run holds or passes it to the next one.
LEMMA HandsEmptyStep == TypeOK /\ HandsEmpty /\ [Next]_vars => HandsEmpty'
<1> SUFFICES ASSUME TypeOK, HandsEmpty, [Next]_vars PROVE HandsEmpty'
  OBVIOUS
<1> USE DEF TypeOK, Goto, HandsEmpty
<1>1. CASE UNCHANGED vars
  BY <1>1 DEF vars
<1>2. ASSUME NEW r \in Message, Submit(r) PROVE HandsEmpty'
  <2>1. pc[r] = "unsent" /\ UNCHANGED carry BY <1>2 DEF Submit
  <2>2. Goto(r, "steered") \/ Goto(r, "starting")
    <3> HIDE DEF TypeOK, Goto, HandsEmpty
    <3>1. QED BY <1>2 DEF Submit
  <2>3. QED BY <2>1, <2>2
<1>3. ASSUME NEW r \in Message, Register(r) PROVE HandsEmpty'
  BY <1>3 DEF Register
<1>4. ASSUME NEW r \in Message, FirstLock(r) PROVE HandsEmpty'
  BY <1>4 DEF FirstLock
<1>5. ASSUME NEW r \in Message, Relock(r) PROVE HandsEmpty'
  BY <1>5 DEF Relock
<1>6. ASSUME NEW r \in Message, BeginRound(r) PROVE HandsEmpty'
  BY <1>6 DEF BeginRound
<1>7. ASSUME NEW r \in Message, InjectSteer(r) PROVE HandsEmpty'
  BY <1>7 DEF InjectSteer, Drain
<1>8. ASSUME NEW r \in Message, RoundDone(r) PROVE HandsEmpty'
  BY <1>8 DEF RoundDone
<1>9. ASSUME NEW r \in Message, RoundError(r) PROVE HandsEmpty'
  <2>1. CASE NextRound(r) BY <1>9, <2>1 DEF RoundError, NextRound, Drain
  <2>2. CASE CloseQueue(r) BY <1>9, <2>2 DEF RoundError, CloseQueue
  <2>3. QED BY <1>9, <2>1, <2>2 DEF RoundError, DrainOrClose
<1>10. ASSUME NEW r \in Message, RoundCancelled(r) PROVE HandsEmpty'
  BY <1>10 DEF RoundCancelled
<1>11. ASSUME NEW r \in Message, NEW kept \in BOOLEAN, RefuseRound(r, kept) PROVE HandsEmpty'
  BY <1>11 DEF RefuseRound
<1>12. ASSUME NEW r \in Message, NEW t \in Task, StartTask(r, t) PROVE HandsEmpty'
  BY <1>12 DEF StartTask
<1>13. ASSUME NEW r \in Message, NEW t \in Task, PromoteTask(r, t) PROVE HandsEmpty'
  BY <1>13 DEF PromoteTask
<1>14. ASSUME NEW r \in Message, NEW t \in Task, Hear(r, t) PROVE HandsEmpty'
  BY <1>14 DEF Hear
<1>15. ASSUME NEW r \in Message, ContinueOrWait(r) PROVE HandsEmpty'
  <2>1. CASE NextRound(r) BY <1>15, <2>1 DEF ContinueOrWait, NextRound, Drain
  <2>2. CASE UNCHANGED carry /\ (Goto(r, "poll") \/ Goto(r, "evaluate")) BY <1>15, <2>2 DEF ContinueOrWait
  <2>3. QED BY <1>15, <2>1, <2>2 DEF ContinueOrWait
<1>16. ASSUME NEW r \in Message, WaitDrain(r) PROVE HandsEmpty'
  BY <1>16 DEF WaitDrain, NextRound, Drain
<1>17. ASSUME NEW r \in Message, WaitScan(r) PROVE HandsEmpty'
  BY <1>17 DEF WaitScan
<1>18. ASSUME NEW r \in Message, WaitCheck(r) PROVE HandsEmpty'
  BY <1>18 DEF WaitCheck
<1>19. ASSUME NEW r \in Message, WaitNotified(r) PROVE HandsEmpty'
  BY <1>19 DEF WaitNotified
<1>20. ASSUME NEW r \in Message, WaitCancelled(r) PROVE HandsEmpty'
  BY <1>20 DEF WaitCancelled
<1>21. ASSUME NEW r \in Message, ExtraRound(r) PROVE HandsEmpty'
  BY <1>21 DEF ExtraRound
<1>22. ASSUME NEW r \in Message, EvaluationCancelled(r) PROVE HandsEmpty'
  BY <1>22 DEF EvaluationCancelled
<1>23. ASSUME NEW r \in Message, Close(r) PROVE HandsEmpty'
  <2>1. CASE NextRound(r) BY <1>23, <2>1 DEF Close, NextRound, Drain
  <2>2. CASE CloseQueue(r) BY <1>23, <2>2 DEF Close, CloseQueue
  <2>3. QED BY <1>23, <2>1, <2>2 DEF Close, DrainOrClose
<1>24. ASSUME NEW r \in Message, Finish(r) PROVE HandsEmpty'
  BY <1>24 DEF Finish, EndStream
<1>25. ASSUME NEW r \in Message, DropRun(r) PROVE HandsEmpty'
  BY <1>25 DEF DropRun, EndStream, DropRegistrations
<1>26. ASSUME NEW t \in Task, TaskCompletes(t) PROVE HandsEmpty'
  BY <1>26 DEF TaskCompletes
<1>27. ASSUME NEW t \in Task, Broadcast(t) PROVE HandsEmpty'
  BY <1>27 DEF Broadcast
<1>28. ASSUME NEW t \in Task, CancelTask(t) PROVE HandsEmpty'
  BY <1>28 DEF CancelTask
<1> HIDE DEF TypeOK, HandsEmpty
<1>29. QED
  BY <1>1, <1>2, <1>3, <1>4, <1>5, <1>6, <1>7, <1>8, <1>9, <1>10, <1>11, <1>12, <1>13, <1>14, <1>15, <1>16, <1>17, <1>18, <1>19, <1>20, <1>21, <1>22, <1>23, <1>24, <1>25, <1>26, <1>27, <1>28
     DEF Next, RoundStep, WaitStep, EndStep, TaskStep

\* The end of a stream empties the queues the run owns into the history.
LEMMA EndStreamKeeps ==
    ASSUME TypeOK, PlaceInv, NEW r \in Message, pc[r] \in Live, EndStream(r)
    PROVE  PlaceInv'
<1>1. Follows /\ UNCHANGED <<told, informed>>
  BY GotoFollows DEF EndStream, Live, HoldsLock, tasks
<1>2. pending' = [q \in Queue |-> IF q \in Owned(r) THEN <<>> ELSE pending[q]]
  BY DEF EndStream, DropRegistrations
<1>3. /\ history' = history \cup Unconsumed(r) /\ forfeited' = forfeited \cup carry[r]
      /\ carry'[r] = {} /\ \A s \in Message : s # r => carry'[s] = carry[s]
  BY DEF EndStream, TypeOK
<1>4. \A q \in Queue : \A i \in 1..Len(pending'[q]) :
          q \notin Owned(r) /\ i \in 1..Len(pending[q]) /\ pending'[q][i] = pending[q][i]
  BY <1>2
<1>5. OnceQueued' BY <1>4 DEF PlaceInv, OnceQueued
<1>6. Owned(r) \subseteq Queue BY DEF Owned, TypeOK
<1>7. \A x \in Unconsumed(r) : x \in Message /\ AnyQueued(x) BY <1>6 DEF Unconsumed, AnyQueued
<1>8. \A x : AnyQueued(x)' => AnyQueued(x) /\ x \notin Unconsumed(r)
  <2> SUFFICES ASSUME NEW x, NEW q \in Queue, NEW i \in 1..Len(pending'[q]), pending'[q][i] = x
               PROVE  AnyQueued(x) /\ x \notin Unconsumed(r)
    BY DEF AnyQueued
  <2>1. q \notin Owned(r) /\ i \in 1..Len(pending[q]) /\ pending[q][i] = x BY <1>4
  <2>2. AnyQueued(x) BY <2>1 DEF AnyQueued
  <2>3. \A p \in Owned(r) : \A j \in 1..Len(pending[p]) : pending[p][j] # x
    BY <1>6, <2>1 DEF PlaceInv, OnceQueued
  <2>4. QED BY <2>2, <2>3 DEF Unconsumed
<1>9. \A x \in Message : AnyQueued(x) => AnyQueued(x)' \/ x \in Unconsumed(r)
  <2> SUFFICES ASSUME NEW x \in Message, NEW q \in Queue, NEW i \in 1..Len(pending[q]), pending[q][i] = x,
                      x \notin Unconsumed(r)
               PROVE  AnyQueued(x)'
    BY DEF AnyQueued
  <2>1. q \notin Owned(r) BY DEF Unconsumed
  <2>2. pending'[q] = pending[q] BY <1>2, <2>1
  <2>3. QED BY <2>2 DEF AnyQueued
<1>10. \A m : AnyHolder(m)' => AnyHolder(m) BY <1>3 DEF AnyHolder
<1>11. \A m : AnyHolder(m) => AnyHolder(m)' \/ m \in forfeited' BY <1>3 DEF AnyHolder
<1>12. \A m \in carry[r] : m \in Message /\ AnyHolder(m) BY DEF AnyHolder, TypeOK
<1>13. QueuedIsFree'
  <2>1. \A x \in Message : AnyQueued(x)' =>
            pc'[x] = "steered" /\ ~AnyHolder(x)' /\ x \notin history' /\ x \notin forfeited'
    BY <1>1, <1>3, <1>8, <1>10, <1>12, QueuedMessages DEF Follows
  <2>2. \A x \in Task : AnyQueued(x)' => told'[x] = "claimed" /\ x \notin informed'
    BY <1>1, <1>8, QueuedTasks
  <2>3. QED BY <2>1, <2>2 DEF QueuedIsFree, AnyQueued
<1>14. HeldOnce'
  <2>1. \A m \in Unconsumed(r) : \A s \in Message : m \notin carry[s] BY <1>7, QueuedMessages DEF AnyHolder
  <2>2. HeldOnce BY DEF PlaceInv
  <2>3. QED BY <1>3, <2>1, <2>2 DEF HeldOnce
<1>15. SavedOrGivenUp'
  <2>1. \A m \in Unconsumed(r) : m \notin forfeited /\ m \notin carry[r] BY <1>7, <1>12, QueuedMessages
  <2>2. \A m \in carry[r] : m \notin history /\ m \notin forfeited BY <1>12 DEF PlaceInv, HeldOnce
  <2>3. QED BY <1>3, <2>1, <2>2 DEF PlaceInv, SavedOrGivenUp
<1>16. YoungIsNowhere'
  <2> SUFFICES ASSUME NEW m \in Message, Young(m)'
               PROVE  ~AnyHolder(m)' /\ m \notin history' /\ m \notin forfeited'
    BY DEF YoungIsNowhere
  <2>1. Young(m) /\ ~AnyHolder(m) /\ m \notin history /\ m \notin forfeited
    BY <1>1 DEF Follows, PlaceInv, YoungIsNowhere
  <2>2. m \notin Unconsumed(r) BY <1>7, <2>1, QueuedMessages DEF Young
  <2>3. QED BY <1>3, <1>10, <1>12, <2>1, <2>2
<1>17. AcceptedIsSomewhere'
  BY <1>1, <1>3, <1>9, <1>11 DEF PlaceInv, AcceptedIsSomewhere, Follows
<1>18. InformedIsClaimed' BY <1>1 DEF PlaceInv, InformedIsClaimed
<1>19. QED BY <1>5, <1>13, <1>14, <1>15, <1>16, <1>17, <1>18 DEF PlaceInv

\* A round that ends by asking for another: nothing is held, or it was just saved
\* or given up.
LEMMA NextRoundKeeps ==
    ASSUME TypeOK, PlaceInv, NEW r \in Message, NextRound(r), pc[r] \in Live \ {"locking"},
           NEW saved \in SUBSET carry[r], history' = history \cup saved,
           forfeited' = forfeited \cup (carry[r] \ saved), UNCHANGED told
    PROVE  PlaceInv'
<1>1. Drain(r, inner[r], {}) BY DEF NextRound
<1>2. inner[r] \in Queue BY InnerTyped
<1>3. Follows BY GotoFollows DEF NextRound, Live, HoldsLock
<1>4. {} \in SUBSET carry[r] /\ carry[r] \ {} = carry[r] OBVIOUS
<1>5. QED BY <1>1, <1>2, <1>3, <1>4, DrainKeeps

\* drain_or_close_steer_queue, with what the run held saved or given up just before.
LEMMA DrainOrCloseKeeps ==
    ASSUME TypeOK, PlaceInv, NEW r \in Message, DrainOrClose(r), pc[r] \in Live \ {"locking"},
           NEW saved \in SUBSET carry[r], history' = history \cup saved,
           forfeited' = forfeited \cup (carry[r] \ saved), UNCHANGED told
    PROVE  PlaceInv'
<1>1. CASE NextRound(r) BY <1>1, NextRoundKeeps
<1>2. CASE CloseQueue(r)
  <2>1. Follows BY <1>2, GotoFollows DEF CloseQueue, Live, HoldsLock
  <2>2. carry' = [carry EXCEPT ![r] = {}] /\ UNCHANGED <<pending, informed>> BY <1>2 DEF CloseQueue
  <2>3. KeepsClaims /\ carry[r] \in SUBSET Message BY DEF KeepsClaims, TypeOK
  <2>4. /\ saved \in SUBSET Message /\ carry[r] \ saved \in SUBSET Message
        /\ saved \cup (carry[r] \ saved) = carry[r] /\ saved \cap (carry[r] \ saved) = {}
    BY <2>3
  <2>5. QED BY <2>1, <2>2, <2>3, <2>4, LetGoKeeps
<1>3. QED BY <1>1, <1>2 DEF DrainOrClose

\* Every step keeps every message and every completion in its place, or moves it
\* to exactly one other.
LEMMA PlaceStep == TypeOK /\ HandsEmpty /\ PlaceInv /\ [Next]_vars => PlaceInv'
<1> SUFFICES ASSUME TypeOK, HandsEmpty, PlaceInv, [Next]_vars PROVE PlaceInv'
  OBVIOUS
<1> USE DEF tasks, queues, Live, HoldsLock
<1>1. CASE UNCHANGED vars
  <2>1. Follows /\ KeepsClaims BY <1>1 DEF vars, Follows, Young, KeepsClaims
  <2>2. QED BY <1>1, <2>1, StillKeeps DEF vars
<1>2. ASSUME NEW r \in Message, Submit(r) PROVE PlaceInv'
  <2>1. CASE active = NoQueue
    <3>1. Follows BY <1>2, <2>1 DEF Submit, Goto, TypeOK, Follows, Young
    <3>2. KeepsClaims BY <1>2 DEF Submit, KeepsClaims
    <3>3. QED BY <1>2, <2>1, <3>1, <3>2, StillKeeps DEF Submit
  <2>2. CASE active # NoQueue
    <3>1. active \in Queue BY <2>2 DEF TypeOK
    <3>2. QED BY <1>2, <2>2, <3>1, SubmitKeeps DEF Submit
  <2>3. QED BY <2>1, <2>2
<1>3. ASSUME NEW r \in Message, Register(r) PROVE PlaceInv'
  <2>1. Follows BY <1>3 DEF Register, Goto, TypeOK, Follows, Young
  <2>2. KeepsClaims BY <1>3 DEF Register, KeepsClaims
  <2>3. QED BY <1>3, <2>1, <2>2, StillKeeps DEF Register
<1>4. ASSUME NEW r \in Message, FirstLock(r) PROVE PlaceInv'
  <2>1. Follows BY <1>4, GotoFollows DEF FirstLock
  <2>2. Young(r) /\ ~Young(r)' BY <1>4 DEF FirstLock, Goto, TypeOK, Young
  <2>3. carry[r] = {} BY <1>4 DEF FirstLock, HandsEmpty
  <2>4. QED BY <1>4, <2>1, <2>2, <2>3, TakeUpKeeps DEF FirstLock
<1>5. ASSUME NEW r \in Message, Relock(r) PROVE PlaceInv'
  <2>1. Follows BY <1>5, GotoFollows DEF Relock
  <2>2. KeepsClaims BY <1>5 DEF Relock, KeepsClaims
  <2>3. QED BY <1>5, <2>1, <2>2, StillKeeps DEF Relock
<1>6. ASSUME NEW r \in Message, BeginRound(r) PROVE PlaceInv'
  <2>1. Follows BY <1>6, GotoFollows DEF BeginRound
  <2>2. KeepsClaims BY <1>6 DEF BeginRound, KeepsClaims
  <2>3. QED BY <1>6, <2>1, <2>2, StillKeeps DEF BeginRound
<1>7. ASSUME NEW r \in Message, InjectSteer(r) PROVE PlaceInv'
  <2>1. Follows BY <1>7 DEF InjectSteer, Follows, Young
  <2>2. inner[r] \in Queue BY <1>7, InnerTyped DEF InjectSteer
  <2>3. /\ {} \in SUBSET (carry[r] \ carry[r]) /\ history' = history \cup {}
        /\ forfeited' = forfeited \cup ((carry[r] \ carry[r]) \ {})
    BY <1>7 DEF InjectSteer
  <2>4. QED BY <1>7, <2>1, <2>2, <2>3, DrainKeeps DEF InjectSteer
<1>8. ASSUME NEW r \in Message, RoundDone(r) PROVE PlaceInv'
  <2>1. Follows BY <1>8, GotoFollows DEF RoundDone
  <2>2. KeepsClaims BY <1>8 DEF RoundDone, KeepsClaims
  <2>3. PICK saved \in DoneSaves(r) : Persist(r, saved) BY <1>8 DEF RoundDone
  <2>4. saved \subseteq carry[r] BY <2>3, SavesHeld
  <2>5. QED BY <1>8, <2>1, <2>2, <2>3, <2>4, PersistKeeps DEF RoundDone
<1>9. ASSUME NEW r \in Message, RoundError(r) PROVE PlaceInv'
  <2>1. PICK saved \in {carry[r]} \cup Unreported(r) : Persist(r, saved) BY <1>9 DEF RoundError
  <2>2. saved \in SUBSET carry[r] BY <2>1, SavesHeld
  <2>3. history' = history \cup saved /\ forfeited' = forfeited \cup (carry[r] \ saved) BY <2>1 DEF Persist
  <2>4. QED BY <1>9, <2>2, <2>3, DrainOrCloseKeeps DEF RoundError
<1>10. ASSUME NEW r \in Message, RoundCancelled(r) PROVE PlaceInv'
  <2>1. Follows BY <1>10, GotoFollows DEF RoundCancelled
  <2>2. KeepsClaims BY <1>10 DEF RoundCancelled, CancelAllTasks, KeepsClaims
  <2>3. PICK saved \in Checkpointed(r) : Persist(r, saved) BY <1>10 DEF RoundCancelled
  <2>4. saved \subseteq carry[r] BY <2>3, SavesHeld
  <2>5. QED BY <1>10, <2>1, <2>2, <2>3, <2>4, PersistKeeps DEF RoundCancelled
<1>11. ASSUME NEW r \in Message, NEW kept \in BOOLEAN, RefuseRound(r, kept) PROVE PlaceInv'
  <2>1. Follows BY <1>11, GotoFollows DEF RefuseRound
  <2>2. KeepsClaims /\ carry[r] \in SUBSET Message BY <1>11 DEF RefuseRound, KeepsClaims, TypeOK
  <2>3. CASE kept
    <3>1. history' = history \cup carry[r] /\ forfeited' = forfeited \cup {} BY <1>11, <2>3 DEF RefuseRound
    <3>2. QED BY <1>11, <2>1, <2>2, <3>1, LetGoKeeps DEF RefuseRound
  <2>4. CASE ~kept
    <3>1. history' = history \cup {} /\ forfeited' = forfeited \cup carry[r] BY <1>11, <2>4 DEF RefuseRound
    <3>2. QED BY <1>11, <2>1, <2>2, <3>1, LetGoKeeps DEF RefuseRound
  <2>5. QED BY <2>3, <2>4
<1>12. ASSUME NEW r \in Message, NEW t \in Task, StartTask(r, t) PROVE PlaceInv'
  <2>1. Follows BY <1>12 DEF StartTask, Follows, Young, Board!Begin
  <2>2. KeepsClaims BY <1>12 DEF StartTask, KeepsClaims, TypeOK, Board!TypeOK, Board!Begin
  <2>3. QED BY <1>12, <2>1, <2>2, StillKeeps DEF StartTask, Board!Begin
<1>13. ASSUME NEW r \in Message, NEW t \in Task, PromoteTask(r, t) PROVE PlaceInv'
  <2>1. Follows BY <1>13 DEF PromoteTask, Follows, Young, Board!Want
  <2>2. KeepsClaims BY <1>13 DEF PromoteTask, KeepsClaims, TypeOK, Board!TypeOK, Board!Want
  <2>3. QED BY <1>13, <2>1, <2>2, StillKeeps DEF PromoteTask, Board!Want
<1>14. ASSUME NEW r \in Message, NEW t \in Task, Hear(r, t) PROVE PlaceInv'
  <2>1. Follows
    <3>1. pc[r] \in {"round", "poll", "select"} /\ Goto(r, IF pc[r] = "select" THEN "poll" ELSE pc[r]) BY <1>14 DEF Hear
    <3>2. QED BY <3>1, GotoFollows
  <2>2. inner[r] \in Queue BY <1>14, InnerTyped DEF Hear
  <2>3. CASE Claimable(t) BY <1>14, <2>1, <2>2, <2>3, ClaimKeeps DEF Hear
  <2>4. CASE ~Claimable(t)
    <3>1. KeepsClaims BY <1>14, <2>4 DEF Hear, KeepsClaims
    <3>2. QED BY <1>14, <2>1, <2>4, <3>1, StillKeeps DEF Hear
  <2>5. QED BY <2>3, <2>4
<1>15. ASSUME NEW r \in Message, ContinueOrWait(r) PROVE PlaceInv'
  <2>1. carry[r] = {} BY <1>15 DEF ContinueOrWait, HandsEmpty
  <2>2. CASE NextRound(r)
    <3>1. carry[r] \in SUBSET carry[r] /\ history' = history \cup carry[r]
           /\ forfeited' = forfeited \cup (carry[r] \ carry[r])
      BY <1>15, <2>1 DEF ContinueOrWait
    <3>2. QED BY <1>15, <2>2, <3>1, NextRoundKeeps DEF ContinueOrWait
  <2>3. CASE UNCHANGED <<pending, permit, carry, informed>> /\ (Goto(r, "poll") \/ Goto(r, "evaluate"))
    <3>1. Follows BY <1>15, <2>3, GotoFollows DEF ContinueOrWait
    <3>2. KeepsClaims BY <1>15 DEF ContinueOrWait, KeepsClaims
    <3>3. QED BY <1>15, <2>3, <3>1, <3>2, StillKeeps DEF ContinueOrWait
  <2>4. QED BY <1>15, <2>2, <2>3 DEF ContinueOrWait
<1>16. ASSUME NEW r \in Message, WaitDrain(r) PROVE PlaceInv'
  <2>1. carry[r] = {} BY <1>16 DEF WaitDrain, HandsEmpty
  <2>2. carry[r] \in SUBSET carry[r] /\ history' = history \cup carry[r]
         /\ forfeited' = forfeited \cup (carry[r] \ carry[r])
    BY <1>16, <2>1 DEF WaitDrain
  <2>3. QED BY <1>16, <2>2, NextRoundKeeps DEF WaitDrain
<1>17. ASSUME NEW r \in Message, WaitScan(r) PROVE PlaceInv'
  <2>1. inner[r] \in Queue BY <1>17, InnerTyped DEF WaitScan
  <2>2. ASSUME NEW t \in Task, TakeClaim(t), Push(inner[r], t), UNCHANGED pc PROVE PlaceInv'
    <3>1. Follows BY <2>2 DEF Follows, Young
    <3>2. QED BY <1>17, <2>1, <2>2, <3>1, ClaimKeeps DEF WaitScan
  <2>3. CASE Goto(r, "check") /\ UNCHANGED <<phase, told, pending, permit>>
    <3>1. Follows BY <1>17, <2>3, GotoFollows DEF WaitScan
    <3>2. KeepsClaims BY <2>3 DEF KeepsClaims
    <3>3. QED BY <1>17, <2>3, <3>1, <3>2, StillKeeps DEF WaitScan
  <2>4. QED BY <1>17, <2>2, <2>3 DEF WaitScan
<1>18. ASSUME NEW r \in Message, WaitCheck(r) PROVE PlaceInv'
  <2>1. Follows BY <1>18, GotoFollows DEF WaitCheck
  <2>2. KeepsClaims BY <1>18 DEF WaitCheck, KeepsClaims
  <2>3. QED BY <1>18, <2>1, <2>2, StillKeeps DEF WaitCheck
<1>19. ASSUME NEW r \in Message, WaitNotified(r) PROVE PlaceInv'
  <2>1. Follows BY <1>19, GotoFollows DEF WaitNotified
  <2>2. KeepsClaims BY <1>19 DEF WaitNotified, KeepsClaims
  <2>3. QED BY <1>19, <2>1, <2>2, StillKeeps DEF WaitNotified
<1>20. ASSUME NEW r \in Message, WaitCancelled(r) PROVE PlaceInv'
  <2>1. Follows BY <1>20, GotoFollows DEF WaitCancelled, TypeOK
  <2>2. KeepsClaims BY <1>20 DEF WaitCancelled, KeepsClaims, CancelAllTasks
  <2>3. QED BY <1>20, <2>1, <2>2, StillKeeps DEF WaitCancelled, CancelAllTasks
<1>21. ASSUME NEW r \in Message, ExtraRound(r) PROVE PlaceInv'
  <2>1. Follows BY <1>21, GotoFollows DEF ExtraRound
  <2>2. KeepsClaims BY <1>21 DEF ExtraRound, KeepsClaims
  <2>3. QED BY <1>21, <2>1, <2>2, StillKeeps DEF ExtraRound
<1>22. ASSUME NEW r \in Message, EvaluationCancelled(r) PROVE PlaceInv'
  <2>1. Follows BY <1>22, GotoFollows DEF EvaluationCancelled
  <2>2. KeepsClaims BY <1>22 DEF EvaluationCancelled, KeepsClaims
  <2>3. QED BY <1>22, <2>1, <2>2, StillKeeps DEF EvaluationCancelled
<1>23. ASSUME NEW r \in Message, Close(r) PROVE PlaceInv'
  <2>1. carry[r] = {} BY <1>23 DEF Close, HandsEmpty
  <2>2. carry[r] \in SUBSET carry[r] /\ history' = history \cup carry[r]
         /\ forfeited' = forfeited \cup (carry[r] \ carry[r])
    BY <1>23, <2>1 DEF Close
  <2>3. QED BY <1>23, <2>2, DrainOrCloseKeeps DEF Close
<1>24. ASSUME NEW r \in Message, Finish(r) PROVE PlaceInv'
  BY <1>24, EndStreamKeeps DEF Finish
<1>25. ASSUME NEW r \in Message, DropRun(r) PROVE PlaceInv'
  BY <1>25, EndStreamKeeps DEF DropRun
<1>26. ASSUME NEW t \in Task, TaskCompletes(t) PROVE PlaceInv'
  <2>1. Follows BY <1>26 DEF TaskCompletes, Follows, Young, Board!End
  <2>2. KeepsClaims BY <1>26 DEF TaskCompletes, KeepsClaims, TypeOK, Board!TypeOK, Board!End
  <2>3. QED BY <1>26, <2>1, <2>2, StillKeeps DEF TaskCompletes, Board!End
<1>27. ASSUME NEW t \in Task, Broadcast(t) PROVE PlaceInv'
  <2>1. Follows BY <1>27 DEF Broadcast, Follows, Young
  <2>2. KeepsClaims BY <1>27 DEF Broadcast, KeepsClaims, TypeOK, Board!TypeOK
  <2>3. QED BY <1>27, <2>1, <2>2, StillKeeps DEF Broadcast
<1>28. ASSUME NEW t \in Task, CancelTask(t) PROVE PlaceInv'
  <2>1. Follows BY <1>28 DEF CancelTask, Follows, Young, Board!End
  <2>2. KeepsClaims BY <1>28 DEF CancelTask, KeepsClaims, TypeOK, Board!TypeOK, Board!End
  <2>3. QED BY <1>28, <2>1, <2>2, StillKeeps DEF CancelTask, Board!End
<1>29. QED
  BY <1>1, <1>2, <1>3, <1>4, <1>5, <1>6, <1>7, <1>8, <1>9, <1>10, <1>11, <1>12, <1>13, <1>14, <1>15, <1>16, <1>17, <1>18, <1>19, <1>20, <1>21, <1>22, <1>23, <1>24, <1>25, <1>26, <1>27, <1>28
     DEF Next, RoundStep, WaitStep, EndStep, TaskStep

\* For any runs and tasks: nothing is queued twice, whatever is queued is nowhere
\* else, and a message that was accepted is somewhere.
LEMMA PlaceInvHolds == Spec => [](HandsEmpty /\ PlaceInv)
<1>1. Init => HandsEmpty BY DEF Init, HandsEmpty
<1>2. Init => PlaceInv
  <2> SUFFICES ASSUME Init PROVE PlaceInv
    OBVIOUS
  <2>1. \A x : ~AnyQueued(x) /\ ~AnyHolder(x) BY DEF Init, AnyQueued, AnyHolder
  <2>2. OnceQueued /\ QueuedIsFree BY <2>1 DEF OnceQueued, QueuedIsFree, AnyQueued
  <2>3. HeldOnce /\ SavedOrGivenUp BY DEF Init, HeldOnce, SavedOrGivenUp
  <2>4. YoungIsNowhere /\ AcceptedIsSomewhere /\ InformedIsClaimed
    BY <2>1 DEF Init, YoungIsNowhere, AcceptedIsSomewhere, InformedIsClaimed
  <2>5. QED BY <2>2, <2>3, <2>4 DEF PlaceInv
<1>3. TypeOK /\ HandsEmpty /\ [Next]_vars => HandsEmpty' BY HandsEmptyStep
<1>4. TypeOK /\ HandsEmpty /\ PlaceInv /\ [Next]_vars => PlaceInv' BY PlaceStep
<1>5. QED BY <1>1, <1>2, <1>3, <1>4, TypeCorrect, PTL DEF Spec

\* Where a thing is queued, as a set of at most one position.
LEMMA QueuedCount ==
    ASSUME OnceQueued, NEW x
    PROVE  /\ AnyQueued(x) => Cardinality(Queued(x)) = 1 /\ Queued(x) # {}
           /\ ~AnyQueued(x) => Cardinality(Queued(x)) = 0 /\ Queued(x) = {}
<1>1. CASE AnyQueued(x)
  <2>0. PICK q \in Queue : \E i \in 1..Len(pending[q]) : pending[q][i] = x BY <1>1 DEF AnyQueued
  <2>1. PICK i \in 1..Len(pending[q]) : pending[q][i] = x BY <2>0
  <2>2. \A p \in Queue : \A j \in 1..Len(pending[p]) : pending[p][j] = x => p = q /\ j = i
    BY <2>1 DEF OnceQueued
  <2>3. Queued(x) = {<<q, i>>} BY <2>1, <2>2 DEF Queued
  <2>4. QED BY <1>1, <2>3, FS_Singleton
<1>2. CASE ~AnyQueued(x)
  <2>1. Queued(x) = {} BY <1>2 DEF AnyQueued, Queued
  <2>2. QED BY <1>2, <2>1, FS_EmptySet
<1>3. QED BY <1>1, <1>2

\* Who holds a message, as a set of at most one run.
LEMMA HoldersCount ==
    ASSUME HeldOnce, NEW m \in Message
    PROVE  Cardinality(Holders(m)) = IF AnyHolder(m) THEN 1 ELSE 0
<1>1. CASE AnyHolder(m)
  <2>1. PICK r \in Message : m \in carry[r] BY <1>1 DEF AnyHolder
  <2>2. Holders(m) = {r} BY <2>1 DEF HeldOnce, Holders
  <2>3. QED BY <1>1, <2>2, FS_Singleton
<1>2. CASE ~AnyHolder(m)
  <2>1. Holders(m) = {} BY <1>2 DEF AnyHolder, Holders
  <2>2. QED BY <1>2, <2>1, FS_EmptySet
<1>3. QED BY <1>1, <1>2

LEMMA MemberCount ==
    ASSUME NEW x, NEW S
    PROVE  Cardinality({x} \cap S) = IF x \in S THEN 1 ELSE 0
<1>1. CASE x \in S
  <2>1. {x} \cap S = {x} BY <1>1
  <2>2. QED BY <1>1, <2>1, FS_Singleton
<1>2. CASE x \notin S
  <2>1. {x} \cap S = {} BY <1>2
  <2>2. QED BY <1>2, <2>1, FS_EmptySet
<1>3. QED BY <1>1, <1>2

LEMMA OnePlace == PlaceInv => SteerInOnePlace
<1> SUFFICES ASSUME PlaceInv, NEW m \in Message, pc[m] = "steered" PROVE Places(m) = 1
  BY DEF SteerInOnePlace
<1>1. AnyQueued(m) \/ AnyHolder(m) \/ m \in history \/ m \in forfeited BY DEF PlaceInv, AcceptedIsSomewhere
<1>2. AnyQueued(m) => ~AnyHolder(m) /\ m \notin history /\ m \notin forfeited BY QueuedMessages
<1>3. AnyHolder(m) => m \notin history /\ m \notin forfeited BY DEF PlaceInv, HeldOnce, AnyHolder
<1>4. ~(m \in history /\ m \in forfeited) BY DEF PlaceInv, SavedOrGivenUp
<1>5. Cardinality(Queued(m)) = IF AnyQueued(m) THEN 1 ELSE 0 BY QueuedCount DEF PlaceInv
<1>6. Cardinality(Holders(m)) = IF AnyHolder(m) THEN 1 ELSE 0 BY HoldersCount DEF PlaceInv
<1>7. /\ Cardinality({m} \cap history) = IF m \in history THEN 1 ELSE 0
      /\ Cardinality({m} \cap forfeited) = IF m \in forfeited THEN 1 ELSE 0
  BY MemberCount
<1>8. QED BY <1>1, <1>2, <1>3, <1>4, <1>5, <1>6, <1>7 DEF Places

\* For any number of messages and runs, in whatever order runs share, drain, close
\* and drop queues: a message accepted as a steer is in exactly one place, so it is
\* neither lost nor answered twice.
THEOREM SteerInOnePlaceAlways == Spec => []SteerInOnePlace
BY PlaceInvHolds, OnePlace, PTL

LEMMA AtMostOnce == TypeOK /\ PlaceInv => InformedOnce
<1> SUFFICES ASSUME TypeOK, PlaceInv, NEW t \in Task
             PROVE  /\ Cardinality(Queued(t)) + Cardinality({t} \cap informed) <= 1
                    /\ Queued(t) # {} \/ t \in informed => told[t] = "claimed"
  BY DEF InformedOnce
<1>1. AnyQueued(t) => told[t] = "claimed" /\ t \notin informed BY QueuedTasks
<1>2. t \in informed => told[t] = "claimed" BY DEF PlaceInv, InformedIsClaimed
<1>3. /\ AnyQueued(t) => Cardinality(Queued(t)) = 1 /\ Queued(t) # {}
      /\ ~AnyQueued(t) => Cardinality(Queued(t)) = 0 /\ Queued(t) = {}
  BY QueuedCount DEF PlaceInv
<1>4. Cardinality({t} \cap informed) = IF t \in informed THEN 1 ELSE 0 BY MemberCount
<1>5. QED BY <1>1, <1>2, <1>3, <1>4

\* For any number of runs that hear of a completion or scan for it: its claim is
\* what lets one of them push it, and it is injected from that one place.
THEOREM InformedOnceAlways == Spec => []InformedOnce
BY PlaceInvHolds, TypeCorrect, AtMostOnce, PTL
==============================================================================
