-------------------------- MODULE ToolTasks_proofs --------------------------
(* Type correctness, single claims, final outcomes, owners, announcements and *)
(* files of ToolTasks, and that it implements TaskBoard, for any tasks,       *)
(* cancellers and bounds.                                                     *)
EXTENDS ToolTasksRefinement, FiniteSetTheorems, TLAPS

USE TaskAssumption, BoundAssumption

\* The three kinds of savers of save() are processes.
LEMMA ProcessTyped ==
    /\ \A t \in Task : Waiter(t) \in Process /\ Collector(t) \in Process
    /\ \A c \in Canceller : Cancelling(c) \in Process
BY DEF Process, Waiter, Collector, Cancelling

\* prune_completed_tasks turns a store into a store.
LEMMA PrunedImageTyped ==
    ASSUME NEW s \in [Task -> Status], NEW n \in SUBSET Task, NEW d \in SUBSET Task,
           NEW q \in Seq(Task)
    PROVE  PrunedImage(s, n, d, q) \in Image
<1>1. Excess(q) \in Nat BY DEF Excess
<1>2. Kept(q) \in Seq(Task) BY <1>1 DEF Kept
<1>3. "absent" \in Status BY DEF Status
<1>4. QED BY <1>2, <1>3 DEF PrunedImage, Image

\* The order in which loaded RUNNING records get their completed_at is a
\* sequence of tasks.
LEMMA SeqsTyped == ASSUME NEW S \in SUBSET Task, NEW order \in SetToSeqs(S)
                   PROVE  order \in Seq(Task)
<1>1. IsFiniteSet(S) BY FS_Subset
<1>2. Cardinality(S) \in Nat BY <1>1, FS_CardinalityType
<1>3. order \in [1..Cardinality(S) -> S] BY DEF SetToSeqs
<1>4. QED BY <1>2, <1>3

\* normalize_loaded_store turns what the file held into a store.
LEMMA LoadedTyped ==
    ASSUME TypeOK, NEW order \in SetToSeqs({t \in Task : disk.status[t] = "running"})
    PROVE  Loaded(order) \in Image
<1>1. /\ disk.status \in [Task -> Status] /\ disk.notify \in SUBSET Task
      /\ disk.finished \in Seq(Task)
  BY DEF TypeOK, Image
<1>2. order \in Seq(Task) BY SeqsTyped
<1>3. disk.finished \o order \in Seq(Task) BY <1>1, <1>2
<1>4. [t \in Task |-> IF disk.status[t] = "running" THEN "cancelled" ELSE disk.status[t]]
          \in [Task -> Status]
  BY <1>1 DEF Status
<1>5. QED BY <1>1, <1>3, <1>4, PrunedImageTyped DEF Loaded, DeliveredOnLoad

\* A manager with an empty store is well typed.
LEMMA TypeInit == Init => TypeOK
<1> SUFFICES ASSUME Init PROVE TypeOK
  OBVIOUS
<1>1. Empty \in Image BY DEF Empty, Image, Status
<1>2. NotCalled \in CallState BY DEF NotCalled, CallState
<1>3. status \in [Task -> Status] /\ finished \in Seq(Task) BY DEF Init, Empty, Status
<1>4. /\ waiter \in [Task -> WaiterPc] /\ collector \in [Task -> CollectorPc]
      /\ running \in [Task -> {"none", "token", "abortable"}]
      /\ attach \in [Task -> {"none", "todo", "done", "late"}]
  BY DEF Init, WaiterPc, CollectorPc
<1>5. cancelling \in [Canceller -> CallState] /\ claims \in [Task -> Nat] BY <1>2 DEF Init
<1>6. saving \in [Process -> {"no", "queued", "writing"}] /\ restarts \in 0..MaxRestarts
  BY DEF Init
<1>7. /\ writes \subseteq [by : Process, image : Image] /\ disk \in Image /\ mishaps \subseteq {"dropped", "failed"}
      /\ notify \subseteq Task /\ delivered \subseteq Task
      /\ answered \subseteq Task /\ announced \subseteq Task
  BY <1>1 DEF Init
<1>8. QED BY <1>3, <1>4, <1>5, <1>6, <1>7 DEF TypeOK

\* No step of a save, waiter, collector, canceller, claim or restart leaves
\* the types.
LEMMA TypeStep == TypeOK /\ [Next]_vars => TypeOK'
<1> SUFFICES ASSUME TypeOK, [Next]_vars PROVE TypeOK'
  OBVIOUS
<1> USE DEF TypeOK, store, actors, Status, WaiterPc, CollectorPc
<1>1. CASE UNCHANGED vars
  BY <1>1 DEF vars
<1>2. ASSUME NEW p \in Process, SaveSnapshot(p) PROVE TypeOK'
  <2>1. PrunedImage(status, notify, delivered, finished) \in Image BY PrunedImageTyped DEF Status
  <2>2. QED BY <1>2, <2>1 DEF SaveSnapshot, LoadStore, Image, Status
<1>3. ASSUME NEW w \in writes, WriteLands(w) \/ WriteFails(w) PROVE TypeOK'
  <2>1. WriteReturns(w) /\ w.by \in Process BY <1>3 DEF WriteLands, WriteFails
  <2>2. /\ writes' \subseteq writes /\ saving' \in [Process -> {"no", "queued", "writing"}]
        /\ UNCHANGED <<store, actors, announced, claims, restarts>>
    BY <2>1 DEF WriteReturns
  <2>3. disk' \in Image /\ mishaps' \subseteq {"dropped", "failed"}
    BY <1>3 DEF WriteLands, WriteFails
  <2>4. QED BY <2>2, <2>3
<1>4. ASSUME NEW t \in Task, Start(t) PROVE TypeOK'
  BY <1>4, ProcessTyped DEF Start
<1>5. ASSUME NEW t \in Task, Spawn(t) PROVE TypeOK'
  BY <1>5 DEF Spawn
<1>6. ASSUME NEW t \in Task, Attach(t) PROVE TypeOK'
  BY <1>6, ProcessTyped, ZenonT(30) DEF Attach, Drop
<1>7. ASSUME NEW t \in Task, ForegroundCompleted(t) PROVE TypeOK'
  BY <1>7 DEF ForegroundCompleted
<1>8. ASSUME NEW t \in Task, ForegroundTimeout(t) PROVE TypeOK'
  BY <1>8 DEF ForegroundTimeout
<1>9. ASSUME NEW t \in Task, NEW async_agent \in BOOLEAN, Promote(t, async_agent) PROVE TypeOK'
  <2>1. CASE status[t] = "absent" BY <1>9, <2>1 DEF Promote
  <2>2. CASE status[t] # "absent"
    <3>1. notify' \in SUBSET Task BY <1>9, <2>2 DEF Promote
    <3>2. waiter' \in [Task -> WaiterPc]
      <4>1. PICK label \in WaiterPc : waiter' = [waiter EXCEPT ![t] = label]
        BY <1>9, <2>2 DEF Promote
      <4>2. QED BY <4>1
    <3>3. QED BY <1>9, <2>2, <3>1, <3>2, ProcessTyped, ZenonT(30) DEF Promote
  <2>3. QED BY <2>1, <2>2
<1>10. ASSUME NEW t \in Task, PromoteReturn(t) PROVE TypeOK'
  BY <1>10 DEF PromoteReturn
<1>11. ASSUME NEW t \in Task, DropWaiter(t) PROVE TypeOK'
  BY <1>11, ProcessTyped DEF DropWaiter, Drop
<1>12. ASSUME NEW t \in Task, Answer(t) PROVE TypeOK'
  BY <1>12 DEF Answer
<1>13. ASSUME NEW t \in Task, FinishRemove(t) PROVE TypeOK'
  BY <1>13 DEF FinishRemove
<1>14. ASSUME NEW t \in Task, FinishRecord(t) PROVE TypeOK'
  <2>1. CASE AlreadyOver(t) BY <1>14, <2>1 DEF FinishRecord
  <2>2. CASE ~AlreadyOver(t)
    <3>1. collector' \in [Task -> CollectorPc]
      <4>1. PICK label \in CollectorPc : collector' = [collector EXCEPT ![t] = label]
        BY <1>14, <2>2 DEF FinishRecord
      <4>2. QED BY <4>1
    <3>2. status' \in [Task -> Status] BY <1>14, <2>2, ZenonT(30) DEF FinishRecord, FinishStatus
    <3>3. finished' = Append(finished, t) BY <1>14, <2>2 DEF FinishRecord
    <3>4. finished' \in Seq(Task) BY <3>3
    <3>5. saving' \in [Process -> {"no", "queued", "writing"}]
      BY <1>14, <2>2, ProcessTyped DEF FinishRecord
    <3>6. UNCHANGED <<notify, delivered, running, waiter, attach, answered, cancelling,
                      writes, disk, announced, claims, mishaps, restarts>>
      BY <1>14 DEF FinishRecord
    <3>7. QED BY <3>1, <3>2, <3>4, <3>5, <3>6
  <2>3. QED BY <2>1, <2>2
<1>15. ASSUME NEW t \in Task, FinishReturn(t) PROVE TypeOK'
  BY <1>15 DEF FinishReturn
<1>16. ASSUME NEW c \in Canceller, CancelAll(c) PROVE TypeOK'
  BY <1>16 DEF CancelAll, Call, CallState
<1>17. ASSUME NEW c \in Canceller, NEW t \in Task, CancelOne(c, t) PROVE TypeOK'
  BY <1>17 DEF CancelOne, Call, CallState
<1>18. ASSUME NEW c \in Canceller, NEW t \in Task, CancelRemove(c, t) PROVE TypeOK'
  <2>1. cancelling' \in [Canceller -> CallState]
    <3>1. cancelling[c] \in CallState OBVIOUS
    <3>2. [called |-> TRUE, todo |-> cancelling[c].todo \ {t}, current |-> t] \in CallState
      BY <3>1 DEF CallState
    <3>3. QED BY <1>18, <3>2 DEF CancelRemove
  <2>2. CASE Abortable(t) BY <1>18, <2>1, <2>2, ProcessTyped DEF CancelRemove, Drop
  <2>3. CASE ~Abortable(t) BY <1>18, <2>1, <2>3 DEF CancelRemove
  <2>4. QED BY <2>2, <2>3
<1>19. ASSUME NEW c \in Canceller, CancelRecord(c) PROVE TypeOK'
  <2> DEFINE t == cancelling[c].current
  <2>1. cancelling[c] \in CallState OBVIOUS
  <2>2. t \in Task BY <1>19, <2>1 DEF CancelRecord, CallState
  <2>3. cancelling' \in [Canceller -> CallState]
    <3>1. [cancelling[c] EXCEPT !.current = NoTask] \in CallState BY <2>1 DEF CallState
    <3>2. cancelling' = [cancelling EXCEPT ![c] = [cancelling[c] EXCEPT !.current = NoTask]]
      BY <1>19 DEF CancelRecord
    <3>3. QED BY <3>1, <3>2
  <2>4. /\ status' \in [Task -> Status] /\ finished' \in Seq(Task)
        /\ saving' \in [Process -> {"no", "queued", "writing"}]
    <3>1. CASE CancelApplies(t)
      <4>1. /\ status' = [status EXCEPT ![t] = "cancelled"] /\ finished' = Append(finished, t)
            /\ saving' = [saving EXCEPT ![Cancelling(c)] = "queued"]
        BY <1>19, <3>1 DEF CancelRecord
      <4>2. finished' \in Seq(Task) BY <2>2, <4>1
      <4>3. QED BY <2>2, <4>1, <4>2
    <3>2. CASE ~CancelApplies(t) BY <1>19, <3>2 DEF CancelRecord
    <3>3. QED BY <3>1, <3>2
  <2>5. QED BY <1>19, <2>3, <2>4 DEF CancelRecord
<1>20. ASSUME NEW t \in Task, ClaimCompletion(t) PROVE TypeOK'
  BY <1>20 DEF ClaimCompletion, TakeClaim
<1>21. CASE ClaimPending
  BY <1>21 DEF ClaimPending, TakeClaim
<1>22. CASE Restart
  <2>1. PICK order \in SetToSeqs({t \in Task : disk.status[t] = "running"}) :
            LoadStore(Loaded(order)) /\ disk' = Loaded(order)
    BY <1>22 DEF Restart
  <2>2. Loaded(order) \in Image BY LoadedTyped
  <2>3. /\ status' \in [Task -> Status] /\ finished' \in Seq(Task) /\ disk' \in Image
        /\ notify' \in SUBSET Task /\ delivered' \in SUBSET Task
    BY <2>1, <2>2 DEF LoadStore, Image
  <2>4. cancelling' \in [Canceller -> CallState] BY <1>22 DEF Restart, Call, NotCalled, CallState
  <2>5. restarts' \in 0..MaxRestarts BY <1>22 DEF Restart
  <2>6. QED BY <1>22, <2>3, <2>4, <2>5 DEF Restart
<1>23. QED
  BY <1>1, <1>2, <1>3, <1>4, <1>5, <1>6, <1>7, <1>8, <1>9, <1>10, <1>11, <1>12, <1>13, <1>14, <1>15, <1>16, <1>17, <1>18, <1>19, <1>20, <1>21, <1>22, SMTT(30)
     DEF Next, SaveStep, WriteStep, WaiterStep, CollectorStep, CancelStep

\* For any tasks, cancellers and limits the manager keeps its types.
THEOREM TypeCorrect == Spec => []TypeOK
<1>1. Init => TypeOK BY TypeInit
<1>2. TypeOK /\ [Next]_vars => TypeOK' BY TypeStep
<1>3. QED BY <1>1, <1>2, PTL DEF Spec

\* A task that was not started has left no trace: no record in memory, in a write
\* or on disk, and no claim.  So a task id enters the store once.
UnbornLeavesNoTrace ==
    \A t \in Task : waiter[t] = "unborn" =>
        /\ status[t] = "absent" /\ claims[t] = 0
        /\ disk.status[t] = "absent"
        /\ \A w \in writes : w.image.status[t] = "absent"

\* What bars the second claim: the record is gone or says that it was delivered.
ClaimIsBarred ==
    \A t \in Task : claims[t] = 0 \/ (claims[t] = 1 /\ (status[t] = "absent" \/ t \in delivered))

\* Pruning removes a record with its flags, and changes no other.
LEMMA PrunedStatus ==
    ASSUME NEW s, NEW n, NEW d, NEW q, NEW t \in Task
    PROVE  LET image == PrunedImage(s, n, d, q)
           IN  /\ image.status[t] = IF t \in Pruned(q) THEN "absent" ELSE s[t]
               /\ t \in d => image.status[t] = "absent" \/ t \in image.delivered
BY DEF PrunedImage

\* Nothing comes back from disk with an open claim.
LEMMA LoadedStatus ==
    ASSUME NEW order, NEW t \in Task
    PROVE  /\ disk.status[t] = "absent" => Loaded(order).status[t] = "absent"
           /\ Loaded(order).status[t] = "absent" \/ t \in Loaded(order).delivered
<1> DEFINE s == [x \in Task |-> IF disk.status[x] = "running" THEN "cancelled" ELSE disk.status[x]]
           q == disk.finished \o order
<1>1. Loaded(order) = PrunedImage(s, disk.notify, DeliveredOnLoad, q) BY DEF Loaded
<1>2. Loaded(order).status[t] = IF t \in Pruned(q) THEN "absent" ELSE s[t] BY <1>1, PrunedStatus
<1>3. disk.status[t] # "absent" => t \in DeliveredOnLoad BY DEF DeliveredOnLoad
<1>4. t \in DeliveredOnLoad =>
          Loaded(order).status[t] = "absent" \/ t \in Loaded(order).delivered
  BY <1>1, PrunedStatus
<1>5. QED BY <1>2, <1>3, <1>4

\* Only Start writes the record of a task that had none in memory, and saves
\* and restarts copy images that had none either.
LEMMA UnbornStep == TypeOK /\ UnbornLeavesNoTrace /\ [Next]_vars => UnbornLeavesNoTrace'
<1> SUFFICES ASSUME TypeOK /\ UnbornLeavesNoTrace, [Next]_vars PROVE UnbornLeavesNoTrace'
  OBVIOUS
<1> USE DEF TypeOK, store, UnbornLeavesNoTrace
<1>1. CASE UNCHANGED vars
  BY <1>1 DEF vars, actors
<1>2. ASSUME NEW p \in Process, SaveSnapshot(p) PROVE UnbornLeavesNoTrace'
  <2> DEFINE image == PrunedImage(status, notify, delivered, finished)
  <2>1. status' = image.status /\ writes' = writes \cup {[by |-> p, image |-> image]}
    BY <1>2 DEF SaveSnapshot, LoadStore
  <2>2. \A t \in Task : status[t] = "absent" => image.status[t] = "absent"
    BY PrunedStatus
  <2>3. waiter' = waiter /\ claims' = claims /\ disk' = disk BY <1>2 DEF SaveSnapshot, actors
  <2> HIDE DEF image
  <2>4. QED BY <2>1, <2>2, <2>3
<1>3. ASSUME NEW w \in writes, WriteLands(w) \/ WriteFails(w) PROVE UnbornLeavesNoTrace'
  BY <1>3 DEF WriteReturns, WriteLands, WriteFails, actors
<1>4. ASSUME NEW t \in Task, Start(t) PROVE UnbornLeavesNoTrace'
  BY <1>4 DEF Start
<1>5. ASSUME NEW t \in Task, Spawn(t) PROVE UnbornLeavesNoTrace'
  BY <1>5 DEF Spawn
<1>6. ASSUME NEW t \in Task, Attach(t) PROVE UnbornLeavesNoTrace'
  BY <1>6 DEF Attach
<1>7. ASSUME NEW t \in Task, ForegroundCompleted(t) PROVE UnbornLeavesNoTrace'
  BY <1>7 DEF ForegroundCompleted
<1>8. ASSUME NEW t \in Task, ForegroundTimeout(t) PROVE UnbornLeavesNoTrace'
  BY <1>8 DEF ForegroundTimeout
<1>9. ASSUME NEW t \in Task, NEW async_agent \in BOOLEAN, Promote(t, async_agent) PROVE UnbornLeavesNoTrace'
  BY <1>9 DEF Promote
<1>10. ASSUME NEW t \in Task, PromoteReturn(t) PROVE UnbornLeavesNoTrace'
  BY <1>10 DEF PromoteReturn
<1>11. ASSUME NEW t \in Task, DropWaiter(t) PROVE UnbornLeavesNoTrace'
  BY <1>11 DEF DropWaiter
<1>12. ASSUME NEW t \in Task, Answer(t) PROVE UnbornLeavesNoTrace'
  BY <1>12 DEF Answer
<1>13. ASSUME NEW t \in Task, FinishRemove(t) PROVE UnbornLeavesNoTrace'
  BY <1>13 DEF FinishRemove
<1>14. ASSUME NEW t \in Task, FinishRecord(t) PROVE UnbornLeavesNoTrace'
  <2>1. CASE AlreadyOver(t) BY <1>14, <2>1 DEF FinishRecord
  <2>2. CASE ~AlreadyOver(t)
    <3>1. waiter[t] # "unborn" BY <2>2 DEF AlreadyOver
    <3>2. QED BY <1>14, <2>2, <3>1 DEF FinishRecord
  <2>3. QED BY <2>1, <2>2
<1>15. ASSUME NEW t \in Task, FinishReturn(t) PROVE UnbornLeavesNoTrace'
  BY <1>15 DEF FinishReturn
<1>16. ASSUME NEW c \in Canceller, CancelAll(c) PROVE UnbornLeavesNoTrace'
  BY <1>16 DEF CancelAll
<1>17. ASSUME NEW c \in Canceller, NEW t \in Task, CancelOne(c, t) PROVE UnbornLeavesNoTrace'
  BY <1>17 DEF CancelOne
<1>18. ASSUME NEW c \in Canceller, NEW t \in Task, CancelRemove(c, t) PROVE UnbornLeavesNoTrace'
  BY <1>18 DEF CancelRemove
<1>19. ASSUME NEW c \in Canceller, CancelRecord(c) PROVE UnbornLeavesNoTrace'
  <2> DEFINE t == cancelling[c].current
  <2>1. CASE ~CancelApplies(t) BY <1>19, <2>1 DEF CancelRecord
  <2>2. CASE CancelApplies(t)
    <3>1. status[t] = "running" /\ status' = [status EXCEPT ![t] = "cancelled"]
      BY <1>19, <2>2 DEF CancelRecord, CancelApplies
    <3>2. UNCHANGED <<waiter, claims, disk, writes>> BY <1>19, <2>2 DEF CancelRecord
    <3>3. QED BY <3>1, <3>2
  <2>3. QED BY <2>1, <2>2
<1>20. ASSUME NEW t \in Task, ClaimCompletion(t) PROVE UnbornLeavesNoTrace'
  BY <1>20 DEF ClaimCompletion, TakeClaim, Claimable, Final, actors
<1>21. CASE ClaimPending
  BY <1>21 DEF ClaimPending, TakeClaim, Claimable, Final, actors
<1>22. CASE Restart
  <2>1. PICK order : LoadStore(Loaded(order)) /\ disk' = Loaded(order) BY <1>22 DEF Restart
  <2>2. status' = Loaded(order).status /\ disk' = Loaded(order) BY <2>1 DEF LoadStore
  <2>3. \A t \in Task : waiter'[t] = "unborn" => waiter[t] = "unborn" BY <1>22 DEF Restart
  <2>4. claims' = claims /\ writes' = {} BY <1>22 DEF Restart
  <2>5. QED BY <2>2, <2>3, <2>4, LoadedStatus
<1>23. QED
  BY <1>1, <1>2, <1>3, <1>4, <1>5, <1>6, <1>7, <1>8, <1>9, <1>10, <1>11, <1>12, <1>13, <1>14, <1>15, <1>16, <1>17, <1>18, <1>19, <1>20, <1>21, <1>22
     DEF Next, SaveStep, WriteStep, WaiterStep, CollectorStep, CancelStep

\* A claim sets notification_delivered, which nothing but the end of the record
\* resets: pruning removes the record, and a load sets the flag of every other.
LEMMA ClaimStep == TypeOK /\ UnbornLeavesNoTrace /\ ClaimIsBarred /\ [Next]_vars => ClaimIsBarred'
<1> SUFFICES ASSUME TypeOK /\ UnbornLeavesNoTrace /\ ClaimIsBarred, [Next]_vars PROVE ClaimIsBarred'
  OBVIOUS
<1> USE DEF TypeOK, store, ClaimIsBarred
<1>1. CASE UNCHANGED vars
  BY <1>1 DEF vars
<1>2. ASSUME NEW p \in Process, SaveSnapshot(p) PROVE ClaimIsBarred'
  <2> DEFINE image == PrunedImage(status, notify, delivered, finished)
  <2>1. status' = image.status /\ delivered' = image.delivered /\ claims' = claims
    BY <1>2 DEF SaveSnapshot, LoadStore
  <2>2. ASSUME NEW t \in Task, status[t] = "absent" \/ t \in delivered
        PROVE  status'[t] = "absent" \/ t \in delivered'
    <3>1. /\ image.status[t] = IF t \in Pruned(finished) THEN "absent" ELSE status[t]
          /\ t \in delivered => image.status[t] = "absent" \/ t \in image.delivered
      BY PrunedStatus
    <3>2. image.status[t] = "absent" \/ t \in image.delivered BY <2>2, <3>1
    <3>3. QED BY <2>1, <3>2
  <2> HIDE DEF image
  <2>3. claims' = claims BY <2>1
  <2>4. QED BY <2>2, <2>3
<1>3. ASSUME NEW w \in writes, WriteLands(w) \/ WriteFails(w) PROVE ClaimIsBarred'
  BY <1>3 DEF WriteReturns, WriteLands, WriteFails
<1>4. ASSUME NEW t \in Task, Start(t) PROVE ClaimIsBarred'
  BY <1>4 DEF Start, UnbornLeavesNoTrace
<1>5. ASSUME NEW t \in Task, Spawn(t) PROVE ClaimIsBarred'
  BY <1>5 DEF Spawn
<1>6. ASSUME NEW t \in Task, Attach(t) PROVE ClaimIsBarred'
  BY <1>6 DEF Attach
<1>7. ASSUME NEW t \in Task, ForegroundCompleted(t) PROVE ClaimIsBarred'
  BY <1>7 DEF ForegroundCompleted
<1>8. ASSUME NEW t \in Task, ForegroundTimeout(t) PROVE ClaimIsBarred'
  BY <1>8 DEF ForegroundTimeout
<1>9. ASSUME NEW t \in Task, NEW async_agent \in BOOLEAN, Promote(t, async_agent) PROVE ClaimIsBarred'
  BY <1>9 DEF Promote
<1>10. ASSUME NEW t \in Task, PromoteReturn(t) PROVE ClaimIsBarred'
  BY <1>10 DEF PromoteReturn
<1>11. ASSUME NEW t \in Task, DropWaiter(t) PROVE ClaimIsBarred'
  BY <1>11 DEF DropWaiter
<1>12. ASSUME NEW t \in Task, Answer(t) PROVE ClaimIsBarred'
  BY <1>12 DEF Answer
<1>13. ASSUME NEW t \in Task, FinishRemove(t) PROVE ClaimIsBarred'
  BY <1>13 DEF FinishRemove
<1>14. ASSUME NEW t \in Task, FinishRecord(t) PROVE ClaimIsBarred'
  <2>1. CASE AlreadyOver(t) BY <1>14, <2>1 DEF FinishRecord
  <2>2. CASE ~AlreadyOver(t) BY <1>14, <2>2 DEF FinishRecord, AlreadyOver
  <2>3. QED BY <2>1, <2>2
<1>15. ASSUME NEW t \in Task, FinishReturn(t) PROVE ClaimIsBarred'
  BY <1>15 DEF FinishReturn
<1>16. ASSUME NEW c \in Canceller, CancelAll(c) PROVE ClaimIsBarred'
  BY <1>16 DEF CancelAll
<1>17. ASSUME NEW c \in Canceller, NEW t \in Task, CancelOne(c, t) PROVE ClaimIsBarred'
  BY <1>17 DEF CancelOne
<1>18. ASSUME NEW c \in Canceller, NEW t \in Task, CancelRemove(c, t) PROVE ClaimIsBarred'
  BY <1>18 DEF CancelRemove
<1>19. ASSUME NEW c \in Canceller, CancelRecord(c) PROVE ClaimIsBarred'
  <2> DEFINE t == cancelling[c].current
  <2>1. CASE ~CancelApplies(t) BY <1>19, <2>1 DEF CancelRecord
  <2>2. CASE CancelApplies(t)
    <3>1. status[t] = "running" /\ status' = [status EXCEPT ![t] = "cancelled"]
      BY <1>19, <2>2 DEF CancelRecord, CancelApplies
    <3>2. UNCHANGED <<delivered, claims>> BY <1>19, <2>2 DEF CancelRecord
    <3>3. QED BY <3>1, <3>2
  <2>3. QED BY <2>1, <2>2
<1>20. ASSUME NEW t \in Task, ClaimCompletion(t) PROVE ClaimIsBarred'
  BY <1>20 DEF ClaimCompletion, TakeClaim, Claimable, Final
<1>21. CASE ClaimPending
  BY <1>21 DEF ClaimPending, TakeClaim, Claimable, Final
<1>22. CASE Restart
  <2>1. PICK order : LoadStore(Loaded(order)) BY <1>22 DEF Restart
  <2>2. status' = Loaded(order).status /\ delivered' = Loaded(order).delivered
    BY <2>1 DEF LoadStore
  <2>3. claims' = claims BY <1>22 DEF Restart
  <2>4. QED BY <2>2, <2>3, LoadedStatus
<1>23. QED
  BY <1>1, <1>2, <1>3, <1>4, <1>5, <1>6, <1>7, <1>8, <1>9, <1>10, <1>11, <1>12, <1>13, <1>14, <1>15, <1>16, <1>17, <1>18, <1>19, <1>20, <1>21, <1>22
     DEF Next, SaveStep, WriteStep, WaiterStep, CollectorStep, CancelStep

\* UnbornLeavesNoTrace holds in every behaviour; the next two theorems need it.
LEMMA NoTrace == Spec => []UnbornLeavesNoTrace
<1>1. Init => UnbornLeavesNoTrace BY DEF Init, UnbornLeavesNoTrace, Empty
<1>2. TypeOK /\ UnbornLeavesNoTrace /\ [Next]_vars => UnbornLeavesNoTrace' BY UnbornStep
<1>3. QED BY <1>1, <1>2, TypeCorrect, PTL DEF Spec

\* For any number of tasks, restarts and cancellers, whatever is pruned: the
\* completion of a task is claimed at most once.
THEOREM ClaimedOnceAlways == Spec => []ClaimedOnce
<1>1. Init => ClaimIsBarred BY DEF Init, ClaimIsBarred
<1>2. TypeOK /\ UnbornLeavesNoTrace /\ ClaimIsBarred /\ [Next]_vars => ClaimIsBarred'
  BY ClaimStep
<1>3. ClaimIsBarred => ClaimedOnce BY DEF ClaimIsBarred, ClaimedOnce
<1>4. QED BY <1>1, <1>2, <1>3, TypeCorrect, NoTrace, PTL DEF Spec

\* What OutcomeIsFinal says of one step.
OutcomesStand ==
    restarts' = restarts =>
        \A t \in Task : status[t] \in Final => status'[t] \in {status[t], "absent"}

\* Only Start, FinishRecord, CancelRecord, a pruning save and a restart write a
\* status; the first three find it "absent" or "running".
LEMMA OutcomeStep == TypeOK /\ UnbornLeavesNoTrace /\ [Next]_vars => OutcomesStand
<1> SUFFICES ASSUME TypeOK /\ UnbornLeavesNoTrace, [Next]_vars PROVE OutcomesStand
  OBVIOUS
<1> USE DEF store, OutcomesStand
<1>1. CASE UNCHANGED vars
  BY <1>1 DEF vars
<1>2. ASSUME NEW p \in Process, SaveSnapshot(p) PROVE OutcomesStand
  <2>1. status' = PrunedImage(status, notify, delivered, finished).status
    BY <1>2 DEF SaveSnapshot, LoadStore
  <2>2. QED BY <2>1, PrunedStatus
<1>3. ASSUME NEW t \in Task, Start(t) PROVE OutcomesStand
  <2>1. status[t] = "absent" /\ status' = [status EXCEPT ![t] = "running"]
    BY <1>3 DEF Start, UnbornLeavesNoTrace
  <2>2. QED BY <2>1 DEF TypeOK, Final
<1>4. ASSUME NEW t \in Task, FinishRecord(t) PROVE OutcomesStand
  <2>1. CASE AlreadyOver(t) BY <1>4, <2>1 DEF FinishRecord
  <2>2. CASE ~AlreadyOver(t)
    <3>1. status[t] = "running" /\ status' = [status EXCEPT ![t] = FinishStatus]
      BY <1>4, <2>2 DEF FinishRecord, AlreadyOver
    <3>2. QED BY <3>1 DEF TypeOK, Final
  <2>3. QED BY <2>1, <2>2
<1>5. ASSUME NEW c \in Canceller, CancelRecord(c) PROVE OutcomesStand
  <2> DEFINE t == cancelling[c].current
  <2>1. CASE ~CancelApplies(t) BY <1>5, <2>1 DEF CancelRecord
  <2>2. CASE CancelApplies(t)
    <3>1. status[t] = "running" /\ status' = [status EXCEPT ![t] = "cancelled"]
      BY <1>5, <2>2 DEF CancelRecord, CancelApplies
    <3>2. QED BY <3>1 DEF TypeOK, Final
  <2>3. QED BY <2>1, <2>2
<1>6. CASE ClaimPending
  BY <1>6 DEF ClaimPending, TakeClaim
<1>7. CASE Restart
  BY <1>7 DEF Restart, TypeOK
<1>8. ASSUME NEW w \in writes, WriteLands(w) \/ WriteFails(w) PROVE OutcomesStand
  BY <1>8 DEF WriteReturns, WriteLands, WriteFails
<1>9. ASSUME NEW t \in Task, Spawn(t) PROVE OutcomesStand
  BY <1>9 DEF Spawn
<1>10. ASSUME NEW t \in Task, Attach(t) PROVE OutcomesStand
  BY <1>10 DEF Attach
<1>11. ASSUME NEW t \in Task, ForegroundCompleted(t) PROVE OutcomesStand
  BY <1>11 DEF ForegroundCompleted
<1>12. ASSUME NEW t \in Task, ForegroundTimeout(t) PROVE OutcomesStand
  BY <1>12 DEF ForegroundTimeout
<1>13. ASSUME NEW t \in Task, NEW async_agent \in BOOLEAN, Promote(t, async_agent) PROVE OutcomesStand
  BY <1>13 DEF Promote
<1>14. ASSUME NEW t \in Task, PromoteReturn(t) PROVE OutcomesStand
  BY <1>14 DEF PromoteReturn
<1>15. ASSUME NEW t \in Task, DropWaiter(t) PROVE OutcomesStand
  BY <1>15 DEF DropWaiter
<1>16. ASSUME NEW t \in Task, Answer(t) PROVE OutcomesStand
  BY <1>16 DEF Answer
<1>17. ASSUME NEW t \in Task, FinishRemove(t) PROVE OutcomesStand
  BY <1>17 DEF FinishRemove
<1>18. ASSUME NEW t \in Task, FinishReturn(t) PROVE OutcomesStand
  BY <1>18 DEF FinishReturn
<1>19. ASSUME NEW c \in Canceller, CancelAll(c) PROVE OutcomesStand
  BY <1>19 DEF CancelAll
<1>20. ASSUME NEW c \in Canceller, NEW t \in Task, CancelOne(c, t) PROVE OutcomesStand
  BY <1>20 DEF CancelOne
<1>21. ASSUME NEW c \in Canceller, NEW t \in Task, CancelRemove(c, t) PROVE OutcomesStand
  BY <1>21 DEF CancelRemove
<1>22. ASSUME NEW t \in Task, ClaimCompletion(t) PROVE OutcomesStand
  BY <1>22 DEF ClaimCompletion, TakeClaim
<1>23. QED
  BY <1>1, <1>2, <1>3, <1>4, <1>5, <1>6, <1>7, <1>8, <1>9, <1>10, <1>11, <1>12, <1>13, <1>14, <1>15, <1>16, <1>17, <1>18, <1>19, <1>20, <1>21, <1>22
     DEF Next, SaveStep, WriteStep, WaiterStep, CollectorStep, CancelStep

\* finish() and cancel() never override each other's outcome, for any number of
\* tasks and cancellers, while the process lives.
THEOREM OutcomeIsFinalAlways == Spec => OutcomeIsFinal
<1>1. TypeOK /\ UnbornLeavesNoTrace /\ [Next]_vars => [OutcomesStand]_vars
  BY OutcomeStep
<1>2. QED BY <1>1, TypeCorrect, NoTrace, PTL DEF Spec, OutcomeIsFinal, OutcomesStand

------------------------------------------------------------------------------
(* Owners, announcements and files. *)

\* A save prunes the store it writes.
LEMMA Snapshot ==
    ASSUME NEW p \in Process, SaveSnapshot(p)
    PROVE  /\ \A t \in Task : status'[t] = IF t \in Pruned(finished) THEN "absent" ELSE status[t]
           /\ notify' = notify \ Pruned(finished) /\ delivered' = delivered \ Pruned(finished)
           /\ finished' = Kept(finished)
           /\ UNCHANGED <<actors, disk, announced, claims, mishaps, restarts>>
BY DEF SaveSnapshot, LoadStore, PrunedImage

\* No record is RUNNING after a load, and none has an open claim.
LEMMA LoadedEnds ==
    ASSUME NEW order, LoadStore(Loaded(order)), NEW t \in Task
    PROVE  status'[t] # "running" /\ (status'[t] = "absent" \/ t \in delivered')
<1>1. status'[t] = Loaded(order).status[t] /\ delivered' = Loaded(order).delivered BY DEF LoadStore
<1>2. Loaded(order).status[t] # "running" BY PrunedStatus DEF Loaded
<1>3. QED BY <1>1, <1>2, LoadedStatus

\* A store as prune_completed_tasks keeps it: what has a completed_at is over, no
\* task is listed twice, and flags go with their record.
Sound(image) ==
    /\ \A i \in 1..Len(image.finished) : image.status[image.finished[i]] \in Final
    /\ \A i, j \in 1..Len(image.finished) : image.finished[i] = image.finished[j] => i = j
    /\ \A t \in Task : image.status[t] = "absent" => t \notin image.notify /\ t \notin image.delivered

\* A file may lag behind memory, and is never ahead of it.
Lags(image) ==
    \A t \in Task :
        /\ status[t] = "running" => image.status[t] \in {"absent", "running"}
        /\ status[t] = "cancelled" => image.status[t] # "completed"

InMemory == [status |-> status, notify |-> notify, delivered |-> delivered, finished |-> finished]
Stored == {disk} \cup {w.image : w \in writes}
StoresAreSound == Sound(InMemory) /\ \A image \in Stored : Sound(image) /\ Lags(image)

\* Pruning keeps a store sound.
LEMMA PrunedSound ==
    ASSUME NEW s \in [Task -> Status], NEW n \in SUBSET Task, NEW d \in SUBSET Task, NEW q \in Seq(Task),
           Sound([status |-> s, notify |-> n, delivered |-> d, finished |-> q])
    PROVE  Sound(PrunedImage(s, n, d, q))
<1> DEFINE e == Excess(q)
           image == PrunedImage(s, n, d, q)
<1>1. Len(q) \in Nat /\ e \in 0..Len(q) BY BoundAssumption DEF Excess
<1>2. Len(Kept(q)) = Len(q) - e /\ \A i \in 1..(Len(q) - e) : Kept(q)[i] = q[i + e]
  BY <1>1, SMTT(30) DEF Kept
<1>3. /\ \A i \in 1..Len(q) : q[i] \in Task /\ s[q[i]] \in Final
      /\ \A i, j \in 1..Len(q) : q[i] = q[j] => i = j
      /\ \A t \in Task : s[t] = "absent" => t \notin n /\ t \notin d
  BY DEF Sound
<1>4. /\ image.finished = Kept(q) /\ image.notify = n \ Pruned(q) /\ image.delivered = d \ Pruned(q)
      /\ \A t \in Task : image.status[t] = IF t \in Pruned(q) THEN "absent" ELSE s[t]
  BY DEF PrunedImage
<1>5. \A i \in 1..(Len(q) - e) : Kept(q)[i] \notin Pruned(q)
  BY <1>1, <1>2, <1>3 DEF Pruned
<1> HIDE DEF image, e
<1>6. \A i \in 1..Len(image.finished) :
          image.finished[i] \in Task /\ image.status[image.finished[i]] \in Final
  BY <1>1, <1>2, <1>3, <1>4, <1>5
<1>7. ASSUME NEW i \in 1..Len(image.finished), NEW j \in 1..Len(image.finished),
             image.finished[i] = image.finished[j]
      PROVE  i = j
  <2>1. i + e \in 1..Len(q) /\ j + e \in 1..Len(q) BY <1>1, <1>2, <1>4
  <2>2. q[i + e] = q[j + e] BY <1>2, <1>4, <1>7
  <2>3. i + e = j + e BY <1>3, <2>1, <2>2
  <2>4. QED BY <1>1, <1>2, <1>4, <2>3
<1>8. \A t \in Task : image.status[t] = "absent" => t \notin image.notify /\ t \notin image.delivered
  BY <1>3, <1>4
<1>9. QED BY <1>6, <1>7, <1>8 DEF Sound, image

\* An order of loaded RUNNING records lists each of them once.
LEMMA SeqsListOnce ==
    ASSUME NEW S \in SUBSET Task, NEW order \in SetToSeqs(S)
    PROVE  /\ order \in Seq(Task)
           /\ \A i \in 1..Len(order) : order[i] \in S
           /\ \A i, j \in 1..Len(order) : order[i] = order[j] => i = j
<1>1. IsFiniteSet(S) BY FS_Subset, TaskAssumption
<1>2. Cardinality(S) \in Nat BY <1>1, FS_CardinalityType
<1>3. /\ order \in [1..Cardinality(S) -> S]
      /\ \A i, j \in 1..Cardinality(S) : i # j => order[i] # order[j]
  BY DEF SetToSeqs
<1>4. order \in Seq(S) /\ order \in Seq(Task) /\ Len(order) = Cardinality(S) BY <1>2, <1>3
<1>5. QED BY <1>3, <1>4

\* normalize_loaded_store makes a sound store of a sound file.
LEMMA LoadedSound ==
    ASSUME TypeOK, Sound(disk), NEW order \in SetToSeqs({t \in Task : disk.status[t] = "running"})
    PROVE  Sound(Loaded(order))
<1> DEFINE S == {t \in Task : disk.status[t] = "running"}
           s == [t \in Task |-> IF disk.status[t] = "running" THEN "cancelled" ELSE disk.status[t]]
           q == disk.finished \o order
<1>1. /\ disk.status \in [Task -> Status] /\ disk.notify \in SUBSET Task /\ disk.finished \in Seq(Task)
  BY DEF TypeOK, Image
<1>2. /\ order \in Seq(Task)
      /\ \A i \in 1..Len(order) : order[i] \in S
      /\ \A i, j \in 1..Len(order) : order[i] = order[j] => i = j
  BY SeqsListOnce
<1>3. q \in Seq(Task) /\ s \in [Task -> Status] /\ DeliveredOnLoad \in SUBSET Task
  BY <1>1, <1>2 DEF Status, DeliveredOnLoad
<1>4. /\ Len(q) = Len(disk.finished) + Len(order)
      /\ \A i \in 1..Len(q) : q[i] = IF i <= Len(disk.finished) THEN disk.finished[i]
                                                              ELSE order[i - Len(disk.finished)]
      /\ Len(disk.finished) \in Nat /\ Len(order) \in Nat
  BY <1>1, <1>2
<1>5. \A i \in 1..Len(disk.finished) : disk.finished[i] \in Task /\ disk.status[disk.finished[i]] \in Final
  BY <1>1 DEF Sound
<1>6. \A i, j \in 1..Len(disk.finished) : disk.finished[i] = disk.finished[j] => i = j
  BY DEF Sound
<1> HIDE DEF q
<1>7. ASSUME NEW i \in 1..Len(q) PROVE q[i] \in Task /\ s[q[i]] \in Final
  <2>1. CASE i <= Len(disk.finished)
    <3>1. q[i] \in Task /\ disk.status[q[i]] \in Final BY <1>4, <1>5, <2>1
    <3>2. QED BY <3>1 DEF Final
  <2>2. CASE i > Len(disk.finished)
    <3>1. q[i] \in S BY <1>2, <1>4, <2>2
    <3>2. QED BY <3>1 DEF Final
  <2>3. QED BY <1>4, <2>1, <2>2
<1>8. \A i, j \in 1..Len(q) : q[i] = q[j] => i = j
  <2> SUFFICES ASSUME NEW i \in 1..Len(q), NEW j \in 1..Len(q), q[i] = q[j] PROVE i = j
    OBVIOUS
  <2>1. CASE i <= Len(disk.finished) /\ j <= Len(disk.finished) BY <1>4, <1>6, <2>1
  <2>2. CASE i > Len(disk.finished) /\ j > Len(disk.finished)
    <3>1. order[i - Len(disk.finished)] = order[j - Len(disk.finished)] BY <1>4, <2>2
    <3>2. i - Len(disk.finished) \in 1..Len(order) /\ j - Len(disk.finished) \in 1..Len(order) BY <1>4, <2>2
    <3>3. i - Len(disk.finished) = j - Len(disk.finished) BY <1>2, <3>1, <3>2
    <3>4. QED BY <1>4, <3>3
  <2>3. \A k, l \in 1..Len(q) : k <= Len(disk.finished) /\ l > Len(disk.finished) => q[k] # q[l]
    <3> SUFFICES ASSUME NEW k \in 1..Len(q), NEW l \in 1..Len(q), k <= Len(disk.finished), l > Len(disk.finished)
                 PROVE  q[k] # q[l]
      OBVIOUS
    <3>1. q[k] = disk.finished[k] /\ k \in 1..Len(disk.finished) BY <1>4
    <3>2. q[l] = order[l - Len(disk.finished)] /\ l - Len(disk.finished) \in 1..Len(order) BY <1>4
    <3>3. disk.status[q[k]] \in Final /\ q[l] \in S BY <1>2, <1>5, <3>1, <3>2
    <3>4. QED BY <3>3 DEF Final
  <2>4. QED BY <1>4, <2>1, <2>2, <2>3
<1>9. \A t \in Task : s[t] = "absent" => t \notin disk.notify /\ t \notin DeliveredOnLoad
  BY DEF Sound, DeliveredOnLoad
<1> HIDE DEF s
<1>10. Sound([status |-> s, notify |-> disk.notify, delivered |-> DeliveredOnLoad, finished |-> q])
  BY <1>7, <1>8, <1>9 DEF Sound
<1>11. Sound(PrunedImage(s, disk.notify, DeliveredOnLoad, q)) BY <1>1, <1>3, <1>10, PrunedSound
<1>12. QED BY <1>11 DEF Loaded, s, q

\* What a step has to leave as it is for the stores to stay sound.
LEMMA StoresUntouched ==
    ASSUME StoresAreSound, UNCHANGED <<status, notify, delivered, finished, disk, writes>>
    PROVE  StoresAreSound'
BY DEF StoresAreSound, Sound, Lags, Stored, InMemory

\* A pruned store replaces the one in memory.
LEMMA StoreLoaded ==
    ASSUME NEW s, NEW n, NEW d, NEW q, LoadStore(PrunedImage(s, n, d, q))
    PROVE  InMemory' = PrunedImage(s, n, d, q)
<1> DEFINE image == PrunedImage(s, n, d, q)
<1>1. image = [status |-> image.status, notify |-> image.notify,
               delivered |-> image.delivered, finished |-> image.finished]
  BY DEF PrunedImage
<1> HIDE DEF image
<1>2. LoadStore(image) BY DEF image
<1>3. InMemory' = image BY <1>1, <1>2 DEF InMemory, LoadStore
<1>4. QED BY <1>3 DEF image

\* A sound image that is in memory now may be written or be on disk.
LEMMA StoreMade ==
    ASSUME StoresAreSound, NEW image, Sound(image), InMemory' = image,
           \A i \in Stored' : i = image \/ (i \in Stored /\ Lags(i)')
    PROVE  StoresAreSound'
<1>1. image.status = status' BY DEF InMemory
<1>2. \A i \in Stored' : Lags(i)' BY <1>1 DEF Lags
<1>3. \A i \in Stored' : Sound(i) BY DEF StoresAreSound
<1>4. QED BY <1>2, <1>3 DEF StoresAreSound, Sound

\* One more record is over: a task that was RUNNING, or was not listed.
LEMMA OneMoreEnds ==
    ASSUME TypeOK, StoresAreSound, NEW t \in Task, status[t] = "running", NEW outcome \in Final,
           status' = [status EXCEPT ![t] = outcome], finished' = Append(finished, t),
           UNCHANGED <<notify, delivered, disk, writes>>
    PROVE  StoresAreSound'
<1>1. status \in [Task -> Status] /\ finished \in Seq(Task) BY DEF TypeOK
<1>2. /\ \A i \in 1..Len(finished) : finished[i] \in Task /\ status[finished[i]] \in Final
      /\ \A i, j \in 1..Len(finished) : finished[i] = finished[j] => i = j
      /\ \A u \in Task : status[u] = "absent" => u \notin notify /\ u \notin delivered
  BY <1>1 DEF StoresAreSound, Sound, InMemory
<1>3. \A i \in 1..Len(finished) : finished[i] # t BY <1>2 DEF Final
<1>4. /\ Len(finished) \in Nat /\ Len(finished') = Len(finished) + 1
      /\ \A i \in 1..Len(finished') : finished'[i] = IF i <= Len(finished) THEN finished[i] ELSE t
  BY <1>1
<1>5. \A i \in 1..Len(finished') : status'[finished'[i]] \in Final BY <1>1, <1>2, <1>3, <1>4
<1>6. \A i, j \in 1..Len(finished') : finished'[i] = finished'[j] => i = j BY <1>2, <1>3, <1>4
<1>7. \A u \in Task : status'[u] = "absent" => u \notin notify /\ u \notin delivered
  BY <1>1, <1>2 DEF Final
<1>8. Sound(InMemory)' BY <1>5, <1>6, <1>7 DEF Sound, InMemory
<1>9. \A image \in Stored : Sound(image) /\ Lags(image) BY DEF StoresAreSound
<1>10. \A image \in Stored : Lags(image)' BY <1>1, <1>9 DEF Lags, Final
<1>11. Stored' = Stored BY DEF Stored
<1>12. QED BY <1>8, <1>9, <1>10, <1>11 DEF StoresAreSound, Sound

\* Every step keeps the stores in memory, in a write and on disk sound.
LEMMA StoresStep == TypeOK /\ UnbornLeavesNoTrace /\ StoresAreSound /\ [Next]_vars => StoresAreSound'
<1> SUFFICES ASSUME TypeOK /\ UnbornLeavesNoTrace /\ StoresAreSound, [Next]_vars PROVE StoresAreSound'
  OBVIOUS
<1> USE DEF TypeOK
<1>1. CASE UNCHANGED vars
  BY <1>1, StoresUntouched DEF vars, store
<1>2. ASSUME NEW p \in Process, SaveSnapshot(p) PROVE StoresAreSound'
  <2> DEFINE image == PrunedImage(status, notify, delivered, finished)
  <2>1. Sound(image) BY PrunedSound DEF StoresAreSound, InMemory
  <2>2. InMemory' = image BY <1>2, StoreLoaded DEF SaveSnapshot
  <2>3. disk' = disk /\ writes' = writes \cup {[by |-> p, image |-> image]} BY <1>2 DEF SaveSnapshot
  <2>4. \A t \in Task : status'[t] \in {status[t], "absent"} BY <1>2, Snapshot
  <2>5. \A i \in Stored : Lags(i)' BY <2>4 DEF StoresAreSound, Lags
  <2> HIDE DEF image
  <2>6. \A i \in Stored' : i = image \/ i \in Stored BY <2>3 DEF Stored
  <2>7. QED BY <2>1, <2>2, <2>5, <2>6, StoreMade
<1>3. ASSUME NEW w \in writes, WriteLands(w) \/ WriteFails(w) PROVE StoresAreSound'
  <2>1. Stored' \subseteq Stored BY <1>3 DEF WriteReturns, WriteLands, WriteFails, Stored
  <2>2. UNCHANGED <<status, InMemory>> BY <1>3 DEF WriteReturns, WriteLands, WriteFails, store, InMemory
  <2>3. QED BY <2>1, <2>2 DEF StoresAreSound, Lags
<1>4. ASSUME NEW t \in Task, Start(t) PROVE StoresAreSound'
  <2>1. status[t] = "absent" /\ \A image \in Stored : image.status[t] = "absent"
    BY <1>4 DEF Start, UnbornLeavesNoTrace, Stored
  <2>2. status' = [status EXCEPT ![t] = "running"] /\ UNCHANGED <<notify, delivered, finished, disk, writes>>
    BY <1>4 DEF Start
  <2>3. \A i \in 1..Len(finished) : finished[i] \in Task /\ finished[i] # t
    <3>1. \A i \in 1..Len(finished) : status[finished[i]] \in Final
      BY DEF StoresAreSound, Sound, InMemory
    <3>2. \A i \in 1..Len(finished) : finished[i] \in Task OBVIOUS
    <3> HIDE DEF TypeOK
    <3>3. QED BY <2>1, <3>1, <3>2 DEF Final
  <2>4. Sound(InMemory)' BY <2>2, <2>3 DEF StoresAreSound, Sound, InMemory
  <2>5. \A image \in Stored : Sound(image) /\ Lags(image)' BY <2>1, <2>2 DEF StoresAreSound, Lags
  <2>6. Stored' = Stored BY <2>2 DEF Stored
  <2>7. QED BY <2>4, <2>5, <2>6 DEF StoresAreSound
<1>5. ASSUME NEW t \in Task, Spawn(t) PROVE StoresAreSound'
  BY <1>5, StoresUntouched DEF Spawn, store, actors
<1>6. ASSUME NEW t \in Task, Attach(t) PROVE StoresAreSound'
  BY <1>6, StoresUntouched DEF Attach, store, actors
<1>7. ASSUME NEW t \in Task, ForegroundCompleted(t) PROVE StoresAreSound'
  BY <1>7, StoresUntouched DEF ForegroundCompleted, store, actors
<1>8. ASSUME NEW t \in Task, ForegroundTimeout(t) PROVE StoresAreSound'
  BY <1>8, StoresUntouched DEF ForegroundTimeout, store, actors
<1>9. ASSUME NEW t \in Task, NEW async_agent \in BOOLEAN, Promote(t, async_agent) PROVE StoresAreSound'
  <2>1. UNCHANGED <<status, delivered, finished, disk, writes>> BY <1>9 DEF Promote
  <2>2. \A u \in Task : status[u] = "absent" /\ u \in notify' => u \in notify BY <1>9 DEF Promote
  <2>3. Sound(InMemory)' BY <2>1, <2>2 DEF StoresAreSound, Sound, InMemory
  <2>4. QED BY <2>1, <2>3 DEF StoresAreSound, Lags, Stored
<1>10. ASSUME NEW t \in Task, PromoteReturn(t) PROVE StoresAreSound'
  BY <1>10, StoresUntouched DEF PromoteReturn, store, actors
<1>11. ASSUME NEW t \in Task, DropWaiter(t) PROVE StoresAreSound'
  BY <1>11, StoresUntouched DEF DropWaiter, store, actors
<1>12. ASSUME NEW t \in Task, Answer(t) PROVE StoresAreSound'
  BY <1>12, StoresUntouched DEF Answer, store, actors
<1>13. ASSUME NEW t \in Task, FinishRemove(t) PROVE StoresAreSound'
  BY <1>13, StoresUntouched DEF FinishRemove, store, actors
<1>14. ASSUME NEW t \in Task, FinishRecord(t) PROVE StoresAreSound'
  <2>1. CASE AlreadyOver(t) BY <1>14, <2>1, StoresUntouched DEF FinishRecord
  <2>2. CASE ~AlreadyOver(t)
    <3>1. /\ status[t] = "running" /\ status' = [status EXCEPT ![t] = "completed"]
          /\ finished' = Append(finished, t) /\ UNCHANGED <<notify, delivered, disk, writes>>
      BY <1>14, <2>2 DEF FinishRecord, AlreadyOver, FinishStatus
    <3>2. QED BY <3>1, OneMoreEnds DEF Final
  <2>3. QED BY <2>1, <2>2
<1>15. ASSUME NEW t \in Task, FinishReturn(t) PROVE StoresAreSound'
  BY <1>15, StoresUntouched DEF FinishReturn, store, actors
<1>16. ASSUME NEW c \in Canceller, CancelAll(c) PROVE StoresAreSound'
  BY <1>16, StoresUntouched DEF CancelAll, store, actors
<1>17. ASSUME NEW c \in Canceller, NEW t \in Task, CancelOne(c, t) PROVE StoresAreSound'
  BY <1>17, StoresUntouched DEF CancelOne, store, actors
<1>18. ASSUME NEW c \in Canceller, NEW t \in Task, CancelRemove(c, t) PROVE StoresAreSound'
  BY <1>18, StoresUntouched DEF CancelRemove, store, actors
<1>19. ASSUME NEW c \in Canceller, CancelRecord(c) PROVE StoresAreSound'
  <2> DEFINE t == cancelling[c].current
  <2>1. CASE ~CancelApplies(t) BY <1>19, <2>1, StoresUntouched DEF CancelRecord
  <2>2. CASE CancelApplies(t)
    <3>1. /\ status[t] = "running" /\ status' = [status EXCEPT ![t] = "cancelled"]
          /\ finished' = Append(finished, t) /\ UNCHANGED <<notify, delivered, disk, writes>>
      BY <1>19, <2>2 DEF CancelRecord, CancelApplies
    <3>2. t \in Task BY <1>19 DEF CancelRecord, CallState
    <3> HIDE DEF t
    <3>3. QED BY <3>1, <3>2, OneMoreEnds DEF Final
  <2>3. QED BY <2>1, <2>2
<1>20. ASSUME NEW t \in Task, TakeClaim(t) PROVE StoresAreSound'
  <2>1. UNCHANGED <<status, notify, finished, disk, writes>> BY <1>20 DEF TakeClaim
  <2>2. \A u \in Task : status[u] = "absent" /\ u \in delivered' => u \in delivered
    BY <1>20 DEF TakeClaim, Claimable, Final
  <2>3. Sound(InMemory)' BY <2>1, <2>2 DEF StoresAreSound, Sound, InMemory
  <2>4. QED BY <2>1, <2>3 DEF StoresAreSound, Lags, Stored
<1>21. CASE Restart
  <2>1. PICK order \in SetToSeqs({t \in Task : disk.status[t] = "running"}) :
            LoadStore(Loaded(order)) /\ disk' = Loaded(order)
    BY <1>21 DEF Restart
  <2>2. Sound(Loaded(order)) BY LoadedSound DEF StoresAreSound, Stored
  <2>3. InMemory' = Loaded(order) BY <2>1, StoreLoaded DEF Loaded
  <2>4. Stored' = {Loaded(order)} BY <1>21, <2>1 DEF Restart, Stored
  <2>5. QED BY <2>2, <2>3, <2>4, StoreMade
<1>22. QED
  BY <1>1, <1>2, <1>3, <1>4, <1>5, <1>6, <1>7, <1>8, <1>9, <1>10, <1>11, <1>12, <1>13, <1>14, <1>15, <1>16, <1>17, <1>18, <1>19, <1>20, <1>21
     DEF Next, SaveStep, WriteStep, WaiterStep, CollectorStep, CancelStep, ClaimCompletion, ClaimPending

\* A call of cancel that was not made is at no task.
Uncalled == \A c \in Canceller : cancelling[c].called \/ cancelling[c].current = NoTask

\* Some call of cancel has removed the running entry of t and will write its record.
AtTask(t) == \E c \in Canceller : cancelling[c].current = t

\* What is known of a task before its attach has run: its collector has neither
\* been aborted nor, unless the tool is immediate, answered, so a missing running
\* entry was taken by a canceller that has still to write the record.
Handover ==
    \A t \in Task :
        /\ waiter[t] \in {"unborn", "start"} =>
              collector[t] = "none" /\ attach[t] = "none" /\ t \notin answered
        /\ collector[t] \in {"finish", "record"} => t \in answered
        /\ collector[t] \in {"record", "recorded", "announce", "done"} => running[t] = "none"
        /\ waiter[t] = "unborn" => status[t] # "running"
        /\ waiter[t] \in {"unborn", "start"} \/ attach[t] = "todo" =>
              /\ running[t] # "abortable" /\ collector[t] # "aborted"
              /\ t \in answered => t \in ImmediateTask
              /\ running[t] = "none" /\ status[t] = "running" => t \in ImmediateTask \/ AtTask(t)

\* Which call of cancel is at which task changes with CancelRemove and CancelRecord only.

\* A new call of cancel is at no task, and disturbs no other call.
LEMMA CallMade ==
    ASSUME TypeOK, Uncalled, NEW c \in Canceller, ~cancelling[c].called, NEW ids,
           cancelling' = [cancelling EXCEPT ![c] = Call(ids)], NEW u \in Task
    PROVE  Uncalled' /\ (AtTask(u) => AtTask(u)')
BY DEF TypeOK, CallState, Uncalled, AtTask, Call

\* CancelRemove puts its call at a task.
LEMMA CallRemoves ==
    ASSUME TypeOK, Uncalled, NEW c \in Canceller, NEW t \in Task, CancelRemove(c, t), NEW u \in Task
    PROVE  Uncalled' /\ AtTask(t)' /\ (AtTask(u) => AtTask(u)')
BY DEF TypeOK, CallState, Uncalled, AtTask, CancelRemove

\* CancelRecord takes its call away from the task whose record it wrote.
LEMMA CallRecords ==
    ASSUME TypeOK, Uncalled, NEW c \in Canceller, CancelRecord(c), NEW u \in Task
    PROVE  Uncalled' /\ (AtTask(u) => AtTask(u)' \/ cancelling[c].current = u)
BY DEF TypeOK, CallState, Uncalled, AtTask, CancelRecord

\* No step puts a call that was not made at a task.
LEMMA UncalledStep == TypeOK /\ Uncalled /\ [Next]_vars => Uncalled'
<1> SUFFICES ASSUME TypeOK /\ Uncalled, [Next]_vars PROVE Uncalled'
  OBVIOUS
<1>1. CASE UNCHANGED cancelling
  BY <1>1 DEF Uncalled
<1>2. ASSUME NEW c \in Canceller, CancelStep(c) PROVE Uncalled'
  <2>1. CASE CancelAll(c) BY <2>1, CallMade DEF CancelAll, Uncalled, Call, CallState, TypeOK
  <2>2. ASSUME NEW t \in Task, CancelOne(c, t) PROVE Uncalled' BY <2>2, CallMade DEF CancelOne
  <2>3. ASSUME NEW t \in Task, CancelRemove(c, t) PROVE Uncalled' BY <2>3, CallRemoves
  <2>4. CASE CancelRecord(c) BY <2>4 DEF TypeOK, CallState, Uncalled, CancelRecord
  <2>5. QED BY <1>2, <2>1, <2>2, <2>3, <2>4 DEF CancelStep
<1>3. CASE Restart
  BY <1>3 DEF Restart, Call, NotCalled, Uncalled
<1>4. ASSUME NEW t \in Task, WaiterStep(t) \/ CollectorStep(t) \/ ClaimCompletion(t) PROVE UNCHANGED cancelling
  BY <1>4 DEF WaiterStep, CollectorStep, ClaimCompletion, TakeClaim, Start, Spawn, Attach, ForegroundCompleted,
     ForegroundTimeout, Promote, PromoteReturn, DropWaiter, Answer, FinishRemove, FinishRecord, FinishReturn, actors
<1>5. ASSUME SaveStep \/ WriteStep \/ ClaimPending \/ UNCHANGED vars PROVE UNCHANGED cancelling
  BY <1>5 DEF SaveStep, WriteStep, ClaimPending, SaveSnapshot, WriteReturns, WriteLands, WriteFails, TakeClaim, actors, vars
<1>6. QED BY <1>1, <1>2, <1>3, <1>4, <1>5 DEF Next

\* Every step keeps what is known of a task before its attach has run.
LEMMA HandoverStep == TypeOK /\ Uncalled /\ Handover /\ [Next]_vars => Handover'
<1> SUFFICES ASSUME TypeOK /\ Uncalled /\ Handover, [Next]_vars PROVE Handover'
  OBVIOUS
<1> USE DEF TypeOK, Handover, WaiterPc, CollectorPc, AtTask
<1>1. CASE UNCHANGED vars
  BY <1>1 DEF vars, actors, store
<1>2. ASSUME NEW p \in Process, SaveSnapshot(p) PROVE Handover'
  <2>1. \A t \in Task : status'[t] = "running" => status[t] = "running" BY <1>2, Snapshot
  <2>2. UNCHANGED actors BY <1>2, Snapshot
  <2>3. QED BY <2>1, <2>2 DEF actors
<1>3. ASSUME NEW w \in writes, WriteLands(w) \/ WriteFails(w) PROVE Handover'
  <2>1. UNCHANGED <<store, actors>> BY <1>3 DEF WriteReturns, WriteLands, WriteFails
  <2>2. QED BY <2>1 DEF store, actors
<1>4. ASSUME NEW t \in Task, Start(t) PROVE Handover'
  BY <1>4 DEF Start, store, actors
<1>5. ASSUME NEW t \in Task, Spawn(t) PROVE Handover'
  BY <1>5 DEF Spawn, store, actors
<1>6. ASSUME NEW t \in Task, Attach(t) PROVE Handover'
  BY <1>6 DEF Attach, store, actors
<1>7. ASSUME NEW t \in Task, ForegroundCompleted(t) PROVE Handover'
  BY <1>7 DEF ForegroundCompleted, store, actors
<1>8. ASSUME NEW t \in Task, ForegroundTimeout(t) PROVE Handover'
  BY <1>8 DEF ForegroundTimeout, store, actors
<1>9. ASSUME NEW t \in Task, NEW async_agent \in BOOLEAN, Promote(t, async_agent) PROVE Handover'
  BY <1>9 DEF Promote, store, actors
<1>10. ASSUME NEW t \in Task, PromoteReturn(t) PROVE Handover'
  BY <1>10 DEF PromoteReturn, store, actors
<1>11. ASSUME NEW t \in Task, DropWaiter(t) PROVE Handover'
  BY <1>11 DEF DropWaiter, store, actors
<1>12. ASSUME NEW t \in Task, Answer(t) PROVE Handover'
  BY <1>12 DEF Answer, store, actors
<1>13. ASSUME NEW t \in Task, FinishRemove(t) PROVE Handover'
  BY <1>13 DEF FinishRemove, store, actors
<1>14. ASSUME NEW t \in Task, FinishRecord(t) PROVE Handover'
  BY <1>14 DEF FinishRecord, store, actors
<1>15. ASSUME NEW t \in Task, FinishReturn(t) PROVE Handover'
  BY <1>15 DEF FinishReturn, store, actors
<1>16. ASSUME NEW c \in Canceller, CancelAll(c) PROVE Handover'
  <2>1. \A u \in Task : AtTask(u) => AtTask(u)' BY <1>16, CallMade DEF CancelAll
  <2> HIDE DEF AtTask
  <2>2. QED BY <1>16, <2>1 DEF CancelAll, store
<1>17. ASSUME NEW c \in Canceller, NEW t \in Task, CancelOne(c, t) PROVE Handover'
  <2>1. \A u \in Task : AtTask(u) => AtTask(u)' BY <1>17, CallMade DEF CancelOne
  <2> HIDE DEF AtTask
  <2>2. QED BY <1>17, <2>1 DEF CancelOne, store
<1>18. ASSUME NEW c \in Canceller, NEW t \in Task, CancelRemove(c, t) PROVE Handover'
  <2>1. AtTask(t)' /\ \A u \in Task : AtTask(u) => AtTask(u)' BY <1>18, CallRemoves
  <2> HIDE DEF AtTask
  <2>2. CASE Abortable(t) BY <1>18, <2>1, <2>2 DEF CancelRemove, Abortable, store
  <2>3. CASE ~Abortable(t) BY <1>18, <2>1, <2>3 DEF CancelRemove, store
  <2>4. QED BY <2>2, <2>3
<1>19. ASSUME NEW c \in Canceller, CancelRecord(c) PROVE Handover'
  <2> DEFINE t == cancelling[c].current
  <2>1. \A u \in Task : AtTask(u) => AtTask(u)' \/ u = t BY <1>19, CallRecords
  <2>2. \A u \in Task : status'[u] = "running" => status[u] = "running" /\ u # t
    BY <1>19 DEF CancelRecord, CancelApplies
  <2>3. UNCHANGED <<running, waiter, collector, attach, answered>> BY <1>19 DEF CancelRecord
  <2> HIDE DEF AtTask, t
  <2>4. QED BY <2>1, <2>2, <2>3
<1>20. ASSUME NEW t \in Task, TakeClaim(t) PROVE Handover'
  BY <1>20 DEF TakeClaim, store, actors
<1>21. CASE Restart
  <2>1. PICK order : LoadStore(Loaded(order)) BY <1>21 DEF Restart
  <2>2. \A t \in Task : status'[t] # "running" BY <2>1, LoadedEnds
  <2>3. QED BY <1>21, <2>2 DEF Restart
<1>22. QED
  BY <1>1, <1>2, <1>3, <1>4, <1>5, <1>6, <1>7, <1>8, <1>9, <1>10, <1>11, <1>12, <1>13, <1>14, <1>15, <1>16, <1>17, <1>18, <1>19, <1>20, <1>21
     DEF Next, SaveStep, WriteStep, WaiterStep, CollectorStep, CancelStep, ClaimCompletion, ClaimPending

\* A promotion comes after attach: until then the record of a task asks for no
\* notification, and no file has one that does before the task was started.
Unpromoted ==
    \A t \in Task :
        /\ waiter[t] \in {"promote", "promoted", "announce"} => attach[t] # "todo"
        /\ waiter[t] \in {"unborn", "start"} \/ attach[t] = "todo" => t \notin notify

\* Only a promotion asks for a notification, and a load asks for none of a task that
\* was not started.
LEMMA UnpromotedStep == TypeOK /\ UnbornLeavesNoTrace /\ StoresAreSound /\ Handover /\ Unpromoted /\ [Next]_vars => Unpromoted'
<1> SUFFICES ASSUME TypeOK /\ UnbornLeavesNoTrace /\ StoresAreSound /\ Handover /\ Unpromoted, [Next]_vars PROVE Unpromoted'
  OBVIOUS
<1> USE DEF TypeOK, Unpromoted, WaiterPc, CollectorPc
<1>1. CASE UNCHANGED vars
  BY <1>1 DEF vars, actors, store
<1>2. ASSUME NEW p \in Process, SaveSnapshot(p) PROVE Unpromoted'
  <2>1. notify' \subseteq notify /\ UNCHANGED actors BY <1>2, Snapshot
  <2>2. QED BY <2>1 DEF actors
<1>3. ASSUME NEW w \in writes, WriteLands(w) \/ WriteFails(w) PROVE Unpromoted'
  BY <1>3 DEF WriteReturns, WriteLands, WriteFails, store, actors
<1>4. ASSUME NEW t \in Task, Start(t) PROVE Unpromoted'
  BY <1>4 DEF Start, store, actors
<1>5. ASSUME NEW t \in Task, Spawn(t) PROVE Unpromoted'
  BY <1>5 DEF Spawn, store, Handover
<1>6. ASSUME NEW t \in Task, Attach(t) PROVE Unpromoted'
  BY <1>6 DEF Attach, store, actors
<1>7. ASSUME NEW t \in Task, ForegroundCompleted(t) PROVE Unpromoted'
  BY <1>7 DEF ForegroundCompleted, store, actors
<1>8. ASSUME NEW t \in Task, ForegroundTimeout(t) PROVE Unpromoted'
  BY <1>8 DEF ForegroundTimeout, store, actors
<1>9. ASSUME NEW t \in Task, NEW async_agent \in BOOLEAN, Promote(t, async_agent) PROVE Unpromoted'
  BY <1>9 DEF Promote, store, actors
<1>10. ASSUME NEW t \in Task, PromoteReturn(t) PROVE Unpromoted'
  BY <1>10 DEF PromoteReturn, store, actors
<1>11. ASSUME NEW t \in Task, DropWaiter(t) PROVE Unpromoted'
  BY <1>11 DEF DropWaiter, store, actors
<1>12. ASSUME NEW t \in Task, Answer(t) PROVE Unpromoted'
  BY <1>12 DEF Answer, store, actors
<1>13. ASSUME NEW t \in Task, FinishRemove(t) PROVE Unpromoted'
  BY <1>13 DEF FinishRemove, store, actors
<1>14. ASSUME NEW t \in Task, FinishRecord(t) PROVE Unpromoted'
  BY <1>14 DEF FinishRecord, store, actors
<1>15. ASSUME NEW t \in Task, FinishReturn(t) PROVE Unpromoted'
  BY <1>15 DEF FinishReturn, store, actors
<1>16. ASSUME NEW c \in Canceller, CancelAll(c) PROVE Unpromoted'
  BY <1>16 DEF CancelAll, store, actors
<1>17. ASSUME NEW c \in Canceller, NEW t \in Task, CancelOne(c, t) PROVE Unpromoted'
  BY <1>17 DEF CancelOne, store, actors
<1>18. ASSUME NEW c \in Canceller, NEW t \in Task, CancelRemove(c, t) PROVE Unpromoted'
  BY <1>18 DEF CancelRemove, store, actors
<1>19. ASSUME NEW c \in Canceller, CancelRecord(c) PROVE Unpromoted'
  BY <1>19 DEF CancelRecord, store, actors
<1>20. ASSUME NEW t \in Task, TakeClaim(t) PROVE Unpromoted'
  BY <1>20 DEF TakeClaim, store, actors
<1>21. CASE Restart
  <2>1. PICK order : LoadStore(Loaded(order)) BY <1>21 DEF Restart
  <2>2. notify' \subseteq disk.notify BY <2>1 DEF LoadStore, Loaded, PrunedImage
  <2>3. \A t \in Task : disk.status[t] = "absent" => t \notin disk.notify
    BY DEF StoresAreSound, Stored, Sound
  <2>4. \A t \in Task : waiter[t] = "unborn" => t \notin notify'
    BY <2>2, <2>3 DEF UnbornLeavesNoTrace
  <2>5. QED BY <1>21, <2>4 DEF Restart
<1>22. QED
  BY <1>1, <1>2, <1>3, <1>4, <1>5, <1>6, <1>7, <1>8, <1>9, <1>10, <1>11, <1>12, <1>13, <1>14, <1>15, <1>16, <1>17, <1>18, <1>19, <1>20, <1>21
     DEF Next, SaveStep, WriteStep, WaiterStep, CollectorStep, CancelStep, ClaimCompletion, ClaimPending

\* A record keeps its owner, or its reason to have none, in a step that leaves its
\* collector and its attach alone.
LEMMA OwnerKept ==
    ASSUME NEW u \in Task, UNCHANGED <<collector[u], attach[u]>>, AtTask(u) => AtTask(u)',
           waiter[u] \in {"start", "dropped"} => waiter'[u] = waiter[u]
    PROVE  HasOwner(u) \/ Orphaned(u) => HasOwner(u)' \/ Orphaned(u)'
BY DEF HasOwner, Orphaned, LateAborted, AtTask

\* Whoever stops owning a RUNNING record hands it over or ends it.
LEMMA OwnerStep == TypeOK /\ Uncalled /\ Handover /\ RunningHasOwner /\ [Next]_vars => RunningHasOwner'
<1> SUFFICES ASSUME TypeOK /\ Uncalled /\ Handover /\ RunningHasOwner, [Next]_vars PROVE RunningHasOwner'
  OBVIOUS
<1> USE DEF TypeOK, RunningHasOwner, HasOwner, Orphaned, LateAborted, WaiterPc, CollectorPc, AtTask
<1>1. CASE UNCHANGED vars
  BY <1>1 DEF vars, actors, store
<1>2. ASSUME NEW p \in Process, SaveSnapshot(p) PROVE RunningHasOwner'
  <2>1. \A t \in Task : status'[t] = "running" => status[t] = "running" BY <1>2, Snapshot
  <2>2. UNCHANGED actors BY <1>2, Snapshot
  <2>3. QED BY <2>1, <2>2 DEF actors
<1>3. ASSUME NEW w \in writes, WriteLands(w) \/ WriteFails(w) PROVE RunningHasOwner'
  BY <1>3 DEF WriteReturns, WriteLands, WriteFails, store, actors
<1>4. ASSUME NEW t \in Task, Start(t) PROVE RunningHasOwner'
  BY <1>4 DEF Start, store, actors
<1>5. ASSUME NEW t \in Task, Spawn(t) PROVE RunningHasOwner'
  BY <1>5 DEF Spawn, store, actors
<1>6. ASSUME NEW t \in Task, Attach(t) PROVE RunningHasOwner'
  <2>1. CASE running[t] # "none" BY <1>6, <2>1 DEF Attach, store
  <2>2. CASE running[t] = "none"
    <3>1. status[t] = "running" => t \in ImmediateTask \/ AtTask(t) BY <1>6, <2>2 DEF Attach, Handover
    <3>2. /\ collector' = [collector EXCEPT ![t] = IF @ = "done" THEN @ ELSE "aborted"]
          /\ attach' = [attach EXCEPT ![t] = "late"]
          /\ UNCHANGED <<status, waiter, cancelling>>
      BY <1>6, <2>2 DEF Attach, store
    <3>3. \A u \in Task : u # t => collector'[u] = collector[u] /\ attach'[u] = attach[u] BY <3>2
    <3>4. /\ collector'[t] \in {"done", "aborted"} /\ attach'[t] = "late"
          /\ collector[t] = "done" <=> collector'[t] = "done"
      BY <3>2
    <3>5. \A u \in Task : AtTask(u)' <=> AtTask(u) BY <3>2
    <3>6. ASSUME NEW u \in Task, status'[u] = "running", u # t PROVE HasOwner(u)' \/ Orphaned(u)'
      BY <3>2, <3>3, <3>5, <3>6, OwnerKept
    <3>7. status'[t] = "running" => HasOwner(t)' \/ Orphaned(t)' BY <3>1, <3>2, <3>4, <3>5
    <3>8. QED BY <3>6, <3>7
  <2>3. QED BY <2>1, <2>2
<1>7. ASSUME NEW t \in Task, ForegroundCompleted(t) PROVE RunningHasOwner'
  BY <1>7 DEF ForegroundCompleted, store, actors
<1>8. ASSUME NEW t \in Task, ForegroundTimeout(t) PROVE RunningHasOwner'
  BY <1>8 DEF ForegroundTimeout, store, actors
<1>9. ASSUME NEW t \in Task, NEW async_agent \in BOOLEAN, Promote(t, async_agent) PROVE RunningHasOwner'
  <2>1. UNCHANGED <<status, collector, attach, cancelling>> BY <1>9 DEF Promote
  <2>2. waiter[t] = "promote" /\ \A u \in Task : u # t => waiter'[u] = waiter[u] BY <1>9 DEF Promote
  <2>3. ASSUME NEW u \in Task PROVE HasOwner(u) \/ Orphaned(u) => HasOwner(u)' \/ Orphaned(u)'
    BY <2>1, <2>2, OwnerKept
  <2> HIDE DEF HasOwner, Orphaned
  <2>4. QED BY <2>1, <2>3
<1>10. ASSUME NEW t \in Task, PromoteReturn(t) PROVE RunningHasOwner'
  BY <1>10 DEF PromoteReturn, store, actors
<1>11. ASSUME NEW t \in Task, DropWaiter(t) PROVE RunningHasOwner'
  BY <1>11 DEF DropWaiter, store, Handover
<1>12. ASSUME NEW t \in Task, Answer(t) PROVE RunningHasOwner'
  BY <1>12 DEF Answer, store, actors
<1>13. ASSUME NEW t \in Task, FinishRemove(t) PROVE RunningHasOwner'
  BY <1>13 DEF FinishRemove, store, actors
<1>14. ASSUME NEW t \in Task, FinishRecord(t) PROVE RunningHasOwner'
  <2>1. CASE AlreadyOver(t) BY <1>14, <2>1, SMTT(30) DEF FinishRecord, AlreadyOver
  <2>2. CASE ~AlreadyOver(t)
    <3>1. status' = [status EXCEPT ![t] = "completed"] BY <1>14, <2>2 DEF FinishRecord, FinishStatus
    <3>2. \A u \in Task : u # t => collector'[u] = collector[u] BY <1>14, <2>2 DEF FinishRecord
    <3>3. UNCHANGED <<waiter, cancelling, attach>> BY <1>14 DEF FinishRecord
    <3>4. ASSUME NEW u \in Task, u # t PROVE HasOwner(u) \/ Orphaned(u) => HasOwner(u)' \/ Orphaned(u)'
      BY <3>2, <3>3, <3>4, OwnerKept
    <3> HIDE DEF HasOwner, Orphaned
    <3>5. QED BY <3>1, <3>4
  <2>3. QED BY <2>1, <2>2
<1>15. ASSUME NEW t \in Task, FinishReturn(t) PROVE RunningHasOwner'
  BY <1>15 DEF FinishReturn, store, actors
<1>16. ASSUME NEW c \in Canceller, CancelAll(c) PROVE RunningHasOwner'
  <2>1. \A u \in Task : AtTask(u) => AtTask(u)' BY <1>16, CallMade DEF CancelAll
  <2>2. QED BY <1>16, <2>1 DEF CancelAll, store
<1>17. ASSUME NEW c \in Canceller, NEW t \in Task, CancelOne(c, t) PROVE RunningHasOwner'
  <2>1. \A u \in Task : AtTask(u) => AtTask(u)' BY <1>17, CallMade DEF CancelOne
  <2>2. QED BY <1>17, <2>1 DEF CancelOne, store
<1>18. ASSUME NEW c \in Canceller, NEW t \in Task, CancelRemove(c, t) PROVE RunningHasOwner'
  <2>1. AtTask(t)' /\ \A u \in Task : AtTask(u) => AtTask(u)' BY <1>18, CallRemoves
  <2>2. CASE Abortable(t) BY <1>18, <2>1, <2>2 DEF CancelRemove, Abortable, store
  <2>3. CASE ~Abortable(t) BY <1>18, <2>1, <2>3 DEF CancelRemove, store
  <2>4. QED BY <2>2, <2>3
<1>19. ASSUME NEW c \in Canceller, CancelRecord(c) PROVE RunningHasOwner'
  <2> DEFINE t == cancelling[c].current
  <2>1. \A u \in Task : AtTask(u) => AtTask(u)' \/ u = t BY <1>19, CallRecords
  <2>2. \A u \in Task : status'[u] = "running" => status[u] = "running" /\ u # t
    BY <1>19 DEF CancelRecord, CancelApplies
  <2>3. UNCHANGED <<waiter, collector, attach>> BY <1>19 DEF CancelRecord
  <2> HIDE DEF t
  <2>4. ASSUME NEW u \in Task, u # t PROVE HasOwner(u) \/ Orphaned(u) => HasOwner(u)' \/ Orphaned(u)'
    BY <2>1, <2>3, <2>4, OwnerKept
  <2> HIDE DEF HasOwner, Orphaned
  <2>5. QED BY <2>2, <2>4
<1>20. ASSUME NEW t \in Task, TakeClaim(t) PROVE RunningHasOwner'
  BY <1>20 DEF TakeClaim, store, actors
<1>21. CASE Restart
  <2>1. PICK order : LoadStore(Loaded(order)) BY <1>21 DEF Restart
  <2>2. QED BY <2>1, LoadedEnds
<1>22. QED
  BY <1>1, <1>2, <1>3, <1>4, <1>5, <1>6, <1>7, <1>8, <1>9, <1>10, <1>11, <1>12, <1>13, <1>14, <1>15, <1>16, <1>17, <1>18, <1>19, <1>20, <1>21
     DEF Next, SaveStep, WriteStep, WaiterStep, CollectorStep, CancelStep, ClaimCompletion, ClaimPending

\* Whoever makes a completion wanted, or a wanted task completed, is the one that
\* announces it.
LEMMA AnnouncedStep == TypeOK /\ Handover /\ Unpromoted /\ CompletionIsAnnounced /\ [Next]_vars => CompletionIsAnnounced'
<1> SUFFICES ASSUME TypeOK /\ Handover /\ Unpromoted /\ CompletionIsAnnounced, [Next]_vars PROVE CompletionIsAnnounced'
  OBVIOUS
<1> USE DEF TypeOK, CompletionIsAnnounced, WaiterPc, CollectorPc
<1>1. CASE UNCHANGED vars
  BY <1>1 DEF vars, actors, store
<1>2. ASSUME NEW p \in Process, SaveSnapshot(p) PROVE CompletionIsAnnounced'
  <2>1. \A t \in Task : status'[t] = "completed" /\ t \in notify' \ delivered' =>
            status[t] = "completed" /\ t \in notify \ delivered
    BY <1>2, Snapshot
  <2>2. UNCHANGED <<waiter, collector, announced>> BY <1>2, Snapshot DEF actors
  <2>3. QED BY <2>1, <2>2
<1>3. ASSUME NEW w \in writes, WriteLands(w) \/ WriteFails(w) PROVE CompletionIsAnnounced'
  BY <1>3 DEF WriteReturns, WriteLands, WriteFails, store, actors
<1>4. ASSUME NEW t \in Task, Start(t) PROVE CompletionIsAnnounced'
  BY <1>4 DEF Start, store, actors
<1>5. ASSUME NEW t \in Task, Spawn(t) PROVE CompletionIsAnnounced'
  BY <1>5 DEF Spawn, store, Handover
<1>6. ASSUME NEW t \in Task, Attach(t) PROVE CompletionIsAnnounced'
  BY <1>6 DEF Attach, store, Handover, Unpromoted
<1>7. ASSUME NEW t \in Task, ForegroundCompleted(t) PROVE CompletionIsAnnounced'
  BY <1>7 DEF ForegroundCompleted, store, actors
<1>8. ASSUME NEW t \in Task, ForegroundTimeout(t) PROVE CompletionIsAnnounced'
  BY <1>8 DEF ForegroundTimeout, store, actors
<1>9. ASSUME NEW t \in Task, NEW async_agent \in BOOLEAN, Promote(t, async_agent) PROVE CompletionIsAnnounced'
  <2>1. CASE status[t] = "absent" BY <1>9, <2>1 DEF Promote
  <2>2. CASE status[t] # "absent"
    <3>1. /\ waiter' = [waiter EXCEPT ![t] = IF MustAnnounce(t) THEN "announce" ELSE "promoted"]
          /\ notify' = IF async_agent THEN notify \cup {t} ELSE notify
          /\ UNCHANGED <<status, delivered, collector, announced>>
      BY <1>9, <2>2 DEF Promote
    <3>2. status[t] = "completed" /\ t \in notify' \ delivered' => waiter'[t] = "announce"
      BY <3>1 DEF MustAnnounce
    <3>3. \A u \in Task : u # t => waiter'[u] = waiter[u] /\ (u \in notify' <=> u \in notify) BY <3>1
    <3>4. QED BY <3>1, <3>2, <3>3
  <2>3. QED BY <2>1, <2>2
<1>10. ASSUME NEW t \in Task, PromoteReturn(t) PROVE CompletionIsAnnounced'
  BY <1>10 DEF PromoteReturn, store, actors
<1>11. ASSUME NEW t \in Task, DropWaiter(t) PROVE CompletionIsAnnounced'
  BY <1>11 DEF DropWaiter, store, actors
<1>12. ASSUME NEW t \in Task, Answer(t) PROVE CompletionIsAnnounced'
  BY <1>12 DEF Answer, store, actors
<1>13. ASSUME NEW t \in Task, FinishRemove(t) PROVE CompletionIsAnnounced'
  BY <1>13 DEF FinishRemove, store, actors
<1>14. ASSUME NEW t \in Task, FinishRecord(t) PROVE CompletionIsAnnounced'
  BY <1>14 DEF FinishRecord, store, actors
<1>15. ASSUME NEW t \in Task, FinishReturn(t) PROVE CompletionIsAnnounced'
  BY <1>15 DEF FinishReturn, store, actors
<1>16. ASSUME NEW c \in Canceller, CancelAll(c) PROVE CompletionIsAnnounced'
  BY <1>16 DEF CancelAll, store, actors
<1>17. ASSUME NEW c \in Canceller, NEW t \in Task, CancelOne(c, t) PROVE CompletionIsAnnounced'
  BY <1>17 DEF CancelOne, store, actors
<1>18. ASSUME NEW c \in Canceller, NEW t \in Task, CancelRemove(c, t) PROVE CompletionIsAnnounced'
  BY <1>18 DEF CancelRemove, Abortable, store, Handover
<1>19. ASSUME NEW c \in Canceller, CancelRecord(c) PROVE CompletionIsAnnounced'
  BY <1>19 DEF CancelRecord, store, actors
<1>20. ASSUME NEW t \in Task, TakeClaim(t) PROVE CompletionIsAnnounced'
  BY <1>20 DEF TakeClaim, store, actors
<1>21. CASE Restart
  <2>1. PICK order : LoadStore(Loaded(order)) BY <1>21 DEF Restart
  <2>2. QED BY <2>1, LoadedEnds
<1>22. QED
  BY <1>1, <1>2, <1>3, <1>4, <1>5, <1>6, <1>7, <1>8, <1>9, <1>10, <1>11, <1>12, <1>13, <1>14, <1>15, <1>16, <1>17, <1>18, <1>19, <1>20, <1>21
     DEF Next, SaveStep, WriteStep, WaiterStep, CollectorStep, CancelStep, ClaimCompletion, ClaimPending

\* The savers are different processes.
LEMMA ProcessesDiffer ==
    /\ \A t, u \in Task :
          /\ Waiter(t) = Waiter(u) => t = u
          /\ Collector(t) = Collector(u) => t = u
          /\ Waiter(t) # Collector(u)
    /\ \A c, d \in Canceller : Cancelling(c) = Cancelling(d) => c = d
    /\ \A t \in Task, c \in Canceller : Waiter(t) # Cancelling(c) /\ Collector(t) # Cancelling(c)
BY DEF Waiter, Collector, Cancelling

\* Who is not in a save(): an activity enters one from these labels, and leaves
\* it before it reaches another of them.
Savers ==
    /\ \A t \in Task :
          /\ waiter[t] \in {"unborn", "select", "promote"} => saving[Waiter(t)] = "no"
          /\ collector[t] \in {"none", "exec", "finish", "record"} => saving[Collector(t)] = "no"
    /\ \A c \in Canceller : cancelling[c].current # NoTask => saving[Cancelling(c)] = "no"

\* persist_lock: the one write in flight is the one its holder waits for.
OneWriter ==
    /\ \A p, q \in Process : saving[p] = "writing" /\ saving[q] = "writing" => p = q
    /\ \A w \in writes : saving[w.by] = "writing"
    /\ \A p \in Process : saving[p] = "writing" => \E w \in writes : w.by = p
    /\ \A v, w \in writes : v = w

\* When nobody is still to take a snapshot, the last write has what memory has,
\* and so has the file if it did not fail.
Fresh ==
    (\A p \in Process : saving[p] # "queued") =>
        /\ writes = {} /\ "failed" \notin mishaps => disk.status = status
        /\ \A w \in writes : w.image.status = status

\* No save is lost, unless a future was dropped inside one.
Written == "dropped" \in mishaps \/ (OneWriter /\ Fresh)

\* What a step has to leave as it is for no save to be lost.
LEMMA WrittenUntouched ==
    ASSUME Written, UNCHANGED <<saving, writes, disk, mishaps, status>>
    PROVE  Written'
BY DEF Written, OneWriter, Fresh

\* A step that queues a save may change any status.
LEMMA WrittenQueued ==
    ASSUME TypeOK, Written, NEW p \in Process, saving[p] = "no", saving' = [saving EXCEPT ![p] = "queued"],
           UNCHANGED <<writes, disk, mishaps>>
    PROVE  Written'
<1>1. CASE "dropped" \in mishaps BY <1>1 DEF Written
<1>2. CASE OneWriter
  <2>1. saving \in [Process -> {"no", "queued", "writing"}] /\ \A w \in writes : w.by \in Process BY DEF TypeOK
  <2>2. saving'[p] = "queued" /\ \A q \in Process : saving'[q] = "writing" <=> saving[q] = "writing"
    BY <2>1
  <2>3. OneWriter' BY <1>2, <2>1, <2>2 DEF OneWriter
  <2>4. Fresh' BY <2>2 DEF Fresh
  <2>5. QED BY <2>3, <2>4 DEF Written
<1>3. QED BY <1>1, <1>2 DEF Written

\* Dropping a future inside its save() leaves a mishap; outside of it nothing is
\* lost.
LEMMA WrittenDropped ==
    ASSUME TypeOK, Written, NEW p \in Process, Drop(p), UNCHANGED <<writes, disk, status>>
    PROVE  Written'
<1>1. saving \in [Process -> {"no", "queued", "writing"}] BY DEF TypeOK
<1>2. CASE "dropped" \in mishaps \/ saving[p] = "queued" \/ WriteInFlight(p) BY <1>2 DEF Drop, Written
<1>3. CASE OneWriter /\ Fresh /\ saving[p] # "queued" /\ ~WriteInFlight(p)
  <2>1. saving[p] = "no" BY <1>1, <1>3 DEF OneWriter, WriteInFlight
  <2>2. saving' = saving BY <1>1, <2>1 DEF Drop
  <2>3. mishaps' = mishaps BY <1>3 DEF Drop
  <2>4. QED BY <1>3, <2>2, <2>3 DEF Written, OneWriter, Fresh
<1>4. QED BY <1>2, <1>3 DEF Written

\* Every activity has left its save() when it gets to a label that enters one.
LEMMA SaversStep == TypeOK /\ Uncalled /\ Handover /\ Savers /\ [Next]_vars => Savers'
<1> SUFFICES ASSUME TypeOK /\ Uncalled /\ Handover /\ Savers, [Next]_vars PROVE Savers'
  OBVIOUS
<1> USE DEF TypeOK, Savers, WaiterPc, CollectorPc
<1>1. CASE UNCHANGED vars
  BY <1>1 DEF vars, actors, store
<1>2. ASSUME NEW p \in Process, SaveSnapshot(p) PROVE Savers'
  <2>1. UNCHANGED actors BY <1>2, Snapshot
  <2>2. \A q \in Process : saving[q] = "no" => saving'[q] = "no" BY <1>2 DEF SaveSnapshot
  <2>3. QED BY <2>1, <2>2, ProcessTyped DEF actors
<1>3. ASSUME NEW w \in writes, WriteLands(w) \/ WriteFails(w) PROVE Savers'
  <2>1. \A q \in Process : saving[q] = "no" => saving'[q] = "no" BY <1>3 DEF WriteReturns, WriteLands, WriteFails
  <2>2. QED BY <1>3, <2>1, ProcessTyped DEF WriteReturns, WriteLands, WriteFails, actors
<1>4. ASSUME NEW t \in Task, Start(t) PROVE Savers'
  BY <1>4, ProcessTyped, ProcessesDiffer DEF Start, store, actors
<1>5. ASSUME NEW t \in Task, Spawn(t) PROVE Savers'
  BY <1>5 DEF Spawn, store, Handover, InSave
<1>6. ASSUME NEW t \in Task, Attach(t) PROVE Savers'
  <2>1. \A q \in Process : saving[q] = "no" => saving'[q] = "no" BY <1>6 DEF Attach, Drop
  <2>2. \A u \in Task : collector'[u] \in {collector[u], "aborted"} BY <1>6 DEF Attach
  <2>3. QED BY <1>6, <2>1, <2>2, ProcessTyped DEF Attach
<1>7. ASSUME NEW t \in Task, ForegroundCompleted(t) PROVE Savers'
  BY <1>7 DEF ForegroundCompleted, store, actors
<1>8. ASSUME NEW t \in Task, ForegroundTimeout(t) PROVE Savers'
  BY <1>8 DEF ForegroundTimeout, store, actors
<1>9. ASSUME NEW t \in Task, NEW async_agent \in BOOLEAN, Promote(t, async_agent) PROVE Savers'
  <2>1. CASE status[t] = "absent" BY <1>9, <2>1 DEF Promote
  <2>2. CASE status[t] # "absent"
    <3>1. waiter'[t] \in {"announce", "promoted"} /\ \A u \in Task : u # t => waiter'[u] = waiter[u]
      BY <1>9, <2>2 DEF Promote
    <3>2. \A q \in Process : q # Waiter(t) => saving'[q] = saving[q] BY <1>9, <2>2 DEF Promote
    <3>3. UNCHANGED <<collector, cancelling>> BY <1>9 DEF Promote
    <3>4. \A u \in Task : u # t => saving'[Waiter(u)] = saving[Waiter(u)]
      BY <3>2, ProcessTyped, ProcessesDiffer
    <3>5. \A u \in Task : saving'[Collector(u)] = saving[Collector(u)]
      BY <3>2, ProcessTyped, ProcessesDiffer
    <3>6. \A c \in Canceller : saving'[Cancelling(c)] = saving[Cancelling(c)]
      BY <3>2, ProcessTyped, ProcessesDiffer
    <3>7. QED BY <3>1, <3>3, <3>4, <3>5, <3>6
  <2>3. QED BY <2>1, <2>2
<1>10. ASSUME NEW t \in Task, PromoteReturn(t) PROVE Savers'
  BY <1>10 DEF PromoteReturn, store, actors
<1>11. ASSUME NEW t \in Task, DropWaiter(t) PROVE Savers'
  <2>1. \A q \in Process : saving[q] = "no" => saving'[q] = "no" BY <1>11 DEF DropWaiter, Drop
  <2>2. QED BY <1>11, <2>1, ProcessTyped DEF DropWaiter
<1>12. ASSUME NEW t \in Task, Answer(t) PROVE Savers'
  BY <1>12 DEF Answer, store, actors
<1>13. ASSUME NEW t \in Task, FinishRemove(t) PROVE Savers'
  BY <1>13 DEF FinishRemove, store, actors
<1>14. ASSUME NEW t \in Task, FinishRecord(t) PROVE Savers'
  <2>1. CASE AlreadyOver(t) BY <1>14, <2>1 DEF FinishRecord
  <2>2. CASE ~AlreadyOver(t)
    <3>1. collector'[t] \in {"announce", "recorded"} /\ \A u \in Task : u # t => collector'[u] = collector[u]
      BY <1>14, <2>2 DEF FinishRecord
    <3>2. \A q \in Process : q # Collector(t) => saving'[q] = saving[q] BY <1>14, <2>2 DEF FinishRecord
    <3>3. UNCHANGED <<waiter, cancelling>> BY <1>14 DEF FinishRecord
    <3>4. QED BY <3>1, <3>2, <3>3, ProcessTyped, ProcessesDiffer, SMTT(30)
  <2>3. QED BY <2>1, <2>2
<1>15. ASSUME NEW t \in Task, FinishReturn(t) PROVE Savers'
  BY <1>15 DEF FinishReturn, store, actors
<1>16. ASSUME NEW c \in Canceller, CancelAll(c) PROVE Savers'
  BY <1>16 DEF CancelAll, store, Call
<1>17. ASSUME NEW c \in Canceller, NEW t \in Task, CancelOne(c, t) PROVE Savers'
  BY <1>17 DEF CancelOne, store, Call
<1>18. ASSUME NEW c \in Canceller, NEW t \in Task, CancelRemove(c, t) PROVE Savers'
  <2>1. \A q \in Process : saving[q] = "no" => saving'[q] = "no" BY <1>18 DEF CancelRemove, Drop
  <2>2. \A u \in Task : collector'[u] \in {collector[u], "aborted"} BY <1>18 DEF CancelRemove
  <2>3. saving[Cancelling(c)] = "no" BY <1>18, ProcessTyped DEF CancelRemove, InSave
  <2>4. \A d \in Canceller : d # c => cancelling'[d] = cancelling[d] BY <1>18 DEF CancelRemove
  <2>5. waiter' = waiter BY <1>18 DEF CancelRemove
  <2>6. \A u \in Task : waiter'[u] \in {"unborn", "select", "promote"} => saving'[Waiter(u)] = "no"
    BY <2>1, <2>5, ProcessTyped
  <2>7. \A u \in Task :
          collector'[u] \in {"none", "exec", "finish", "record"} => saving'[Collector(u)] = "no"
    <3>1. SUFFICES ASSUME NEW u \in Task, collector'[u] \in {"none", "exec", "finish", "record"}
                   PROVE  saving'[Collector(u)] = "no"
      OBVIOUS
    <3>2. collector'[u] = collector[u] BY <2>2, <3>1
    <3>3. saving[Collector(u)] = "no" BY <3>1, <3>2
    <3>4. QED BY <2>1, <3>3, ProcessTyped
  <2>8. \A d \in Canceller : cancelling'[d].current # NoTask => saving'[Cancelling(d)] = "no"
    <3>1. \A d \in Canceller : cancelling'[d].current # NoTask => saving[Cancelling(d)] = "no"
      BY <2>3, <2>4
    <3>2. QED BY <2>1, <3>1, ProcessTyped
  <2>9. QED BY <2>6, <2>7, <2>8
<1>19. ASSUME NEW c \in Canceller, CancelRecord(c) PROVE Savers'
  <2>1. \A q \in Process : q # Cancelling(c) => saving'[q] = saving[q] BY <1>19 DEF CancelRecord
  <2>2. cancelling'[c].current = NoTask /\ \A d \in Canceller : d # c => cancelling'[d] = cancelling[d]
    BY <1>19 DEF CancelRecord, CallState
  <2>3. UNCHANGED <<waiter, collector>> BY <1>19 DEF CancelRecord
  <2>4. \A t \in Task : saving'[Waiter(t)] = saving[Waiter(t)] /\ saving'[Collector(t)] = saving[Collector(t)]
    BY <2>1, ProcessTyped, ProcessesDiffer
  <2>5. \A d \in Canceller : d # c => saving'[Cancelling(d)] = saving[Cancelling(d)]
    BY <2>1, ProcessTyped, ProcessesDiffer
  <2>6. QED BY <2>2, <2>3, <2>4, <2>5
<1>20. ASSUME NEW t \in Task, TakeClaim(t) PROVE Savers'
  BY <1>20 DEF TakeClaim, store, actors
<1>21. CASE Restart
  BY <1>21, ProcessTyped DEF Restart
<1>22. QED
  BY <1>1, <1>2, <1>3, <1>4, <1>5, <1>6, <1>7, <1>8, <1>9, <1>10, <1>11, <1>12, <1>13, <1>14, <1>15, <1>16, <1>17, <1>18, <1>19, <1>20, <1>21
     DEF Next, SaveStep, WriteStep, WaiterStep, CollectorStep, CancelStep, ClaimCompletion, ClaimPending

\* Every change of a status queues a save, and every save that is not dropped writes
\* its snapshot.
LEMMA WrittenStep == TypeOK /\ Savers /\ Written /\ [Next]_vars => Written'
<1> SUFFICES ASSUME TypeOK /\ Savers /\ Written, [Next]_vars PROVE Written'
  OBVIOUS
<1> USE DEF TypeOK
<1>1. CASE UNCHANGED vars
  BY <1>1, WrittenUntouched DEF vars, store
<1>2. ASSUME NEW p \in Process, SaveSnapshot(p) PROVE Written'
  <2>1. CASE "dropped" \in mishaps BY <1>2, <2>1 DEF SaveSnapshot, Written
  <2>2. CASE OneWriter
    <3> DEFINE w == [by |-> p, image |-> PrunedImage(status, notify, delivered, finished)]
    <3>1. writes = {} /\ \A q \in Process : saving[q] # "writing"
      BY <1>2, <2>2 DEF SaveSnapshot, PersistLockFree, OneWriter
    <3>2. writes' = {w} /\ status' = w.image.status BY <1>2, <3>1 DEF SaveSnapshot, LoadStore
    <3>3. saving'[p] = "writing" /\ \A q \in Process : q # p => saving'[q] # "writing"
      BY <1>2, <3>1 DEF SaveSnapshot
    <3>4. w.by = p OBVIOUS
    <3> HIDE DEF w
    <3>5. OneWriter' BY <3>2, <3>3, <3>4 DEF OneWriter
    <3>6. Fresh' BY <3>2 DEF Fresh
    <3>7. QED BY <3>5, <3>6 DEF Written
  <2>3. QED BY <2>1, <2>2 DEF Written
<1>3. ASSUME NEW w \in writes, WriteLands(w) \/ WriteFails(w) PROVE Written'
  <2>1. CASE "dropped" \in mishaps BY <1>3, <2>1 DEF WriteReturns, WriteLands, WriteFails, Written
  <2>2. CASE OneWriter /\ Fresh
    <3>1. writes = {w} /\ w.by \in Process BY <2>2 DEF OneWriter
    <3>2. /\ writes' = {} /\ status' = status
          /\ disk' = w.image \/ "failed" \in mishaps'
      BY <1>3, <3>1 DEF WriteReturns, WriteLands, WriteFails, store
    <3>3. saving'[w.by] = "no" /\ \A q \in Process : q # w.by => saving'[q] = saving[q] /\ saving[q] # "writing"
      BY <1>3, <2>2, <3>1 DEF WriteReturns, WriteLands, WriteFails, OneWriter
    <3>4. OneWriter' BY <3>1, <3>2, <3>3 DEF OneWriter
    <3>5. saving[w.by] = "writing" BY <2>2 DEF OneWriter
    <3>6. (\A q \in Process : saving'[q] # "queued") => \A q \in Process : saving[q] # "queued"
      BY <3>3, <3>5
    <3>7. Fresh' BY <2>2, <3>1, <3>2, <3>6 DEF Fresh
    <3>8. QED BY <3>4, <3>7 DEF Written
  <2>3. QED BY <2>1, <2>2 DEF Written
<1>4. ASSUME NEW t \in Task, Start(t) PROVE Written'
  BY <1>4, WrittenQueued, ProcessTyped DEF Start, Savers
<1>5. ASSUME NEW t \in Task, Spawn(t) PROVE Written'
  BY <1>5, WrittenUntouched DEF Spawn, store, actors
<1>6. ASSUME NEW t \in Task, Attach(t) PROVE Written'
  <2>1. CASE running[t] # "none" BY <1>6, <2>1, WrittenUntouched DEF Attach, store
  <2>2. CASE running[t] = "none" BY <1>6, <2>2, WrittenDropped, ProcessTyped DEF Attach, store
  <2>3. QED BY <2>1, <2>2
<1>7. ASSUME NEW t \in Task, ForegroundCompleted(t) PROVE Written'
  BY <1>7, WrittenUntouched DEF ForegroundCompleted, store, actors
<1>8. ASSUME NEW t \in Task, ForegroundTimeout(t) PROVE Written'
  BY <1>8, WrittenUntouched DEF ForegroundTimeout, store, actors
<1>9. ASSUME NEW t \in Task, NEW async_agent \in BOOLEAN, Promote(t, async_agent) PROVE Written'
  <2>1. CASE status[t] = "absent" BY <1>9, <2>1, WrittenUntouched DEF Promote
  <2>2. CASE status[t] # "absent" BY <1>9, <2>2, WrittenQueued, ProcessTyped DEF Promote, Savers
  <2>3. QED BY <2>1, <2>2
<1>10. ASSUME NEW t \in Task, PromoteReturn(t) PROVE Written'
  BY <1>10, WrittenUntouched DEF PromoteReturn, store, actors
<1>11. ASSUME NEW t \in Task, DropWaiter(t) PROVE Written'
  BY <1>11, WrittenDropped, ProcessTyped DEF DropWaiter, store
<1>12. ASSUME NEW t \in Task, Answer(t) PROVE Written'
  BY <1>12, WrittenUntouched DEF Answer, store, actors
<1>13. ASSUME NEW t \in Task, FinishRemove(t) PROVE Written'
  BY <1>13, WrittenUntouched DEF FinishRemove, store, actors
<1>14. ASSUME NEW t \in Task, FinishRecord(t) PROVE Written'
  <2>1. CASE AlreadyOver(t) BY <1>14, <2>1, WrittenUntouched DEF FinishRecord
  <2>2. CASE ~AlreadyOver(t) BY <1>14, <2>2, WrittenQueued, ProcessTyped DEF FinishRecord, Savers
  <2>3. QED BY <2>1, <2>2
<1>15. ASSUME NEW t \in Task, FinishReturn(t) PROVE Written'
  BY <1>15, WrittenUntouched DEF FinishReturn, store, actors
<1>16. ASSUME NEW c \in Canceller, CancelAll(c) PROVE Written'
  BY <1>16, WrittenUntouched DEF CancelAll, store, actors
<1>17. ASSUME NEW c \in Canceller, NEW t \in Task, CancelOne(c, t) PROVE Written'
  BY <1>17, WrittenUntouched DEF CancelOne, store, actors
<1>18. ASSUME NEW c \in Canceller, NEW t \in Task, CancelRemove(c, t) PROVE Written'
  <2>1. CASE Abortable(t) BY <1>18, <2>1, WrittenDropped, ProcessTyped DEF CancelRemove, store
  <2>2. CASE ~Abortable(t) BY <1>18, <2>2, WrittenUntouched DEF CancelRemove, store
  <2>3. QED BY <2>1, <2>2
<1>19. ASSUME NEW c \in Canceller, CancelRecord(c) PROVE Written'
  <2> DEFINE t == cancelling[c].current
  <2>1. CASE ~CancelApplies(t) BY <1>19, <2>1, WrittenUntouched DEF CancelRecord
  <2>2. CASE CancelApplies(t) BY <1>19, <2>2, WrittenQueued, ProcessTyped DEF CancelRecord, Savers
  <2>3. QED BY <2>1, <2>2
<1>20. ASSUME NEW t \in Task, TakeClaim(t) PROVE Written'
  BY <1>20, WrittenUntouched DEF TakeClaim, store, actors
<1>21. CASE Restart
  <2>1. writes' = {} /\ \A p \in Process : saving'[p] = "no" BY <1>21 DEF Restart
  <2>2. PICK order : LoadStore(Loaded(order)) /\ disk' = Loaded(order) BY <1>21 DEF Restart
  <2>3. disk'.status = status' BY <2>2 DEF LoadStore
  <2>4. QED BY <2>1, <2>3 DEF Written, OneWriter, Fresh
<1>22. QED
  BY <1>1, <1>2, <1>3, <1>4, <1>5, <1>6, <1>7, <1>8, <1>9, <1>10, <1>11, <1>12, <1>13, <1>14, <1>15, <1>16, <1>17, <1>18, <1>19, <1>20, <1>21
     DEF Next, SaveStep, WriteStep, WaiterStep, CollectorStep, CancelStep, ClaimCompletion, ClaimPending

------------------------------------------------------------------------------
(* The theorems on owners, announcements and files. *)

\* All that the four theorems below need, proved together.
ManagerInv ==
    /\ UnbornLeavesNoTrace /\ StoresAreSound
    /\ Uncalled /\ Handover /\ Unpromoted /\ Savers /\ Written

\* The invariant is inductive with the types.
LEMMA ManagerInvHolds == Spec => []ManagerInv
<1>1. Init => ManagerInv
  <2> SUFFICES ASSUME Init PROVE ManagerInv
    OBVIOUS
  <2>1. UnbornLeavesNoTrace BY DEF Init, UnbornLeavesNoTrace, Empty
  <2>2. StoresAreSound
    <3>1. Sound(Empty) BY DEF Sound, Empty
    <3>2. InMemory = Empty /\ Stored = {Empty} BY DEF Init, InMemory, Stored, Empty
    <3>3. Lags(Empty) BY DEF Lags, Empty
    <3>4. QED BY <3>1, <3>2, <3>3 DEF StoresAreSound
  <2>3. Uncalled BY DEF Init, Uncalled, NotCalled
  <2>4. Handover BY DEF Init, Handover, Empty
  <2>5. Unpromoted BY DEF Init, Unpromoted
  <2>6. Savers BY ProcessTyped DEF Init, Savers
  <2>7. Written BY DEF Init, Written, OneWriter, Fresh
  <2>8. QED BY <2>1, <2>2, <2>3, <2>4, <2>5, <2>6, <2>7 DEF ManagerInv
<1>2. TypeOK /\ ManagerInv /\ [Next]_vars => ManagerInv'
  BY UnbornStep, StoresStep, UncalledStep, HandoverStep, UnpromotedStep, SaversStep, WrittenStep DEF ManagerInv
<1>3. QED BY <1>1, <1>2, TypeCorrect, PTL DEF Spec

\* For any tasks and cancellers, and restarts at any point: a RUNNING record has
\* somebody who will end it, but for the two orphans the code makes.
THEOREM RunningHasOwnerAlways == Spec => []RunningHasOwner
<1>1. Init => RunningHasOwner BY DEF Init, RunningHasOwner, Empty
<1>2. TypeOK /\ ManagerInv /\ RunningHasOwner /\ [Next]_vars => RunningHasOwner'
  BY OwnerStep DEF ManagerInv
<1>3. QED BY <1>1, <1>2, TypeCorrect, ManagerInvHolds, PTL DEF Spec

\* The flag that promote_to_background sets and the status that finish() sets do
\* not miss each other, for any number of tasks and whoever is dropped or aborted.
THEOREM CompletionIsAnnouncedAlways == Spec => []CompletionIsAnnounced
<1>1. Init => CompletionIsAnnounced BY DEF Init, CompletionIsAnnounced, Empty
<1>2. TypeOK /\ ManagerInv /\ CompletionIsAnnounced /\ [Next]_vars => CompletionIsAnnounced'
  BY AnnouncedStep DEF ManagerInv
<1>3. QED BY <1>1, <1>2, TypeCorrect, ManagerInvHolds, PTL DEF Spec

\* However many saves interleave, and after any number of restarts, a quiet file
\* holds what memory holds unless a future was dropped inside a save().
THEOREM DiskSettlesAlways == Spec => []DiskSettles
<1>1. ManagerInv => DiskSettles BY DEF ManagerInv, Written, Fresh, DiskSettles, Quiet, InSave
<1>2. QED BY <1>1, ManagerInvHolds, PTL

------------------------------------------------------------------------------
(* The manager implements the task board. *)

\* The board sees a task's status, flags and claims, and whether it was started.
LEMMA BoardUntouched ==
    ASSUME UNCHANGED <<status, notify, delivered, claims>>,
           \A t \in Task : waiter'[t] = "unborn" <=> waiter[t] = "unborn"
    PROVE  UNCHANGED Board!board
BY DEF Board!board, phaseBar, toldBar

\* A record that is over ends the task on the board.
LEMMA BoardEnds ==
    ASSUME TypeOK, UnbornLeavesNoTrace, NEW t \in Task, status[t] = "running", NEW outcome \in Final,
           status' = [status EXCEPT ![t] = outcome], UNCHANGED <<waiter, notify, delivered, claims>>
    PROVE  Board!End(t, outcome)
<1>1. status \in [Task -> Status] /\ waiter[t] # "unborn" BY DEF TypeOK, UnbornLeavesNoTrace
<1>2. phaseBar[t] = "running" BY <1>1 DEF phaseBar
<1>3. phaseBar' = [phaseBar EXCEPT ![t] = outcome] BY <1>1 DEF phaseBar, Final
<1>4. UNCHANGED toldBar BY DEF toldBar
<1>5. QED BY <1>2, <1>3, <1>4 DEF Board!End

\* A save forgets what it prunes, all of which is over.
LEMMA BoardForgets ==
    ASSUME TypeOK, UnbornLeavesNoTrace, StoresAreSound, NEW p \in Process, SaveSnapshot(p)
    PROVE  \E tasks \in SUBSET Task : Board!Forget(tasks)
<1> DEFINE gone == Pruned(finished)
<1>1. gone \subseteq Task /\ \A t \in gone : status[t] \in Final
  <2>1. \A i \in 1..Len(finished) : finished[i] \in Task /\ status[finished[i]] \in Final
    BY DEF TypeOK, StoresAreSound, Sound, InMemory
  <2>2. Excess(finished) \in 0..Len(finished) BY BoundAssumption DEF TypeOK, Excess
  <2>3. Len(finished) \in Nat BY DEF TypeOK
  <2>4. QED BY <2>1, <2>2, <2>3 DEF Pruned
<1> HIDE DEF gone
<1>2. /\ \A t \in Task : status'[t] = IF t \in gone THEN "absent" ELSE status[t]
      /\ notify' = notify \ gone /\ delivered' = delivered \ gone
      /\ UNCHANGED <<waiter, claims>>
  BY Snapshot DEF gone, actors
<1>3. \A t \in gone : waiter[t] # "unborn" BY <1>1 DEF UnbornLeavesNoTrace, Final
<1>4. \A t \in gone : phaseBar[t] \in Board!Ended BY <1>1, <1>3 DEF phaseBar, Final, Board!Ended
<1>5. phaseBar' = [t \in Task |-> IF t \in gone THEN "gone" ELSE phaseBar[t]]
  BY <1>2, <1>3 DEF phaseBar
<1>6. toldBar' = [t \in Task |-> IF t \in gone THEN Board!Forgotten(t) ELSE toldBar[t]]
  <2>1. \A t \in gone : Board!Forgotten(t) = IF claims[t] > 0 THEN "claimed" ELSE "no"
    BY <1>1 DEF Board!Forgotten, toldBar
  <2>2. QED BY <1>1, <1>2, <2>1 DEF toldBar
<1>7. QED BY <1>1, <1>4, <1>5, <1>6 DEF Board!Forget

\* A restart bars every open claim, and may bring back what a file still had.
LEMMA BoardRestarts ==
    ASSUME TypeOK, UnbornLeavesNoTrace, StoresAreSound, Restart
    PROVE  Board!Restart
<1>1. PICK order \in SetToSeqs({t \in Task : disk.status[t] = "running"}) : LoadStore(Loaded(order))
  BY DEF Restart
<1>2. Loaded(order) \in Image BY LoadedTyped
<1>3. /\ status' \in [Task -> Status] /\ notify' \subseteq Task /\ delivered' \subseteq Task
  BY <1>1, <1>2 DEF LoadStore, Image
<1>4. \A t \in Task : status'[t] # "running" /\ (status'[t] = "absent" \/ t \in delivered')
  BY <1>1, LoadedEnds
<1>5. \A t \in Task : status'[t] = "absent" => t \notin notify' /\ t \notin delivered'
  <2>1. Sound(Loaded(order)) BY LoadedSound DEF StoresAreSound, Stored
  <2>2. QED BY <1>1, <2>1 DEF Sound, LoadStore
<1>6. \A t \in Task : \/ status'[t] = "absent"
                      \/ status'[t] = IF disk.status[t] = "running" THEN "cancelled" ELSE disk.status[t]
  <2> DEFINE s == [x \in Task |-> IF disk.status[x] = "running" THEN "cancelled" ELSE disk.status[x]]
  <2>1. status' = PrunedImage(s, disk.notify, DeliveredOnLoad, disk.finished \o order).status
    BY <1>1 DEF LoadStore, Loaded
  <2>2. QED BY <2>1, PrunedStatus
<1>7. \A t \in Task : /\ disk.status[t] \in Status
                      /\ status[t] = "running" => disk.status[t] \in {"absent", "running"}
                      /\ status[t] = "cancelled" => disk.status[t] # "completed"
                      /\ waiter[t] = "unborn" => disk.status[t] = "absent" /\ status[t] = "absent"
  BY DEF TypeOK, Image, StoresAreSound, Stored, Lags, UnbornLeavesNoTrace
<1>8. claims' = claims /\ \A t \in Task : waiter'[t] = "unborn" <=> waiter[t] = "unborn"
  BY DEF Restart
<1>9. \A t \in Task : phaseBar'[t] = IF waiter[t] = "unborn" THEN "new"
                                     ELSE IF status'[t] = "absent" THEN "gone" ELSE status'[t]
  BY <1>8 DEF phaseBar
<1>10. \A t \in Task : status[t] \in Status /\ claims[t] \in Nat BY DEF TypeOK
<1>11. phaseBar' \in [Task -> Board!Phase]
  BY <1>3, <1>4, <1>9 DEF Board!Phase, Board!Ended, Status, phaseBar
<1>12. ASSUME NEW t \in Task PROVE phaseBar'[t] \in Board!AfterRestart(phaseBar[t])
  <2>1. CASE waiter[t] = "unborn" BY <1>9, <2>1 DEF Board!AfterRestart, phaseBar
  <2>2. CASE waiter[t] # "unborn" /\ status[t] \in {"running", "cancelled"}
    <3>1. phaseBar[t] = status[t] BY <2>2 DEF phaseBar
    <3>2. phaseBar'[t] \in {"cancelled", "gone"} BY <1>3, <1>4, <1>6, <1>7, <1>9, <2>2 DEF Status
    <3>3. QED BY <2>2, <3>1, <3>2 DEF Board!AfterRestart
  <2>3. CASE waiter[t] # "unborn" /\ status[t] \in {"absent", "completed"}
    <3>1. phaseBar[t] \in {"gone", "completed"} BY <2>3 DEF phaseBar
    <3>2. phaseBar'[t] \in {"completed", "cancelled", "gone"} BY <1>3, <1>4, <1>9, <2>3 DEF Status
    <3>3. QED BY <3>1, <3>2 DEF Board!AfterRestart
  <2>4. QED BY <1>10, <2>1, <2>2, <2>3 DEF Status
<1>13. ASSUME NEW t \in Task
       PROVE  toldBar'[t] = IF phaseBar'[t] \in Board!Ended /\ toldBar[t] # "claimed" THEN "barred"
                            ELSE Board!Forgotten(t)
  <2>1. toldBar[t] = "claimed" <=> claims[t] > 0 BY DEF toldBar
  <2>2. toldBar'[t] = IF claims[t] > 0 THEN "claimed" ELSE IF t \in delivered' THEN "barred"
                      ELSE IF t \in notify' THEN "wanted" ELSE "no"
    BY <1>8 DEF toldBar
  <2>3. phaseBar'[t] \in Board!Ended <=> status'[t] # "absent"
    BY <1>3, <1>4, <1>6, <1>7, <1>9 DEF Board!Ended, Status
  <2>4. QED BY <1>4, <1>5, <2>1, <2>2, <2>3 DEF Board!Forgotten
<1>14. toldBar' = [t \in Task |-> IF phaseBar'[t] \in Board!Ended /\ toldBar[t] # "claimed" THEN "barred"
                                  ELSE Board!Forgotten(t)]
  BY <1>13 DEF toldBar
<1>15. QED BY <1>11, <1>12, <1>14 DEF Board!Restart

\* Every step of the manager is a step of the board or leaves it as it is.
LEMMA BoardStep == TypeOK /\ UnbornLeavesNoTrace /\ ClaimIsBarred /\ StoresAreSound /\ [Next]_vars => [Board!Next]_(Board!board)
<1> SUFFICES ASSUME TypeOK /\ UnbornLeavesNoTrace /\ ClaimIsBarred /\ StoresAreSound, [Next]_vars PROVE [Board!Next]_(Board!board)
  OBVIOUS
<1> USE DEF TypeOK
<1>1. CASE UNCHANGED vars
  BY <1>1, BoardUntouched DEF vars, store, actors
<1>2. ASSUME NEW p \in Process, SaveSnapshot(p) PROVE [Board!Next]_(Board!board)
  BY <1>2, BoardForgets DEF Board!Next
<1>3. ASSUME NEW w \in writes, WriteLands(w) \/ WriteFails(w) PROVE [Board!Next]_(Board!board)
  BY <1>3, BoardUntouched DEF WriteReturns, WriteLands, WriteFails, store, actors
<1>4. ASSUME NEW t \in Task, Start(t) PROVE [Board!Next]_(Board!board)
  <2>1. phaseBar[t] = "new" BY <1>4 DEF Start, phaseBar
  <2>2. phaseBar' = [phaseBar EXCEPT ![t] = "running"] BY <1>4 DEF Start, phaseBar
  <2>3. UNCHANGED toldBar BY <1>4 DEF Start, toldBar
  <2>4. QED BY <2>1, <2>2, <2>3 DEF Board!Next, Board!Begin
<1>5. ASSUME NEW t \in Task, Spawn(t) PROVE [Board!Next]_(Board!board)
  BY <1>5, BoardUntouched DEF Spawn, store, actors
<1>6. ASSUME NEW t \in Task, Attach(t) PROVE [Board!Next]_(Board!board)
  BY <1>6, BoardUntouched DEF Attach, store, actors
<1>7. ASSUME NEW t \in Task, ForegroundCompleted(t) PROVE [Board!Next]_(Board!board)
  BY <1>7, BoardUntouched DEF ForegroundCompleted, store, actors
<1>8. ASSUME NEW t \in Task, ForegroundTimeout(t) PROVE [Board!Next]_(Board!board)
  BY <1>8, BoardUntouched DEF ForegroundTimeout, store, actors
<1>9. ASSUME NEW t \in Task, NEW async_agent \in BOOLEAN, Promote(t, async_agent) PROVE [Board!Next]_(Board!board)
  <2>1. CASE status[t] = "absent" \/ ~async_agent \/ t \in notify
    <3>1. UNCHANGED <<status, notify, delivered, claims>>
      <4>1. notify' \in {notify, notify \cup {t}} /\ (t \notin notify => notify' = notify)
        BY <1>9, <2>1 DEF Promote
      <4>2. t \in notify => notify \cup {t} = notify OBVIOUS
      <4>3. UNCHANGED <<status, delivered, claims>> BY <1>9 DEF Promote
      <4>4. QED BY <4>1, <4>2, <4>3
    <3>2. waiter[t] = "promote" /\ waiter'[t] # "unborn" /\ \A u \in Task : u # t => waiter'[u] = waiter[u]
      BY <1>9 DEF Promote
    <3>3. QED BY <3>1, <3>2, BoardUntouched
  <2>2. CASE status[t] # "absent" /\ async_agent /\ t \notin notify
    <3>1. /\ notify' = notify \cup {t} /\ waiter[t] = "promote"
          /\ waiter'[t] # "unborn" /\ \A u \in Task : u # t => waiter'[u] = waiter[u]
          /\ UNCHANGED <<status, delivered, claims>>
      BY <1>9, <2>2 DEF Promote
    <3>2. UNCHANGED phaseBar BY <3>1 DEF phaseBar
    <3>3. \A u \in Task : u # t => toldBar'[u] = toldBar[u] BY <3>1 DEF toldBar
    <3>4. CASE toldBar[t] = "no"
      <4>1. toldBar'[t] = "wanted" BY <3>1, <3>4 DEF toldBar
      <4>2. toldBar' = [toldBar EXCEPT ![t] = "wanted"] BY <3>3, <4>1 DEF toldBar
      <4>3. phaseBar[t] \in {"running"} \cup Board!Ended BY <2>2, <3>1 DEF phaseBar, Status, Board!Ended
      <4>4. QED BY <3>2, <3>4, <4>2, <4>3 DEF Board!Next, Board!Want
    <3>5. CASE toldBar[t] # "no"
      <4>1. toldBar'[t] = toldBar[t] BY <2>2, <3>1, <3>5 DEF toldBar
      <4>2. UNCHANGED toldBar BY <3>3, <4>1 DEF toldBar
      <4>3. QED BY <3>2, <4>2 DEF Board!board
    <3>6. QED BY <3>4, <3>5
  <2>3. QED BY <2>1, <2>2
<1>10. ASSUME NEW t \in Task, PromoteReturn(t) PROVE [Board!Next]_(Board!board)
  BY <1>10, BoardUntouched DEF PromoteReturn, store, actors
<1>11. ASSUME NEW t \in Task, DropWaiter(t) PROVE [Board!Next]_(Board!board)
  BY <1>11, BoardUntouched DEF DropWaiter, store, actors
<1>12. ASSUME NEW t \in Task, Answer(t) PROVE [Board!Next]_(Board!board)
  BY <1>12, BoardUntouched DEF Answer, store, actors
<1>13. ASSUME NEW t \in Task, FinishRemove(t) PROVE [Board!Next]_(Board!board)
  BY <1>13, BoardUntouched DEF FinishRemove, store, actors
<1>14. ASSUME NEW t \in Task, FinishRecord(t) PROVE [Board!Next]_(Board!board)
  <2>1. CASE AlreadyOver(t) BY <1>14, <2>1, BoardUntouched DEF FinishRecord
  <2>2. CASE ~AlreadyOver(t)
    <3>1. /\ status[t] = "running" /\ status' = [status EXCEPT ![t] = "completed"]
          /\ UNCHANGED <<waiter, notify, delivered, claims>>
      BY <1>14, <2>2 DEF FinishRecord, AlreadyOver, FinishStatus
    <3>2. Board!End(t, "completed") BY <3>1, BoardEnds DEF Final
    <3>3. QED BY <3>2 DEF Board!Next, Board!Ended
  <2>3. QED BY <2>1, <2>2
<1>15. ASSUME NEW t \in Task, FinishReturn(t) PROVE [Board!Next]_(Board!board)
  BY <1>15, BoardUntouched DEF FinishReturn, store, actors
<1>16. ASSUME NEW c \in Canceller, CancelAll(c) PROVE [Board!Next]_(Board!board)
  BY <1>16, BoardUntouched DEF CancelAll, store, actors
<1>17. ASSUME NEW c \in Canceller, NEW t \in Task, CancelOne(c, t) PROVE [Board!Next]_(Board!board)
  BY <1>17, BoardUntouched DEF CancelOne, store, actors
<1>18. ASSUME NEW c \in Canceller, NEW t \in Task, CancelRemove(c, t) PROVE [Board!Next]_(Board!board)
  BY <1>18, BoardUntouched DEF CancelRemove, store, actors
<1>19. ASSUME NEW c \in Canceller, CancelRecord(c) PROVE [Board!Next]_(Board!board)
  <2> DEFINE t == cancelling[c].current
  <2>1. CASE ~CancelApplies(t) BY <1>19, <2>1, BoardUntouched DEF CancelRecord
  <2>2. CASE CancelApplies(t)
    <3>1. /\ status[t] = "running" /\ status' = [status EXCEPT ![t] = "cancelled"]
          /\ UNCHANGED <<waiter, notify, delivered, claims>>
      BY <1>19, <2>2 DEF CancelRecord, CancelApplies
    <3>2. t \in Task BY <1>19 DEF CancelRecord, CallState
    <3> HIDE DEF t
    <3>3. Board!End(t, "cancelled") BY <3>1, <3>2, BoardEnds DEF Final
    <3>4. QED BY <3>2, <3>3 DEF Board!Next, Board!Ended
  <2>3. QED BY <2>1, <2>2
<1>20. ASSUME NEW t \in Task, TakeClaim(t) PROVE [Board!Next]_(Board!board)
  <2>1. /\ status[t] \in Final /\ t \in notify \ delivered /\ delivered' = delivered \cup {t}
        /\ claims' = [claims EXCEPT ![t] = @ + 1] /\ UNCHANGED <<status, notify, waiter>>
    BY <1>20 DEF TakeClaim, Claimable, actors
  <2>2. claims[t] = 0 /\ waiter[t] # "unborn"
    BY <2>1 DEF ClaimIsBarred, UnbornLeavesNoTrace, Final
  <2>3. phaseBar[t] \in Board!Ended /\ UNCHANGED phaseBar BY <2>1, <2>2 DEF phaseBar, Board!Ended, Final
  <2>4. toldBar[t] = "wanted" BY <2>1, <2>2 DEF toldBar
  <2>5. claims'[t] = 1 /\ \A u \in Task : u # t => claims'[u] = claims[u] BY <2>1, <2>2
  <2>6. toldBar'[t] = "claimed" /\ \A u \in Task : u # t => toldBar'[u] = toldBar[u]
    BY <2>1, <2>5 DEF toldBar
  <2>7. toldBar' = [toldBar EXCEPT ![t] = "claimed"] BY <2>6 DEF toldBar
  <2>8. QED BY <2>3, <2>4, <2>7 DEF Board!Next, Board!Claim
<1>21. CASE Restart
  BY <1>21, BoardRestarts DEF Board!Next
<1>22. QED
  BY <1>1, <1>2, <1>3, <1>4, <1>5, <1>6, <1>7, <1>8, <1>9, <1>10, <1>11, <1>12, <1>13, <1>14, <1>15, <1>16, <1>17, <1>18, <1>19, <1>20, <1>21
     DEF Next, SaveStep, WriteStep, WaiterStep, CollectorStep, CancelStep, ClaimCompletion, ClaimPending

\* With any tasks, cancellers, restarts and limit, everything the locks, saves and
\* futures of the manager do is a step of the task board: a task runs and ends
\* once, only what is over is forgotten, and no claim is open after a restart.
THEOREM ManagerImplementsTaskBoard == Spec => ImplementsTaskBoard
<1>1. Init => Board!Init BY DEF Init, Board!Init, phaseBar, toldBar
<1>2. TypeOK /\ UnbornLeavesNoTrace /\ ClaimIsBarred /\ StoresAreSound /\ [Next]_vars
          => [Board!Next]_(Board!board)
  BY BoardStep
<1>3. Init => ClaimIsBarred BY DEF Init, ClaimIsBarred
<1>4. TypeOK /\ UnbornLeavesNoTrace /\ ClaimIsBarred /\ [Next]_vars => ClaimIsBarred'
  BY ClaimStep
<1>5. ManagerInv => UnbornLeavesNoTrace /\ StoresAreSound BY DEF ManagerInv
<1>6. QED BY <1>1, <1>2, <1>3, <1>4, <1>5, TypeCorrect, ManagerInvHolds, PTL
      DEF Spec, ImplementsTaskBoard, Board!Spec

=============================================================================
