------------------------------ MODULE ToolTasks ------------------------------
(***************************************************************************)
(* The tool-task manager of one thread (crates/bot-core/src/tool_tasks.rs) *)
(* together with the three asynchronous activities that crates/bot-core/   *)
(* src/agent.rs starts for every tool call:                                *)
(*                                                                         *)
(*   waiter     the foreground future: registers the task, spawns the      *)
(*              collector, then selects between the collector's answer     *)
(*              and the foreground timeout;                                *)
(*   collector  the spawned task that drains the tool, answers the waiter  *)
(*              and then calls finish();                                   *)
(*   attach     the second spawned task, that hands the collector's abort  *)
(*              handle to the manager.                                     *)
(*                                                                         *)
(* A canceller is one call of cancel() or cancel_all_running().  Every     *)
(* section the code runs under one mutex is one step; a save() is two: the  *)
(* snapshot under both locks, and the end of the write in the blocking     *)
(* pool, which lands on disk or fails and releases persist_lock.  Dropping *)
(* a future in the middle of a save leaves its write in flight.            *)
(***************************************************************************)
EXTENDS Naturals, Sequences, FiniteSets, SequencesExt

CONSTANTS
    Task,           \* task ids the environment may start on this thread
    ImmediateTask,  \* tasks whose tool is finished at its first poll
    DroppedTask,    \* tasks whose batch of tool calls may be dropped
    Canceller,      \* the calls of cancel / cancel_all_running, and so their bound
    NoTask,         \* "this canceller is between two tasks"
    MaxCompleted,   \* MAX_COMPLETED_TASKS, 100 in the code
    MaxRestarts     \* bound: how often the process is restarted

ASSUME TaskAssumption ==
    /\ IsFiniteSet(Task) /\ NoTask \notin Task
    /\ ImmediateTask \subseteq Task /\ DroppedTask \subseteq Task
ASSUME BoundAssumption == MaxCompleted \in Nat \ {0} /\ MaxRestarts \in Nat

VARIABLES
    status,     \* ToolTaskRecord.status; "absent" when the store has no record
    notify,     \* tasks whose record has notify_on_finish = true
    delivered,  \* ... notification_delivered = true
    finished,   \* tasks with a final record, oldest completed_at first
    running,    \* PerThreadManager.running: no entry, no abort handle yet, abortable
    waiter, collector, attach,  \* where the three activities of a task are
    answered,   \* tasks whose collector sent on the oneshot completed_tx
    cancelling, \* per canceller: made yet, the ids still to do, the one in progress
    saving,     \* per process: outside save(), waiting for persist_lock, or writing
    writes,     \* store images handed to the blocking pool and not yet renamed
    disk,       \* the image in the thread's JSON file
    announced,  \* tasks whose record was sent on completed_tx since the last start
    claims,     \* history: how often a completion notification was claimed
    mishaps,    \* history: "dropped" when a save() was dropped before its write had
                \* ended, "failed" when a write failed and none has landed since
    restarts    \* history: process restarts so far

store == <<status, notify, delivered, finished>>
actors == <<running, waiter, collector, attach, answered, cancelling>>
vars == <<store, actors, saving, writes, disk, announced, claims, mishaps, restarts>>

Status == {"absent", "running", "completed", "cancelled"}
    \* "completed" stands for the two outcomes of finish(), completed and failed
Final == {"completed", "cancelled"}

Process == [kind : {"waiter", "collector"}, task : Task] \cup [kind : {"cancel"}, id : Canceller]
Waiter(t) == [kind |-> "waiter", task |-> t]
Collector(t) == [kind |-> "collector", task |-> t]
Cancelling(c) == [kind |-> "cancel", id |-> c]

Image == [status : [Task -> Status], notify : SUBSET Task, delivered : SUBSET Task,
          finished : Seq(Task)]

CallState == [called : BOOLEAN, todo : SUBSET Task, current : Task \cup {NoTask}]
WaiterPc == {"unborn", "start", "select", "promote", "promoted", "announce",
             "returned", "dropped"}
CollectorPc == {"none", "exec", "finish", "record", "recorded", "announce", "done", "aborted"}

TypeOK ==
    /\ status \in [Task -> Status]
    /\ notify \subseteq Task /\ delivered \subseteq Task
    /\ finished \in Seq(Task)
    /\ running \in [Task -> {"none", "token", "abortable"}]
    /\ waiter \in [Task -> WaiterPc]
    /\ collector \in [Task -> CollectorPc]
    /\ attach \in [Task -> {"none", "todo", "done", "late"}]
    /\ answered \subseteq Task
    /\ cancelling \in [Canceller -> CallState]
    /\ saving \in [Process -> {"no", "queued", "writing"}]
    /\ writes \subseteq [by : Process, image : Image]
    /\ disk \in Image
    /\ announced \subseteq Task
    /\ claims \in [Task -> Nat]
    /\ mishaps \subseteq {"dropped", "failed"}
    /\ restarts \in 0..MaxRestarts

Empty == [status |-> [t \in Task |-> "absent"], notify |-> {}, delivered |-> {}, finished |-> <<>>]
Call(ids) == [called |-> TRUE, todo |-> ids, current |-> NoTask]
NotCalled == [called |-> FALSE, todo |-> {}, current |-> NoTask]

Init ==
    /\ status = Empty.status /\ notify = {} /\ delivered = {} /\ finished = <<>>
    /\ running = [t \in Task |-> "none"]
    /\ waiter = [t \in Task |-> "unborn"]
    /\ collector = [t \in Task |-> "none"]
    /\ attach = [t \in Task |-> "none"]
    /\ answered = {}
    /\ cancelling = [c \in Canceller |-> NotCalled]
    /\ saving = [p \in Process |-> "no"]
    /\ writes = {} /\ disk = Empty
    /\ announced = {} /\ claims = [t \in Task |-> 0]
    /\ mishaps = {} /\ restarts = 0

------------------------------------------------------------------------------
(* Saving.  prune_completed_tasks drops the oldest final records beyond the  *)
(* limit, and is part of every save and of every load.                       *)

Excess(q) == IF Len(q) > MaxCompleted THEN Len(q) - MaxCompleted ELSE 0
Kept(q) == SubSeq(q, Excess(q) + 1, Len(q))
Pruned(q) == {q[i] : i \in 1..Excess(q)}

PrunedImage(s, n, d, q) ==
    [status |-> [t \in Task |-> IF t \in Pruned(q) THEN "absent" ELSE s[t]],
     notify |-> n \ Pruned(q), delivered |-> d \ Pruned(q), finished |-> Kept(q)]

LoadStore(image) ==
    /\ status' = image.status
    /\ notify' = image.notify
    /\ delivered' = image.delivered
    /\ finished' = image.finished

InSave(p) == saving[p] # "no"
PersistLockFree_NoLock == TRUE
PersistLockFree == \A p \in Process : saving[p] # "writing"

SaveSnapshot(p) ==
    /\ saving[p] = "queued" /\ PersistLockFree
    /\ LET image == PrunedImage(status, notify, delivered, finished)
       IN  LoadStore(image) /\ writes' = writes \cup {[by |-> p, image |-> image]}
    /\ saving' = [saving EXCEPT ![p] = "writing"]
    /\ UNCHANGED <<actors, disk, announced, claims, mishaps, restarts>>

WriteInFlight(p) == \E w \in writes : w.by = p

\* The blocking write returns, and the save() that waits for it, if its future
\* still exists, drops persist_lock.
WriteReturns(w) ==
    /\ writes' = writes \ {w}
    /\ saving' = [saving EXCEPT ![w.by] = "no"]
    /\ UNCHANGED <<store, actors, announced, claims, restarts>>

\* save_store_raw: the temporary file is renamed over the thread's file.
WriteLands(w) ==
    /\ WriteReturns(w)
    /\ disk' = w.image
    /\ mishaps' = mishaps \ {"failed"}

\* The directory, the temporary file or the rename fails: the file stays as it was.
\* Every caller of save() drops the error and goes on as after a write that landed.
WriteFails(w) ==
    /\ WriteReturns(w)
    /\ mishaps' = mishaps \cup {"failed"}
    /\ UNCHANGED disk

\* Dropping the future of process p releases persist_lock at once; a write it
\* already gave to the blocking pool goes on.
Drop(p) ==
    /\ saving' = [saving EXCEPT ![p] = "no"]
    /\ mishaps' = IF saving[p] = "queued" \/ WriteInFlight(p)
                   THEN mishaps \cup {"dropped"} ELSE mishaps

------------------------------------------------------------------------------
(* The waiter. *)

\* start_inner: the running entry, then the record, then save().
Start(t) ==
    /\ waiter[t] = "unborn"
    /\ waiter' = [waiter EXCEPT ![t] = "start"]
    /\ running' = [running EXCEPT ![t] = "token"]
    /\ status' = [status EXCEPT ![t] = "running"]
    /\ saving' = [saving EXCEPT ![Waiter(t)] = "queued"]
    /\ UNCHANGED <<notify, delivered, finished, collector, attach, answered,
                   cancelling, writes, disk, announced, claims, mishaps, restarts>>

\* spawn_tracked_tool_result: both local tasks are queued in this order.
Spawn(t) ==
    /\ waiter[t] = "start" /\ ~InSave(Waiter(t))
    /\ waiter' = [waiter EXCEPT ![t] = "select"]
    /\ collector' = [collector EXCEPT ![t] = "exec"]
    /\ attach' = [attach EXCEPT ![t] = "todo"]
    /\ UNCHANGED <<store, running, answered, cancelling, saving, writes, disk, announced,
                   claims, mishaps, restarts>>

\* attach_abort_handle; it comes late when the running entry has been taken.
Attach(t) ==
    /\ attach[t] = "todo"
    /\ IF running[t] # "none"
       THEN /\ attach' = [attach EXCEPT ![t] = "done"]
            /\ running' = [running EXCEPT ![t] = "abortable"]
            /\ UNCHANGED <<collector, saving, mishaps>>
       ELSE /\ attach' = [attach EXCEPT ![t] = "late"]
            /\ collector' = [collector EXCEPT ![t] = IF @ = "done" THEN @ ELSE "aborted"]
            /\ Drop(Collector(t))
            /\ UNCHANGED running
    /\ UNCHANGED <<store, waiter, answered, cancelling, writes, disk, announced, claims, restarts>>

\* The answer, or the closed oneshot of an aborted collector.
ForegroundCompleted(t) ==
    /\ waiter[t] = "select"
    /\ t \in answered \/ collector[t] = "aborted"
    /\ waiter' = [waiter EXCEPT ![t] = "returned"]
    /\ running' = [running EXCEPT ![t] = "none"]
    /\ UNCHANGED <<store, collector, attach, answered, cancelling, saving, writes, disk,
                   announced, claims, mishaps, restarts>>

\* The select is biased: the timeout is taken only while there is no answer.
ForegroundTimeout(t) ==
    /\ waiter[t] = "select" /\ attach[t] # "todo"
    /\ t \notin answered /\ collector[t] # "aborted"
    /\ waiter' = [waiter EXCEPT ![t] = "promote"]
    /\ UNCHANGED <<store, running, collector, attach, answered, cancelling, saving, writes,
                   disk, announced, claims, mishaps, restarts>>

\* The collector may have finished between the timeout and this section.
MustAnnounce_Never(t) == FALSE
MustAnnounce(t) == status[t] # "running" /\ t \in notify' \ delivered

\* promote_to_background(notify = async_agent), up to its save().
Promote(t, async_agent) ==
    /\ waiter[t] = "promote"
    /\ IF status[t] = "absent"
       THEN /\ waiter' = [waiter EXCEPT ![t] = "returned"]
            /\ UNCHANGED <<notify, saving>>
       ELSE /\ notify' = IF async_agent THEN notify \cup {t} ELSE notify
            /\ saving' = [saving EXCEPT ![Waiter(t)] = "queued"]
            /\ waiter' = [waiter EXCEPT ![t] =
                   IF MustAnnounce(t) THEN "announce" ELSE "promoted"]
    /\ UNCHANGED <<status, delivered, finished, running, collector, attach, answered,
                   cancelling, writes, disk, announced, claims, mishaps, restarts>>

PromoteReturn(t) ==
    /\ waiter[t] \in {"promoted", "announce"} /\ ~InSave(Waiter(t))
    /\ announced' = IF waiter[t] = "announce" THEN announced \cup {t} ELSE announced
    /\ waiter' = [waiter EXCEPT ![t] = "returned"]
    /\ UNCHANGED <<store, running, collector, attach, answered, cancelling, saving, writes,
                   disk, claims, mishaps, restarts>>

\* The run is cancelled, or a denied approval ends its tool batch: the batch's
\* futures are dropped wherever they are.  Their collectors go on.
DropWaiter(t) ==
    /\ t \in DroppedTask
    /\ waiter[t] \in {"start", "select", "promote", "promoted", "announce"}
    /\ waiter' = [waiter EXCEPT ![t] = "dropped"]
    /\ Drop(Waiter(t))
    /\ UNCHANGED <<store, running, collector, attach, answered, cancelling, writes, disk,
                   announced, claims, restarts>>

------------------------------------------------------------------------------
(* The collector. *)

\* The tool is drained.  Unless it never waited, attach has run by then: the
\* executor's queue is first in, first out.
Answer(t) ==
    /\ collector[t] = "exec"
    /\ t \in ImmediateTask \/ attach[t] # "todo"
    /\ collector' = [collector EXCEPT ![t] = "finish"]
    /\ answered' = answered \cup {t}
    /\ UNCHANGED <<store, running, waiter, attach, cancelling, saving, writes, disk, announced,
                   claims, mishaps, restarts>>

FinishRemove(t) ==
    /\ collector[t] = "finish"
    /\ collector' = [collector EXCEPT ![t] = "record"]
    /\ running' = [running EXCEPT ![t] = "none"]
    /\ UNCHANGED <<store, waiter, attach, answered, cancelling, saving, writes, disk, announced,
                   claims, mishaps, restarts>>

AlreadyOver_Missing(t) == status[t] = "absent"
AlreadyOver(t) == status[t] # "running"

FinishStatus == "completed"

\* The decision to notify is taken here and acted upon after the save.
FinishRecord(t) ==
    /\ collector[t] = "record"
    /\ IF AlreadyOver(t)
       THEN /\ collector' = [collector EXCEPT ![t] = "done"]
            /\ UNCHANGED <<status, finished, saving>>
       ELSE /\ status' = [status EXCEPT ![t] = FinishStatus]
            /\ finished' = Append(finished, t)
            /\ saving' = [saving EXCEPT ![Collector(t)] = "queued"]
            /\ collector' = [collector EXCEPT ![t] =
                   IF t \in notify \ delivered THEN "announce" ELSE "recorded"]
    /\ UNCHANGED <<notify, delivered, running, waiter, attach, answered, cancelling,
                   writes, disk, announced, claims, mishaps, restarts>>

FinishReturn(t) ==
    /\ collector[t] \in {"recorded", "announce"} /\ ~InSave(Collector(t))
    /\ announced' = IF collector[t] = "announce" THEN announced \cup {t} ELSE announced
    /\ collector' = [collector EXCEPT ![t] = "done"]
    /\ UNCHANGED <<store, running, waiter, attach, answered, cancelling, saving, writes, disk,
                   claims, mishaps, restarts>>

------------------------------------------------------------------------------
(* Cancellation.  The id of a task is known once start() has returned it;    *)
(* cancel_all_running reads the ids of the RUNNING records of the moment.    *)

CancelOne(c, t) ==
    /\ ~cancelling[c].called /\ collector[t] # "none"
    /\ status[t] # "absent"
    /\ cancelling' = [cancelling EXCEPT ![c] = Call({t})]
    /\ UNCHANGED <<store, running, waiter, collector, attach, answered, saving, writes, disk,
                   announced, claims, mishaps, restarts>>

CancelAll(c) ==
    /\ ~cancelling[c].called
    /\ \E t \in Task : status[t] = "running"
    /\ cancelling' = [cancelling EXCEPT ![c] = Call({t \in Task : status[t] = "running"})]
    /\ UNCHANGED <<store, running, waiter, collector, attach, answered, saving, writes, disk,
                   announced, claims, mishaps, restarts>>

Abortable(t) == running[t] = "abortable" /\ collector[t] \notin {"none", "done"}

CancelRemove(c, t) ==
    /\ t \in cancelling[c].todo /\ cancelling[c].current = NoTask /\ ~InSave(Cancelling(c))
    /\ cancelling' = [cancelling EXCEPT ![c] =
                      [called |-> TRUE, todo |-> @.todo \ {t}, current |-> t]]
    /\ running' = [running EXCEPT ![t] = "none"]
    /\ IF Abortable(t)
       THEN collector' = [collector EXCEPT ![t] = "aborted"] /\ Drop(Collector(t))
       ELSE UNCHANGED <<collector, saving, mishaps>>
    /\ UNCHANGED <<store, waiter, attach, answered, writes, disk, announced, claims, restarts>>

CancelApplies_EntryNeeded(t) == status[t] = "running" /\ running[t] # "none"
CancelApplies(t) == status[t] = "running"

CancelRecord(c) ==
    LET t == cancelling[c].current IN
    /\ t # NoTask
    /\ cancelling' = [cancelling EXCEPT ![c].current = NoTask]
    /\ IF CancelApplies(t)
       THEN /\ status' = [status EXCEPT ![t] = "cancelled"]
            /\ finished' = Append(finished, t)
            /\ saving' = [saving EXCEPT ![Cancelling(c)] = "queued"]
       ELSE UNCHANGED <<status, finished, saving>>
    /\ UNCHANGED <<notify, delivered, running, waiter, collector, attach, answered,
                   writes, disk, announced, claims, mishaps, restarts>>

------------------------------------------------------------------------------
(* Claims by the turn loops, and a restart of the process. *)

Claimable(t) == status[t] \in Final /\ t \in notify \ delivered

TakeClaim(t) ==
    /\ Claimable(t)
    /\ delivered' = delivered \cup {t}
    /\ claims' = [claims EXCEPT ![t] = @ + 1]
    /\ UNCHANGED <<status, notify, finished, actors, saving, writes, disk, announced,
                   mishaps, restarts>>

\* A receiver of the broadcast claims the task it was told of.
ClaimCompletion(t) == t \in announced /\ TakeClaim(t)

\* claim_pending_completion_notification: any task that is owed one.
ClaimPending == \E t \in Task : TakeClaim(t)

DeliveredOnLoad_AsStored == disk.delivered
DeliveredOnLoad == {t \in Task : disk.status[t] # "absent"}

\* normalize_loaded_store on what the file held: RUNNING becomes CANCELLED, all
\* with the same completed_at, and every notification counts as delivered.
Loaded(order) ==
    PrunedImage([t \in Task |-> IF disk.status[t] = "running" THEN "cancelled" ELSE disk.status[t]],
                disk.notify, DeliveredOnLoad,
                disk.finished \o order)

\* The process dies with everything in memory and is started again; a write
\* that had not been renamed by then is lost.
Restart ==
    /\ restarts < MaxRestarts
    /\ restarts' = restarts + 1
    /\ \E order \in SetToSeqs({t \in Task : disk.status[t] = "running"}) :
          LoadStore(Loaded(order)) /\ disk' = Loaded(order)
    /\ running' = [t \in Task |-> "none"]
    /\ waiter' = [t \in Task |-> IF waiter[t] = "unborn" THEN "unborn" ELSE "dropped"]
    /\ collector' = [t \in Task |-> IF collector[t] = "none" THEN "none" ELSE "aborted"]
    /\ attach' = [t \in Task |-> IF attach[t] = "none" THEN "none" ELSE "done"]
    /\ cancelling' = [c \in Canceller |-> IF cancelling[c].called THEN Call({}) ELSE NotCalled]
    /\ saving' = [p \in Process |-> "no"]
    /\ writes' = {} /\ announced' = {} /\ mishaps' = {}
    /\ UNCHANGED <<answered, claims>>

------------------------------------------------------------------------------
SaveStep == \E p \in Process : SaveSnapshot(p)
WriteStep == \E w \in writes : WriteLands(w) \/ WriteFails(w)
WaiterStep(t) ==
    \/ Start(t) \/ Spawn(t) \/ Attach(t) \/ ForegroundCompleted(t) \/ ForegroundTimeout(t)
    \/ \E async_agent \in BOOLEAN : Promote(t, async_agent)
    \/ PromoteReturn(t) \/ DropWaiter(t)
CollectorStep(t) == Answer(t) \/ FinishRemove(t) \/ FinishRecord(t) \/ FinishReturn(t)
CancelStep(c) ==
    \/ CancelAll(c) \/ CancelRecord(c)
    \/ \E t \in Task : CancelOne(c, t) \/ CancelRemove(c, t)

Next ==
    \/ SaveStep \/ WriteStep
    \/ \E t \in Task : WaiterStep(t) \/ CollectorStep(t) \/ ClaimCompletion(t)
    \/ \E c \in Canceller : CancelStep(c)
    \/ ClaimPending \/ Restart

Spec == Init /\ [][Next]_vars

\* What the executor and the blocking pool owe: a started step is resumed, a
\* lock is granted in turn (tokio's Mutex is first come, first served), a write
\* returns.  Nothing is assumed of tools, users, runs, claims or restarts.
Fairness ==
    /\ WF_vars(WriteStep)
    /\ \A p \in Process : SF_vars(SaveSnapshot(p))
    /\ \A t \in Task :
          /\ WF_vars(Spawn(t)) /\ WF_vars(Attach(t))
          /\ WF_vars(FinishRemove(t)) /\ WF_vars(FinishRecord(t))
    /\ \A c \in Canceller :
          WF_vars(CancelRecord(c) \/ \E t \in Task : CancelRemove(c, t))

------------------------------------------------------------------------------
(* Properties *)

\* While the process lives, a recorded outcome is final: finish() never
\* overrides a cancellation nor cancel() a completion, whichever of the two
\* loses the race for the store; a record only ever leaves by pruning.
OutcomeIsFinal ==
    [][restarts' = restarts =>
         \A t \in Task : status[t] \in Final => status'[t] \in {status[t], "absent"}]_vars

\* A completion notification is claimed at most once in the life of a task,
\* by receivers of the broadcast, by the pending scan, and across restarts,
\* although a claim is never saved by itself.
ClaimedOnce == \A t \in Task : claims[t] <= 1

\* A task that finished after it asked for a notification has been broadcast,
\* or its collector or its promoter is about to do so: the flag set by
\* promote_to_background and the status set by finish() cannot miss each other.
\* (A promoter that was itself dropped leaves the claim to the pending scan.)
CompletionIsAnnounced ==
    \A t \in Task :
        status[t] = "completed" /\ t \in notify \ delivered =>
            \/ t \in announced
            \/ collector[t] = "announce"
            \/ waiter[t] \in {"announce", "dropped"}

\* A RUNNING record has somebody who will end it: its waiter is still starting
\* it, its collector has not recorded yet, or a canceller is at it.  The code's
\* two exceptions: a waiter dropped inside start(), which leaves a record and no
\* collector, and an immediate tool aborted by the late attach.
LateAborted(t) == t \in ImmediateTask /\ attach[t] = "late" /\ collector[t] = "aborted"
Orphaned(t) == LateAborted(t) \/ (waiter[t] = "dropped" /\ collector[t] = "none")
HasOwner(t) ==
    \/ waiter[t] = "start"
    \/ collector[t] \in {"exec", "finish", "record"}
    \/ \E c \in Canceller : cancelling[c].current = t
RunningHasOwner == \A t \in Task : status[t] = "running" => HasOwner(t) \/ Orphaned(t)

\* Once no save is in progress the file holds what memory holds, however the
\* savers interleaved, with two exceptions the code has.  A future dropped in the
\* middle of its save() may leave the file behind for good.  A write that failed
\* leaves it behind, unknown to anyone since every caller drops the error, until
\* the next save of this thread lands: that one writes the whole store again.
Quiet == writes = {} /\ \A p \in Process : ~InSave(p)
DiskSettles == Quiet /\ mishaps = {} => disk.status = status

\* The same with the exception of a failed write only, which is what the test
\* concurrent_finishes_persist_the_latest_combined_state says of save().
DiskConverges == Quiet /\ "failed" \notin mishaps => disk.status = status

\* A task whose tool has answered does not stay RUNNING, but for an immediate tool
\* whose attach came after finish() had taken the running entry: it aborts the
\* collector between the two locks of finish(), and nobody writes the outcome.
AnsweredIsRecorded ==
    \A t \in Task : t \in answered ~> status[t] # "running" \/ LateAborted(t)
==============================================================================
