------------------------------ MODULE TurnLoop ------------------------------
(***************************************************************************)
(* The turns of one thread: CatBot::stream_with_options and                *)
(* stream_active_workflow_with_options (crates/bot-core/src/runtime/mod.rs,*)
(* the branch with no active workflow), the shared steer queues            *)
(* (crates/bot-runtime-core/src/agent.rs) and the way chat_inner           *)
(* (src/core/chat.rs) turns a user message into a steer or a run.          *)
(* The tool tasks of the thread are the task board of TaskBoard.           *)
(*                                                                         *)
(* A message either joins the queue that is active for the thread or       *)
(* becomes a run of its own; a run is named by its first message.  Each    *)
(* run registers twice, in the outer and in the inner stream; a            *)
(* registration shares the active queue, or else creates and owns one.     *)
(***************************************************************************)
EXTENDS Naturals, Sequences, FiniteSets

CONSTANTS
    Message,     \* user messages sent to the thread
    Task,        \* tool tasks its runs may start
    NoQueue,     \* no queue is active, or none is registered
    NoRun,       \* the run lock is free; nobody started the task
    DroppedRun,  \* runs whose consumer may drop the stream at any await
    FailingRun,  \* runs in which a round may end with an error
    CancelledRun,\* runs whose turn may be cancelled by the user
    DeniedRun,   \* runs in which the user may deny an approval, which ends the round
    AsyncAgent,  \* StreamOptions.async_agent, one setting for all runs
    MaxExtra     \* bound: rounds per run added by the supervisor or a Stop hook

ASSUME MessageAssumption ==
    /\ Message \cap Task = {} /\ NoRun \notin Message
    /\ NoQueue \notin Message \X {"outer", "inner"}
    /\ DroppedRun \subseteq Message /\ FailingRun \subseteq Message
    /\ CancelledRun \subseteq Message /\ DeniedRun \subseteq Message
ASSUME OptionAssumption == AsyncAgent \in BOOLEAN /\ MaxExtra \in Nat

VARIABLES
    phase, told, \* the task board
    starter,     \* the run that started a task
    unsaid,      \* ended tasks whose broadcast waits for the save in finish()
    heard,       \* per run: broadcasts in its receiver
    pc,          \* per message: how far its run is
    lock,        \* holder of the thread's run lock
    active,      \* the queue in active_steers for this thread
    pending,     \* per queue: inputs pushed and not drained
    permit,      \* per queue: a stored Notify permit
    outer, inner,\* per run: the queues of its two registrations
    carry,       \* per run: messages drained into it and not yet persisted
    reported,    \* runs whose round has sent a History, at an injection
    injected,    \* messages that joined, in its midst, a round that goes on
    extra,       \* per run: extra rounds so far
    history,     \* messages in the persisted history
    informed,    \* tasks whose completion was injected into a model round
    forfeited    \* history: messages a run held when it ended a round, or gave
                 \* up, and that what it saved (if anything) left out

tasks == <<phase, told, starter, unsaid>>
queues == <<active, pending, permit, outer, inner>>
reports == <<reported, injected>>
vars == <<tasks, heard, pc, lock, queues, carry, reports, extra, history, informed, forfeited>>

Board == INSTANCE TaskBoard

Queue == Message \X {"outer", "inner"}
Item == Message \cup Task

Pc == {"unsent", "steered", "starting", "locking", "open", "round", "persisted", "poll",
       "check", "select", "relock", "closing", "evaluate", "closed", "gone"}
HoldsLock == {"open", "round", "persisted", "evaluate"}
Live == {"locking", "relock", "poll", "check", "select", "closing", "closed"} \cup HoldsLock

\* The queue a live run drains, or will drain: until its first lock the one of
\* its outer registration.
Served(r) == IF pc[r] = "locking" THEN outer[r] ELSE inner[r]
Serving == \A r \in Message : pc[r] \in Live => Served(r) \in Queue

TypeOK ==
    /\ Board!TypeOK
    /\ starter \in [Task -> Message \cup {NoRun}]
    /\ unsaid \subseteq Task
    /\ heard \in [Message -> SUBSET Task]
    /\ pc \in [Message -> Pc]
    /\ lock \in Message \cup {NoRun}
    /\ active \in Queue \cup {NoQueue}
    /\ pending \in [Queue -> Seq(Item)]
    /\ permit \in [Queue -> BOOLEAN]
    /\ outer \in [Message -> Queue \cup {NoQueue}]
    /\ inner \in [Message -> Queue \cup {NoQueue}]
    /\ carry \in [Message -> SUBSET Message]
    /\ reported \subseteq Message /\ injected \subseteq Message
    /\ extra \in [Message -> 0..MaxExtra]
    /\ history \subseteq Message /\ informed \subseteq Task /\ forfeited \subseteq Message
    /\ Serving

Init ==
    /\ Board!Init
    /\ starter = [t \in Task |-> NoRun] /\ unsaid = {}
    /\ heard = [r \in Message |-> {}]
    /\ pc = [r \in Message |-> "unsent"]
    /\ lock = NoRun /\ active = NoQueue
    /\ pending = [q \in Queue |-> <<>>] /\ permit = [q \in Queue |-> FALSE]
    /\ outer = [r \in Message |-> NoQueue] /\ inner = [r \in Message |-> NoQueue]
    /\ carry = [r \in Message |-> {}] /\ reported = {} /\ injected = {}
    /\ extra = [r \in Message |-> 0]
    /\ history = {} /\ informed = {} /\ forfeited = {}

Goto(r, label) == pc' = [pc EXCEPT ![r] = label]

------------------------------------------------------------------------------
(* The steer queue: CoreSteerQueue. *)

Push_Silent(q, item) ==
    /\ pending' = [pending EXCEPT ![q] = Append(@, item)]
    /\ UNCHANGED permit
Push(q, item) ==
    /\ pending' = [pending EXCEPT ![q] = Append(@, item)]
    /\ permit' = [permit EXCEPT ![q] = TRUE]

\* The leading completions together, or else exactly one user message.
IsBatch(s, n) ==
    \/ s[1] \in Message /\ n = 1
    \/ (\A i \in 1..n : s[i] \in Task) /\ (n < Len(s) => s[n + 1] \notin Task)

\* drain_batch into run r, on top of the messages it holds: SteerInjected.
Drain(r, q, held) ==
    \E n \in 1..Len(pending[q]) :
        /\ IsBatch(pending[q], n)
        /\ LET batch == {pending[q][i] : i \in 1..n}
           IN  /\ carry' = [carry EXCEPT ![r] = held \cup (batch \cap Message)]
               /\ informed' = informed \cup (batch \cap Task)
        /\ pending' = [pending EXCEPT ![q] = SubSeq(@, n + 1, Len(@))]
        /\ UNCHANGED permit

\* register_steer_queue
Registered(own) == IF active = NoQueue THEN own ELSE active

\* Drop for SteerQueueRegistration, for every registration of r that owns its
\* queue: the queue stops being active and its messages go to the history.
Owned(r) == {q \in {outer[r], inner[r]} : q # NoQueue /\ q[1] = r}
Unconsumed_Lost(r) == {}
Unconsumed(r) == {m \in Message : \E q \in Owned(r) : \E i \in 1..Len(pending[q]) : pending[q][i] = m}
DropRegistrations(r) ==
    /\ active' = IF active \in Owned(r) THEN NoQueue ELSE active
    /\ pending' = [q \in Queue |-> IF q \in Owned(r) THEN <<>> ELSE pending[q]]
    /\ outer' = [outer EXCEPT ![r] = NoQueue] /\ inner' = [inner EXCEPT ![r] = NoQueue]

------------------------------------------------------------------------------
(* A message arrives.  submit_queued_input pushes under the lock of the      *)
(* active queues; a message that finds none goes on to become a run.         *)

Submit(m) ==
    /\ pc[m] = "unsent"
    /\ IF active # NoQueue
       THEN Push(active, m) /\ Goto(m, "steered")
       ELSE Goto(m, "starting") /\ UNCHANGED <<pending, permit>>
    /\ UNCHANGED <<tasks, heard, lock, active, outer, inner, carry, reports, extra, history, informed, forfeited>>

Register(r) ==
    /\ pc[r] = "starting" /\ Goto(r, "locking")
    /\ active' = Registered(<<r, "outer">>)
    /\ outer' = [outer EXCEPT ![r] = active']
    /\ UNCHANGED <<tasks, heard, lock, pending, permit, inner, carry, reports, extra, history, informed, forfeited>>

LockFree_Ignored == TRUE
LockFree == lock = NoRun

FirstLock(r) ==
    /\ pc[r] = "locking" /\ LockFree /\ lock' = r /\ Goto(r, "open")
    /\ active' = Registered(<<r, "inner">>)
    /\ inner' = [inner EXCEPT ![r] = active']
    /\ carry' = [carry EXCEPT ![r] = {r}]
    /\ UNCHANGED <<tasks, heard, pending, permit, outer, reports, extra, history, informed, forfeited>>

------------------------------------------------------------------------------
(* A round.  Before the model is asked the round may be refused: some early  *)
(* returns append the user's message to the history as a failed turn, others *)
(* (the context does not load, a hook blocks the prompt) return without.     *)

RefuseRound(r, kept) ==
    /\ r \in FailingRun /\ pc[r] = "open" /\ Goto(r, "closed")
    /\ history' = IF kept THEN history \cup carry[r] ELSE history
    /\ forfeited' = IF kept THEN forfeited ELSE forfeited \cup carry[r]
    /\ carry' = [carry EXCEPT ![r] = {}]
    /\ UNCHANGED <<tasks, heard, lock, queues, reports, extra, informed>>

\* The receivers are created anew for each round.
BeginRound(r) ==
    /\ pc[r] = "open" /\ Goto(r, "round")
    /\ heard' = [heard EXCEPT ![r] = {}]
    /\ UNCHANGED <<tasks, lock, queues, carry, reports, extra, history, informed, forfeited>>

StartTask(r, t) ==
    /\ pc[r] = "round" /\ Board!Begin(t)
    /\ starter' = [starter EXCEPT ![t] = r]
    /\ UNCHANGED <<unsaid, heard, pc, lock, queues, carry, reports, extra, history, informed, forfeited>>

\* The foreground wait of t times out.  Only an async agent asks to be told.
PromoteTask(r, t) ==
    /\ pc[r] = "round" /\ starter[t] = r /\ AsyncAgent
    /\ Board!Want(t)
    /\ unsaid' = IF phase[t] = "running" THEN unsaid ELSE unsaid \cup {t}
    /\ UNCHANGED <<starter, heard, pc, lock, queues, carry, reports, extra, history, informed, forfeited>>

\* A gap between model and tools: the inner agent drains one batch and sends the
\* messages so far, the batch among them, as a History.
InjectSteer(r) ==
    /\ pc[r] = "round" /\ Drain(r, inner[r], carry[r])
    /\ reported' = reported \cup {r} /\ injected' = injected \cup (carry'[r] \ carry[r])
    /\ UNCHANGED <<tasks, heard, pc, lock, active, outer, inner, extra, history, forfeited>>

\* persist_turn with a History that holds the messages saved of those the run
\* carries; the others are in no history and in nobody's hands.
EndRound(r) == reported' = reported \ {r} /\ injected' = injected \ carry[r]
Persist(r, saved) ==
    /\ EndRound(r)
    /\ history' = history \cup saved
    /\ forfeited' = forfeited \cup (carry[r] \ saved)

\* A round that has sent no History has nothing to save when it ends without one.
Unreported(r) == IF r \in reported THEN {carry[r]} ELSE {{}}

\* What a cancellation leaves of the round: the state of the last checkpoint
\* replaces the History, and may be older than the last injections.
Checkpointed(r) == {saved \in SUBSET carry[r] : carry[r] \ saved \subseteq injected}

\* Done: the turn is saved before anything else.  The History of the whole round
\* comes before Done, but after a denied approval it does not, and an inner agent
\* that saw the cancellation itself sends its last checkpoint or an empty one.
\* A denied approval ends a round while foreground tools still run, so nothing is
\* asked of its tasks.
DoneSaves(r) ==
    {carry[r]} \cup (IF r \in DeniedRun THEN Unreported(r) ELSE {})
               \cup (IF r \in CancelledRun THEN Checkpointed(r) \cup {{}} ELSE {})
RoundDone(r) ==
    /\ pc[r] = "round" /\ Goto(r, "persisted")
    /\ \E saved \in DoneSaves(r) : Persist(r, saved)
    /\ carry' = [carry EXCEPT ![r] = {}]
    /\ UNCHANGED <<tasks, heard, lock, queues, extra, informed>>

NextRound(r) ==
    /\ Drain(r, inner[r], {})
    /\ Goto(r, IF lock = r THEN "open" ELSE "relock")

ContinueOrWait(r) ==
    /\ pc[r] = "persisted"
    /\ \/ NextRound(r) /\ UNCHANGED lock
       \/ /\ pending[inner[r]] = <<>>
          /\ IF AsyncAgent THEN lock' = NoRun /\ Goto(r, "poll")
                           ELSE UNCHANGED lock /\ Goto(r, "evaluate")
          /\ UNCHANGED <<pending, permit, carry, informed>>
    /\ UNCHANGED <<tasks, heard, active, outer, inner, reports, extra, history, forfeited>>

NothingQueued_Unchecked(r) == TRUE
NothingQueued(r) == pending[inner[r]] = <<>>

\* drain_or_close_steer_queue
CloseQueue(r) ==
    /\ NothingQueued(r)
    /\ active' = IF active = inner[r] THEN NoQueue ELSE active
    /\ carry' = [carry EXCEPT ![r] = {}]
    /\ Goto(r, "closed")
    /\ UNCHANGED <<pending, permit, informed>>
DrainOrClose(r) ==
    \/ NextRound(r) /\ UNCHANGED active
    \/ CloseQueue(r)

\* Error: what was said is saved, from the last History or from the record of the
\* round.  A stream that ends without Done has only a History to save.  Then the
\* queue is drained or closed, with no wait for the background tasks.
RoundError(r) ==
    /\ r \in FailingRun /\ pc[r] = "round"
    /\ \E saved \in {carry[r]} \cup Unreported(r) : Persist(r, saved)
    /\ DrainOrClose(r)
    /\ UNCHANGED <<tasks, heard, lock, outer, inner, extra>>

\* cancel_background_tasks: every running task of the thread, no broadcast.
CancelAllTasks ==
    /\ phase' = [t \in Task |-> IF phase[t] = "running" THEN "cancelled" ELSE phase[t]]
    /\ UNCHANGED <<told, starter, unsaid>>

RoundCancelled(r) ==
    /\ r \in CancelledRun /\ pc[r] = "round"
    /\ Goto(r, "closed") /\ CancelAllTasks
    /\ \E saved \in Checkpointed(r) : Persist(r, saved)
    /\ carry' = [carry EXCEPT ![r] = {}]
    /\ UNCHANGED <<heard, lock, queues, extra, informed>>

------------------------------------------------------------------------------
(* Hearing of completed tasks. *)

Claimable_Again(t) == phase[t] \in Board!Ended /\ told[t] \in {"wanted", "claimed"}
Claimable(t) == phase[t] \in Board!Ended /\ told[t] = "wanted"

TakeClaim(t) ==
    /\ Claimable(t)
    /\ told' = [told EXCEPT ![t] = "claimed"]
    /\ UNCHANGED phase

\* claim_completion_notification for a task the receiver reported: whoever
\* claims it pushes it on its own queue.
Hear(r, t) ==
    /\ pc[r] \in {"round", "poll", "select"} /\ t \in heard[r]
    /\ heard' = [heard EXCEPT ![r] = @ \ {t}]
    /\ Goto(r, IF pc[r] = "select" THEN "poll" ELSE pc[r])
    /\ IF Claimable(t)
       THEN TakeClaim(t) /\ Push(inner[r], t)
       ELSE UNCHANGED <<phase, told, pending, permit>>
    /\ UNCHANGED <<starter, unsaid, lock, active, outer, inner, carry, reports, extra, history,
                   informed, forfeited>>

WaitDrain(r) ==
    /\ pc[r] = "poll" /\ NextRound(r)
    /\ UNCHANGED <<tasks, heard, lock, active, outer, inner, reports, extra, history, forfeited>>

\* claim_pending_completion_notification, with an empty receiver and queue.
WaitScan(r) ==
    /\ pc[r] = "poll" /\ heard[r] = {} /\ pending[inner[r]] = <<>>
    /\ \/ \E t \in Task : TakeClaim(t) /\ Push(inner[r], t) /\ UNCHANGED pc
       \/ /\ \A t \in Task : ~Claimable(t)
          /\ Goto(r, "check") /\ UNCHANGED <<phase, told, pending, permit>>
    /\ UNCHANGED <<starter, unsaid, heard, lock, active, outer, inner, carry, reports, extra, history,
                   informed, forfeited>>

ThreadRunning == \E t \in Task : phase[t] = "running"

WaitCheck(r) ==
    /\ pc[r] = "check"
    /\ Goto(r, IF ThreadRunning THEN "select" ELSE "closing")
    /\ UNCHANGED <<tasks, heard, lock, queues, carry, reports, extra, history, informed, forfeited>>

\* steer_wait: consumes the permit and goes round the loop.
WaitNotified(r) ==
    /\ pc[r] = "select" /\ permit[inner[r]] /\ Goto(r, "poll")
    /\ permit' = [permit EXCEPT ![inner[r]] = FALSE]
    /\ UNCHANGED <<tasks, heard, lock, active, pending, outer, inner, carry, reports, extra, history,
                   informed, forfeited>>

WaitCancelled(r) ==
    /\ r \in CancelledRun /\ pc[r] = "select"
    /\ Goto(r, "closed") /\ CancelAllTasks
    /\ UNCHANGED <<heard, lock, queues, carry, reports, extra, history, informed, forfeited>>

\* run_lock.lock(): the head of the loop, or after the wait.
Relock(r) ==
    /\ pc[r] \in {"relock", "closing"} /\ LockFree /\ lock' = r
    /\ Goto(r, IF pc[r] = "relock" THEN "open" ELSE "evaluate")
    /\ UNCHANGED <<tasks, heard, queues, carry, reports, extra, history, informed, forfeited>>

------------------------------------------------------------------------------
(* The end of a run. *)

\* The round budget of the workflow, or the Stop hook that runs only once.
MayAddRound(r) == extra[r] < MaxExtra

\* The workflow supervisor or the Stop hook asks for one more round.
ExtraRound(r) ==
    /\ pc[r] = "evaluate" /\ MayAddRound(r) /\ Goto(r, "open")
    /\ extra' = [extra EXCEPT ![r] = @ + 1]
    /\ UNCHANGED <<tasks, heard, lock, queues, carry, reports, history, informed, forfeited>>

\* The evaluation was cancelled: Done without closing the queue.
EvaluationCancelled(r) ==
    /\ r \in CancelledRun /\ pc[r] = "evaluate" /\ Goto(r, "closed")
    /\ UNCHANGED <<tasks, heard, lock, queues, carry, reports, extra, history, informed, forfeited>>

Close(r) ==
    /\ pc[r] = "evaluate" /\ DrainOrClose(r)
    /\ UNCHANGED <<tasks, heard, lock, outer, inner, reports, extra, history, forfeited>>

\* The consumer drops the stream: run lock, inner and outer registration go.
EndStream(r) ==
    /\ Goto(r, "gone") /\ DropRegistrations(r)
    /\ lock' = IF lock = r THEN NoRun ELSE lock
    /\ history' = history \cup Unconsumed(r)
    /\ forfeited' = forfeited \cup carry[r]
    /\ carry' = [carry EXCEPT ![r] = {}]
    /\ heard' = [heard EXCEPT ![r] = {}]
    /\ EndRound(r)
    /\ UNCHANGED <<tasks, permit, extra, informed>>

Finish(r) == pc[r] = "closed" /\ EndStream(r)
DropRun(r) == r \in DroppedRun /\ pc[r] \in Live /\ EndStream(r)

------------------------------------------------------------------------------
(* The tool tasks. *)

MustSay_Never(t) == FALSE
MustSay(t) == told[t] = "wanted"

\* finish(): the broadcast follows the save.
TaskCompletes(t) ==
    /\ Board!End(t, "completed")
    /\ unsaid' = IF MustSay(t) THEN unsaid \cup {t} ELSE unsaid
    /\ UNCHANGED <<starter, heard, pc, lock, queues, carry, reports, extra, history, informed, forfeited>>

Listening(r) == pc[r] \in {"round", "persisted", "poll", "check", "select", "closing", "evaluate"}

Broadcast(t) ==
    /\ t \in unsaid /\ unsaid' = unsaid \ {t}
    /\ heard' = [r \in Message |-> IF Listening(r) THEN heard[r] \cup {t} ELSE heard[r]]
    /\ UNCHANGED <<phase, told, starter, pc, lock, queues, carry, reports, extra, history, informed, forfeited>>

\* A user or a tool call cancels one task: cancel() never broadcasts.
CancelTask(t) ==
    /\ Board!End(t, "cancelled")
    /\ UNCHANGED <<starter, unsaid, heard, pc, lock, queues, carry, reports, extra, history, informed, forfeited>>

------------------------------------------------------------------------------
RoundStep(r) ==
    \/ BeginRound(r) \/ InjectSteer(r) \/ RoundDone(r) \/ RoundError(r) \/ RoundCancelled(r)
    \/ \E kept \in BOOLEAN : RefuseRound(r, kept)
    \/ \E t \in Task : StartTask(r, t) \/ PromoteTask(r, t) \/ Hear(r, t)
WaitStep(r) ==
    \/ ContinueOrWait(r) \/ WaitDrain(r) \/ WaitScan(r) \/ WaitCheck(r)
    \/ WaitNotified(r) \/ WaitCancelled(r)
EndStep(r) ==
    \/ ExtraRound(r) \/ EvaluationCancelled(r) \/ Close(r) \/ Finish(r) \/ DropRun(r)
TaskStep(t) == TaskCompletes(t) \/ Broadcast(t) \/ CancelTask(t)

Next ==
    \/ \E r \in Message :
          \/ Submit(r) \/ Register(r) \/ FirstLock(r) \/ Relock(r)
          \/ RoundStep(r) \/ WaitStep(r) \/ EndStep(r)
    \/ \E t \in Task : TaskStep(t)

Spec == Init /\ [][Next]_vars

\* The executor resumes what can go on, the run lock is first come, first served,
\* the model ends its round, and a finished save is followed by its broadcast.
\* Nothing is assumed of tools, cancellations, failures or the consumers.
Fairness ==
    /\ \A r \in Message :
          /\ WF_vars(Register(r)) /\ SF_vars(FirstLock(r)) /\ SF_vars(Relock(r))
          /\ WF_vars(BeginRound(r)) /\ WF_vars(RoundDone(r)) /\ WF_vars(ContinueOrWait(r))
          /\ WF_vars(WaitDrain(r) \/ WaitScan(r) \/ WaitCheck(r) \/ \E t \in Task : Hear(r, t))
          /\ WF_vars(WaitNotified(r)) /\ WF_vars(Close(r)) /\ WF_vars(Finish(r))
    /\ \A t \in Task : WF_vars(Broadcast(t))
FairSpec == Spec /\ Fairness

------------------------------------------------------------------------------
(* Properties *)

\* The queue that accepts steers belongs to a live run, and that run drains it.
\* No close or drop, in whatever order the runs that share the queue end, leaves
\* a queue behind that goes on accepting messages nobody will read.
ActiveIsServed ==
    active # NoQueue => pc[active[1]] \in Live /\ Served(active[1]) = active

\* A message waits in the active queue or in none: once a queue is closed, every
\* message it had accepted has been drained or saved (the doc comment of
\* drain_or_close_steer_queue).
QueuedIsActive ==
    \A q \in Queue : \A i \in 1..Len(pending[q]) : pending[q][i] \in Message => active = q

\* Whoever is told that its message was accepted has a reader: the message waits
\* in the queue of a live run that drains it, or has left the queues.
QueueIsServed == ActiveIsServed /\ QueuedIsActive

\* A message accepted as a steer is in exactly one place: once in one queue, in
\* the hands of one run, in the history, or among those that the code loses.  It
\* loses only messages that a run holds: those of a round that is refused before
\* its prompt, or whose stream is dropped, those of a round that sent no History
\* and ends by a denied approval or without Done, and those injected after the
\* checkpoint that a cancellation saves.  No message is lost out of a queue.
Queued(x) == UNION {{<<q, i>> : i \in {j \in 1..Len(pending[q]) : pending[q][j] = x}} : q \in Queue}
Holders(m) == {r \in Message : m \in carry[r]}
Places(m) ==
    Cardinality(Queued(m)) + Cardinality(Holders(m)) + Cardinality({m} \cap history)
        + Cardinality({m} \cap forfeited)
SteerInOnePlace == \A m \in Message : pc[m] = "steered" => Places(m) = 1

\* A completion is given to the model at most once: it is queued once or it was
\* injected, never both, whichever of the runs heard of it.
InformedOnce ==
    \A t \in Task :
        /\ Cardinality(Queued(t)) + Cardinality({t} \cap informed) <= 1
        /\ Queued(t) # {} \/ t \in informed => told[t] = "claimed"

\* Rounds of a thread never overlap, and only a round's run starts tasks or saves
\* the history: the run that is in one holds the run lock, across the wait loop
\* that lets go of it.
RoundsExclude ==
    \A r \in Message : pc[r] \in HoldsLock => lock = r

\* A message in the steer queue is taken up or saved in the end.
SteerIsTaken == \A m \in Message : Queued(m) # {} ~> Queued(m) = {}

\* While some run waits for the thread's tasks, a wanted completion is claimed.
Waiting(r) == pc[r] \in {"poll", "check", "select"}
CompletionReachesWaiter ==
    \A t \in Task :
        (phase[t] = "completed" /\ told[t] = "wanted" /\ \E r \in Message : Waiting(r))
            ~> (told[t] = "claimed" \/ ~ \E r \in Message : Waiting(r))
==============================================================================
