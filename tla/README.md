# remi-cat in TLA+

TLA+ models of the parts of remi-cat whose correctness depends on the order in
which several activities happen: the run of an agent that is steered and cancelled,
tool tasks that outlive the turn that started them, the turns of one thread that
share a steer queue and a run lock, the supervisor workflow that turns, commands and
answers load and save side by side, the application that dispatches the commands of
its clients, the stores of memory, credentials and sessions, and the delivery of
messages over a network that loses them.  The models are checked with TLC on small
instances and their main invariants are proved with TLAPS for every size.  Paths below
are relative to the repository root; `runtime/mod.rs`, `tool_tasks.rs` and `agent.rs` mean the files of
`crates/bot-core/src`.

## 1. The system

remi-cat is a chat agent.  A *channel* (Feishu, TUI, web, CLI) delivers user
messages to a *session*; a session is a *thread* of conversation with a persisted
history.  `CatBot` (bot-core) runs *turns* on a thread: one or more *rounds* in which
a model is asked and its tool calls are executed, until nothing is left to do.

| Component | State it keeps | Operations | Interacts through |
|---|---|---|---|
| tool task manager (`tool_tasks.rs`) | per thread: records (`store`), run table (`running`), JSON file, completion broadcast | start, attach, finish, cancel, cancel all, promote, claim, claim pending, save, load | mutexes, `persist_lock`, blocking pool, broadcast |
| tracked tool execution (`agent.rs`) | the futures of one batch of tool calls | foreground wait, collector, late attach, timeout, drop | oneshot, `spawn_local` |
| agent loop (`agent.rs`, `loop_driver.rs`) | conversation, checkpoint, the batch in progress | ask, dispatch a batch, approve, execute, steer, end | core agent, steer queue, token |
| turn loop (`runtime/mod.rs`) | run lock, round state, history | round, persist, wait for background tasks, supervisor round, end, drop | steer queue, broadcast, run lock, memory |
| steer queue (`bot-runtime-core/src/agent.rs`, `runtime/mod.rs`) | pending inputs, one Notify permit, map of active queues | push, drain a batch, drain or close, register, drop | shared `Arc`, synchronous mutex |
| supervisor workflow (`supervisor_workflow.rs`, `runtime`) | instance in the user state of the thread | start, pause, resume, ask, decide, clear | load, ask a model, save |
| application actor (`src/application.rs`, `src/core`) | runs per session, approvals, events | submit, cancel, wait for a task | command channel |
| approval, user questions | pending requests and waiters | ask, answer, expire | oneshot per request |
| memory (`memory/`) | tiers of the history, user state | append, promote, compact, load | files, per-thread lock |
| todo | batches in the user state | create, update, close | user state |
| ACP backend, A2A delegation, external agents | sessions with other agents | open, prompt, cancel, answer | stdio, HTTP |
| ChatGPT provider | token and its refresh | refresh, sign in | HTTP, file |
| sessions, sub-sessions | binding of channels to threads | bind, fork, list | JSON index |
| Feishu channel and client | reply streams, cards, connection | reconnect, reply, update card | websocket, HTTP |
| profile registry, atomic files, secrets | lock files, JSON | register, write by rename | file system |
| proactive messages (`proactive.rs`) | an outbox record per key, the profile lock | send, retry, status | Feishu, history, local socket |
| tools, skills, sandbox, hooks, models, user interfaces, commands | configuration, I/O | | |

What is hard: nothing of the first components runs alone.  Every `.await`
is a point where another future of the thread goes on, a dropped future stops at
one, and what was read before one is used after it.  The `hazards` of
`PROJECT.json` list the places, each at its line.

What makes a component correct:

* tool tasks: an outcome is recorded once and stays; somebody is responsible for
  every RUNNING record; a completion is announced and claimed at most once, also
  across restarts; the file follows memory.
* turns: rounds of a thread exclude each other; the queue that accepts messages
  has a live reader; an accepted message ends up in a round or in the history,
  once; a completion reaches one model round.
* workflow: whatever copy survives is one the supervisor can go on from; a pause or
  clear is not undone; the round budget is respected; a waiting instance goes on
  when, and only when, its question is answered.
* agent loop: every call of a conversation has one result, in its place; what the
  user said and what ran is in what is saved; a cancelled run ends.
* application: every task is listed while it lives; no command keeps dispatch; a
  cancelled run ends, whatever its client does.
* approvals and questions: one answer per request, none left without an answer
  when its turn is gone.
* memory: what the model is not shown raw is in a summary it can read; a cleared
  message does not come back.
* credentials: the stored refresh token is the one the server accepts; a logout holds.
* proactive messages: a delivery is posted and recorded once, however it is retried;
  "complete" means posted and recorded.
* sessions and registry: one owner per key, also after a crash between two writes.

## 2. The modules

```
TaskBoard            what the tool-task manager promises (abstract)
  ^ implemented by     ^ INSTANCE, as the tasks of the thread
ToolTasks            TurnLoop              Workflow              AgentRun
  ToolTasksRefinement  TurnLoop_proofs       Workflow_proofs       AgentRun_proofs
  ToolTasks_proofs     MCTurnLoop            MCWorkflow            MCAgentRun
  MCToolTasks

Application            Memory           ChatGptAuth          Sessions          Outbox
  Application_proofs     Memory_proofs    ChatGptAuth_proofs   +-- Stores_proofs --+
  MCApplication (viol.)  +----------------+----- MCStores -----+-------------------+
                                                                  MCOutbox (violation)
MCParts: extends Application and ToolTasks (one task), checked apart in one run
```

The models meet where the code does.  `AgentRun` is a `round` of `TurnLoop` from the
inside; `TurnLoop` is a `turn` of `Application`; `EndTurn` of `Memory` is the
`persisted` of `TurnLoop`.  Each takes the other's outcome as an input: every
outcome the other has is enabled.

### ToolTasks: `tool_tasks.rs` and the tool batches of `agent.rs`

One thread's manager and, per tool call, three activities: the *waiter* (the
foreground future of `collect_tool_result_futures_with_timeout`), the *collector*
(`spawn_tracked_tool_result`, first spawned task) and *attach* (its second one).
Their program counters are `waiter`, `collector`, `attach`; `cancelling` holds the
calls of `cancel`/`cancel_all_running`.

| State | Code |
|---|---|
| `status`, `notify`, `delivered`, `finished` | the records: status, `notify_on_finish`, `notification_delivered`, order of `completed_at` |
| `running` | `PerThreadManager.running`: no entry, entry without and with abort handle |
| `saving`, `writes`, `disk` | `persist_lock` and its queue, images given to `spawn_blocking`, the JSON file |
| `announced` | what was sent on `completed_tx` since the last start |
| `claims`, `mishaps`, `restarts` | history variables: claims per task; whether a save was dropped in the middle, and whether the last write failed; restarts |

A section the code runs while it holds one mutex is one action: `finish()` is
`FinishRemove` (the run table), `FinishRecord` (the store, including the decision
to notify), a save and `FinishReturn` (the broadcast).  A save is two actions, the
snapshot with its pruning (`SaveSnapshot`) and the end of the write, since the
future that saves can be dropped between them: `Drop` releases `persist_lock` and
leaves the write in flight.  A write lands (`WriteLands`) or fails at the directory, the
temporary file or the rename (`WriteFails`); every caller drops the error, so that what
follows is the same and only the file differs.  "completed" stands for completed and failed.

Two facts about the executor enter the guards.  `spawn_local` queues first in,
first out, so attach has run before a collector that had to wait at least once can go on; `ImmediateTask` are the
tools that are finished at their first poll.  `attach` is "late" when it found no run
entry and aborted the collector.  And the foreground select is biased
towards the answer.  `CancelOne` starts from a task id that a caller can know.

`Restart` loses memory and writes in flight and applies `normalize_loaded_store`
to the file.  Not modelled: output of tasks, `enable_completion_notification` (only
tests use it), the legacy file, and the map of managers: one thread's manager is
taken as loaded.  The broadcast's capacity of 64 is not modelled, `announced` is
a set.

### TaskBoard: the promise

Without locks, saves and files: a task runs until it ends once, may want a
notification, which is claimed at most once; ended records may be forgotten; a
restart ends what ran and bars what was not claimed.  `ToolTasksRefinement` maps the
manager to it (`phaseBar`, `toldBar`), and TLC checks `Board!Spec` as a property of
the manager.  `TurnLoop` uses the board in place of the manager.

### TurnLoop: `runtime/mod.rs`, steer queue, `src/core/chat.rs`

A message joins the active queue or becomes a run, named by it.  `pc[r]` follows
`stream_with_options`:

| `pc` | Code |
|---|---|
| `unsent`, `steered`, `starting` | `submit_queued_input`: queued, or NotRunning and a stream of its own |
| `locking` | outer registration (2010-2034), waiting for the run lock |
| `open` | head of `'workflow_loop`: early returns |
| `round` | the select over the inner stream and the broadcast |
| `persisted` | after `persist_turn`: drain, wait or go on |
| `poll`, `check`, `select` | the wait loop 4076-4265, without the run lock |
| `relock`, `closing` | `run_lock.lock()` for the next round, or for the end |
| `evaluate` | supervisor and Stop hook, `drain_or_close_steer_queue` |
| `closed`, `gone` | the generator has returned; the stream was dropped |

`active` is the thread's entry of `active_steers`, `outer` and `inner` are the two
registrations of a run (one creates and owns a queue, the others share it),
`pending` and `permit` the queue and its Notify, `carry` what a run took from a
queue and has not saved, `heard` its broadcast receiver, `informed` the completions
injected into a round, `forfeited` (history) what a run gave up unsaved.  `reported` are
the runs whose round has sent a History, `injected` the messages that were injected since
the round began: on these two depends what the end of a round saves of `carry` (`Persist`):

| End of the round | Saved of what the run carries |
|---|---|
| `RoundDone` | all of it; after a denied approval (`DeniedRun`) nothing, if the round has sent no History; where the agent itself saw the cancellation, its last checkpoint or nothing |
| `RoundCancelled` | the last checkpoint, which may lack what was injected since (`Checkpointed`) |
| `RoundError` | all, from the History or the recorder; nothing, if the stream ends without Done and without a History |

The synchronous mutex of `active_steers` makes `Submit`, `CloseQueue` and
`DropRegistrations` one step each, as in the code.  `RefuseRound` has both kinds of
early returns, those that save the user's message and those that do not.  The
history write spawned by `SteerQueueRegistration::drop` is part of the drop: the
model says that it is made, not when.  Not modelled: the branch with an active
workflow, compaction, `UserNextTurn` inputs, which differ only in
what is shown.  A run of the model never goes on to another turn: the runs are the
messages.

### Workflow: `supervisor_workflow.rs`, its life in `runtime/mod.rs`, questions

The instance lives in the thread's user state, a JSON file that nobody locks.  Every
operation on it is a load, a change and a save, and a round of a turn carries the whole
user state it began with and saves it back.  So a load and a save are different
steps, and every place an instance is held between them is a variable:

| State | Code |
|---|---|
| `disk` | the instance in `user_state.json` |
| `loaded`, `next` | the instance a turn will save, and where it goes on (`save_workflow_instance`) |
| `copy`, `raw`, `override` | the agent's user state, `raw_user_state`, `workflow_user_state_override` of a round |
| `held` | the instance a command or an answer will save |
| `question`, `asker` | requests of `UserQuestionManager`, and the turn whose tool batch waits for them |
| `unjudged`, `round`, `hooked` | `user_question_requested_this_round` or `workflow_interrupted_this_round`, `supervisor_round`, `stop_hook_active` |
| `given`, `kept`, `overtaken` | history: supervisor messages of a turn; the last command that landed while nobody carried an instance; the turns in whose round another turn ended or paused the workflow |

`at` tells the three uses of `evaluate_workflow_after_round` apart: after a start
command, before the first round of a message, and after a round.  An instance is its
node, status, pause reason, the node to return to and the round of its last
report; `Jump` stands for `jump_targets` of the definition.  `Refreshed` and `Merged` are
the merge of the override that StateUpdate, History and Done repeat; a pause by
command is in none of the variables they merge.  `AnswerQuestion` has two
outcomes: `answer_user_question` resumes the workflow, a Feishu card answers the
manager only.

Where a load and its use have no later save of what was loaded, they are one step.
`save_workflow_instance` loads again and replaces only the workflow, so its load is not
visible here.  Not modelled: the graph algorithms of a definition, the migration of the
old goal file, writes that fail or are torn (`tokio::fs::write` in place), a stream
that is dropped, the environment context written when a turn is the first to load.

Two behaviours a reader may not expect, and the model has: the budget is per
turn, since `supervisor_round` starts at zero in each `stream_with_options`, and a
head evaluation counts from the last report, so a workflow whose last report is at
the limit answers further messages with reports only; and a turn that is cancelled
while it waits for background tasks (`CancelWait`) pauses nothing.

### AgentRun: `agent.rs`, `loop_driver.rs`, `partial_turn.rs`

One `stream_with_input_and_options`.  `phase` is the await the run is in:

| `phase` | Code |
|---|---|
| `chat`, `stream` | `chat()` is being called; its stream is being read |
| `approve`, `ask` | the next call of a group goes through its hook and policy; a person is asked |
| `execute` | the futures of the approved calls of a group |
| `settled`, `refused` | the group has returned, or somebody denied a call |
| `over` | the last event is out, and `persist_turn` has made `saved` of it |

A batch has three groups, executed in turn: tools of the runtime (`local`), tools of
the channel (`dynamic`) and names nobody registered (`missing`, which need no
step).  Messages are what the properties tell apart: who said it, which calls it makes
or answers, and whether a result is real, an error or the placeholder of an
interruption.  The loops of the code over a conversation are recursive functions
(`AppendResults`, `Repaired`); `Pending` is the list that
`complete_pending_tool_calls_in_state` keeps while it walks.  The core agent is an external crate: that it keeps a checkpoint of what
it was asked, and that its final checkpoint comes before its end, is how `loop_driver.rs`
uses it.  A cancellation is answered with the driver's last checkpoint, which may be of
an earlier question; `stale` marks those runs, and three properties make an exception
for them.  Not modelled: steers of other behaviours than "continue", what a
context operation makes of a conversation, redaction, statistics.  A dropped stream is in
`TurnLoop`.

### Application: `application.rs`, `approval.rs`

`actor` is the dispatch task and the command it is at, `commands` and `internal` its
two channels, `phase` the task of each run, `forwarded` and `received` the bounded
channel to its client.  A turn holds `runLock` from `EnterTurn` to its end; the rounds
that let go of it are in `TurnLoop`.  Every command is one action to its reply, but
for the two that wait inside dispatch: a fork (`ForkSession`, `CopyThread`) and a
shutdown (`Shutdown`, `DrainRun`, `EndActor`).  A client has one request at a time.
Left out are commands that change nothing of this state; the channel of a run
that is over is forgotten.

### Memory: `memory/store.rs`

The ledger, the two indices with their files, and the clients that use them: a turn, a
viewer that only loads (`thread_todos`, the estimate of the context), a dropped
steer queue, a clear.  A message is its position, a summary the set of messages it
digests.  `pc[c]` is the next file access of a client; the text of `Inside` says where
the store's lock is held, and `lockMap` is its entry in `THREAD_LOCKS`, which most
holders remove before they release the lock, so that two of them may be inside
with two locks.  A clear empties the ledger and then unlinks the files of two
directories one by one, the index among them, in any order (`RemoveMid`, `RemoveLong`);
an error (`ClearFails`) or a crash leaves what is not removed yet.  `torn` (history) are the
summaries whose file a clear has removed: an index that still names one of them is what a clear
leaves that is under way or was cut off, and `LatestIsReadable` makes an exception for
it; `forgotten` are the messages of finished clears.  Loading promotes old summaries and takes no lock at all: `raced` marks
that an index was written while somebody held an older copy of it, and the three
properties make an exception for what follows.  `EntriesIn` is the `partition` of the
index into what is promoted and what is kept, a recursive function over its positions.
A client has one role: the names of turns, viewers, savers and clears are disjoint.

`NothingHidden` was once stated without that exception, and the run with two summaries
agreed.  It is false, and the proof attempt showed where: a viewer is about to write the
mid-term index without what it has promoted; a turn commits a newer summary, which ages
and is promoted in turn; then the viewer writes back an older summary as the latest, and
the messages that only the lost one digested are shown neither raw nor digested.  This
takes five summaries.  With the exception TLC finds no violation with five
summaries and three messages, and the theorem holds for any number.

Not modelled: a failed write of an index or a summary (it leaves on disk what a crash
there leaves), the migration of old files, copying and
deleting a thread, `/compact` with messages kept raw, named memories, recall, blobs; the
budget for verbatim user inputs suffices.

### ChatGptAuth: `chatgpt/auth.rs`

One record on disk and callers in any number of processes.  `lock()`, a gate in the
process and a lock file, is `holder`.  A login is two sections with a browser in
between, and `attempt` is what it remembers of the first one.  The server is
external: it issues numbered tokens and does not accept a refresh token twice.  `lost`
(history) are the tokens whose exchange or revocation nobody heard the answer of.
`expired` says that the access token is over; `MaxGeneration` bounds only how
often it may become so.

### Sessions: `session.rs`

The store in memory, `sessions.json`, and a save after each operation, which may fail;
`Restart` reads the file.  `promised` and `over` (history) are what callers were told.
One process has the store.  The ends "done" and "error" are one status.

The status of a sub-session has two writers.  `record_sub_session` handles its events in
independent tasks, in any order, and so leaves an ended one as it is
(`RecordSubSession`).  Feishu and the web chat call `upsert_sub_session`, which overwrites
(`UpsertSubSession`): they take the events in order, so that "running" after an end is a
further event of the sub-session.  `EndIsDurable` is about the first; `over` forgets an
end when the second has such an event.

`MCStores` extends `Memory`, `ChatGptAuth`, `Sessions` and `Outbox`, and lets a behaviour be one
of a single store: they share no state, so no interleaving of two says more than each alone.
`MCParts` does the same with the actor and one tool task, each under the fairness of its module.

### Outbox: `proactive.rs`

A command asks the process that holds the profile lock, a runtime or an offline sender,
to post a text in the chat of a session and to add it to the session's history.  `outbox`
are the record files; `at[p]` is the step of `DeliveryService::send` that `p` is at, which
serves one request at a time (`run_control`):

| `at` | Code |
|---|---|
| `idle` | no delivery |
| `loaded` | the record is found or written; also once Feishu has answered |
| `sending` | "sending" is saved, the request is with the gateway (at most 30 s) |
| `unsaid`, `said` | the history was read and lacks, or has, the message |

Every save may fail, also with the record in its place when the directory cannot be synced
afterwards, and every step may be the last before a crash.  Feishu is external:
`wire` are requests on their way, which are lost or land, also when nobody waits any
more; `posts` made a message; `remembered` are the UUIDs it takes for duplicates.  `age`
is the hour since the first attempt with a UUID, one clock for `first_attempt_unix` and
for Feishu, and no request and no delivery is under way when it is over.
An answer with an error code means that nothing was posted.  `told` and `refused` are
history variables.  There is one session; its run lock, which a delivery holds
throughout, is implied by the profile lock.  Not modelled: turns of the session, clearing
its history, a history that cannot be read (the code takes it for empty, and would
append a message again), the local socket and its authentication, the second request
after an expired token.

## 3. The runs

The bounds are numbers of tasks, messages, cancellers and restarts; each was
chosen so that the actors of the hazard exist and one more than the hazard needs
where the state space allows it.  Every run without the word "violation" passes.
A type invariant that is proved for every size (section 4) is not checked again in a run,
but for those of Memory and Application, which say more than types.
CHECK_DEADLOCK is off: with no more messages, tasks, requests or restarts the system is
idle.

| Run | Bounds | What it shows |
|---|---|---|
| MCToolTasksRestart | an immediate and a droppable task, failing writes, 1 restart, 1 record kept | `ClaimedOnce`, `DiskSettles`, and the manager implements the task board |
| MCTurnLoop | 3 messages (one run that may be dropped, fail or be denied, one cancelled), 1 task | `QueueIsServed` (`ActiveIsServed` and `QueuedIsActive`), `SteerInOnePlace`, `InformedOnce`, `RoundsExclude` |
| MCTurnLoopLive | 2 messages, 1 task, 1 extra round, failing and cancelled runs, fair | `SteerIsTaken`, `CompletionReachesWaiter` |
| MCWorkflow | a step and a terminal node, 1 question, 1 round; either 1 turn with every feature, 1 steer, and 2 clients that pause, clear, start and answer, fair, or 2 turns (both cancellable, one failing) without steers and clients (`Few`) | `RoundBudget`, `QuietCommandHolds`, `CopiesAreCoherent`, `CancelPauses` (also with an evaluation at the head of one turn within a round of the other); `TurnEnds` for the turn alone |
| MCAgentRun | 2 local tools, 1 dynamic, 1 missing, 3 calls in all, 1 steer, fair | `CompleteInput`, `SavedIsComplete`, `NoFalseInterruption`, `LeavesTrace`, `SaidIsSaved`, `CancelEnds` with a cancellation at any await |
| MCStores, memory | 1 turn, 1 viewer, 1 dropped queue, 1 clear, file by file, 2 messages and 2 summaries before new work stops, 1 crash | `MemoryTypeOK`, `NothingHidden`, `SummariesHold` (`LatestIsReadable` and `ForgottenStaysForgotten`) |
| MCStores, credentials | 2 callers, 2 accounts, 2 registrations, 3 tokens, 2 logouts, expiry up to generation 4 | `StoredIsUsable`, `LogoutHolds`, `AccountIsKept` |
| MCStores, sessions | 2 channels, one of a sub-session, both writers of a status, 2 sessions, failing saves, 1 restart | `IndexIsSound`, `ChannelIsDurable`, `EndIsDurable` |
| MCStores, outbox | 2 processes, 1 key, 1 text, 2 chats, 2 message ids, 3 requests, 1 crash | `AtMostOnce`, `CompleteIsTrue` |
| MCParts, actor | 2 clients, 2 runs, a session and a fork of it, channel of 1, 2 events, 3 requests, fair | `ApplicationTypeOK` (with every live task listed), `NoGap`, `WaiterIsPending`, `RequestsReturn`, `CancelEndsRun` |
| MCParts, tool | 1 task, immediate and droppable, failing writes, 2 cancellers, 1 restart, fair | `CompletionIsAnnounced`: promotion and completion do not miss each other; `RunningHasOwner`, `OutcomeIsFinal`, `AnsweredIsRecorded` under races of finish, cancel, timeout, late attach and restart |
| MCToolTasksLateAbort | violation; 2 tasks, 1 immediate | `DiskConverges` |
| MCWorkflowCancel | violation; 2 turns, no client, no question | `CancelledIsPaused` |
| MCWorkflowPause | violation | `PauseSticks` |
| MCOutboxHour | violation; 2 processes, 2 keys, 2 texts, 2 chats, 3 requests, 1 crash, symmetric | `UncertainIsNotResent` |
| MCApplicationFork | violation; 1 run, 1 event, models answer and clients read | `CancelReachesToken` |

Three messages are needed because a queue can be owned by one run, shared by a
second and hold a third message; two tasks because one then prunes the other
(`MaxCompleted = 1`).  The limit of 100 records is one in the runs; nothing depends on
its value.  Two cancellers because one can find the work of the other half done.
The definition of MCWorkflow has one step and a terminal node, which gives staying and
completing: a jump to another step changes nothing the properties tell apart.  More than
two turns that race for the instance are covered by the theorems, which
hold for every number of turns; in MCWorkflow one turn races with two clients, or two turns
with each other.  One round of budget is enough for a
message at the head, one after a round, and a refusal of the next.  Two clients are
needed to pause a workflow and then answer its old question.  Two local tools make a
batch in which one has returned when the other is cancelled; three calls make a second
batch after it.  Of memory's clients one of each kind is enough for every pair
that races; the two bounds stop new work only, so what has started may append or
summarize once more per client.  What needs more summaries than that is left to the
theorems on Memory.  Two callers are a login that is overtaken and whoever
overtakes it.  A channel of one event is full after the first, and the second must then
be sent or left out.  Three requests are a first attempt, a retry that overtakes it, and
one of another delivery or after the hour; two chats are a key that is used again for
something else (another text is refused in the same place), two processes one that goes on
after the other.

### Fairness

`Fairness` of ToolTasks: a spawned or resumed step is executed (weak fairness of
`Spawn`, `Attach`, `FinishRemove`, `FinishRecord`, the steps of a canceller) because
tokio polls a woken task; a blocking write returns, landed or failed; `persist_lock` is a tokio
mutex, which is first come, first served, hence strong fairness of `SaveSnapshot`.
`FairSpec` of TurnLoop: the same for the steps of a run, strong fairness for
taking the run lock (also a tokio mutex), a round ends, a broadcast follows its save.
`TurnFairness` of Workflow: the steps of a turn that wait for no model, tool or user;
`Lock` strongly, as above; a supervisor run ends by its own timeout of 180 seconds; a
batch of tools ends because the foreground timeout detaches what still runs; and
`History` strongly, because a round has a bounded number of batches (`max_turns`).
Nothing makes a background task end, so `TurnEnds` says nothing of a turn that waits
for one, nor of one that a second turn has joined, which is given no fairness.
`AgentRunFairSpec`: every await of the run ends by itself, a question, a hook, a
reviewing model, but for a tool that executes and a person who is asked; where a select
holds the token, it is taken at some time (strongly in the stream of an answer, where
other events compete with it).
`ApplicationFairSpec`: dispatch and the tasks of runs are polled, the run lock is first
come, first served, and a cancelled turn that is neither sending nor asking ends, which
is `CancelEnds` of `AgentRun`.  Only the run with the violation adds that models answer
and clients read (`ApplicationEagerSpec`), so that its counterexample cannot be
laid to them.  `PartsFairSpec` of MCParts gives each of its parts the fairness of its
module.  The stores and the outbox have no liveness property and no fairness: a
delivery goes on when somebody sends its key again.
Nothing is assumed of tools, users, cancellations, errors, or claims, and nothing
makes a run start a task.  That rounds end is an assumption about the model
and its tools and not about this code.

## 4. Proofs

`ToolTasks_proofs`, `TurnLoop_proofs`, `Workflow_proofs`, `Application_proofs`,
`AgentRun_proofs`, `Memory_proofs`, `ChatGptAuth_proofs` and `Stores_proofs` (of
`Sessions` and `Outbox`) prove, for every value of the constants that the named
assumptions allow (finite sets of tasks and tools, distinct names for "none" and for clients of different kinds, natural bounds):

| Theorem | Argument |
|---|---|
| `ToolTasks_proofs!TypeCorrect` | `TypeOK` is inductive; lemmas type a pruned image and a loaded one |
| `ClaimedOnceAlways` | `ClaimedOnce` is not inductive: a claim is not saved, so an older image may be loaded. `ClaimIsBarred` adds that a claimed task has no record or a delivered one, which pruning and loading keep; `UnbornLeavesNoTrace` adds that no image holds a task that was never started, so that no record is started over |
| `OutcomeIsFinalAlways` | action property, from `TypeOK` and `UnbornLeavesNoTrace` |
| `RunningHasOwnerAlways`, `CompletionIsAnnouncedAlways` | inductive with `ManagerInv`.  Its `Handover` says what is known of a task before its attach has run: a run entry that is missing then was taken by a canceller that has still to write the record, so the abort of the late attach orphans only an immediate tool.  `Unpromoted` says that no record asks for a notification before, `StoresAreSound` that every image lags behind memory: a load makes nothing run that had ended |
| `DiskSettlesAlways` | the property is of states in which no save was dropped and the last write has not failed; a failed one counts until a later one lands.  From `Written`: `persist_lock` lets one write be in flight (`OneWriter`), and when nobody is still to take a snapshot it carries what memory has, or the file does (`Fresh`).  Every step that changes a status queues a save; `Savers` says who is in none, so that it can |
| `ManagerImplementsTaskBoard` | `Init` maps to the board's, and each of the 21 actions to a step of the board or to none, under `UnbornLeavesNoTrace` (a start maps to a start), `ClaimIsBarred` (a claim to the first one) and `StoresAreSound` (a load maps to the board's restart) |
| `TurnLoop_proofs!TypeCorrect` | `TypeOK` with its conjunct `Serving`: a live run has the queue it drains, without which `pending[inner[r]]` is undefined |
| `RoundsExcludeAlways` | inductive with the types: only a free lock is taken |
| `ActiveIsServedAlways` | inductive with the types: whoever leaves `Live` or gives up a registration takes the queue out of `active_steers` |
| `QueuedIsActiveAlways` | inductive with the types, by lemmas on drain and push |
| `QueueIsServedAlways` | the two before |
| `SteerInOnePlaceAlways`, `InformedOnceAlways` | the properties count; the invariant `PlaceInv` does not: nothing is queued twice (`OnceQueued`), what is queued or held is nowhere else (`QueuedIsFree`, `HeldOnce`), what was accepted is somewhere.  It needs `HandsEmpty`, a run holds messages only in a round and on its way to one, since a drain replaces what it holds, and that a run's own message is nowhere until its first lock (`YoungIsNowhere`).  Cardinalities of at most one follow at the end |
| `Workflow_proofs!TypeCorrect` | `TypeOK` needs `Holding`: a turn that stores has a user state, and one that decides has loaded an active instance, without which `raw[s]` and `loaded[s].node` are undefined |
| `CopiesAreCoherentAlways` | inductive with `TypeInv`, by one lemma on what each operation makes of a coherent instance |
| `RoundBudgetAlways` | `BudgetInv` relates `given` to `round` and to the evaluation a turn is in: the message at the head is the one above the limit, and a turn in its rounds cannot come back to the head, where `round` is reset |
| `QuietCommandHoldsAlways` | `QuietInv`: outside a round nothing is carried, and once a quiet command has landed every copy anybody holds agrees with it |
| `CancelPausesAlways` | action property, from `HaltInv`: while the workflow on disk is halted by anything but a command, what a turn carries is not active, unless the turn is in `overtaken`.  Where the turn has paused or resumed the workflow itself, the override makes up for the older copy (`override` unset means that the copy is as old as the round, and still agrees); the run lock keeps rounds apart (`LockInv`, `RoundsApart`), and `QuietInv` says that a round begins with nothing carried |
| `RunIsSound` | `RunInv` is inductive; TLC checks it in every state of the instance of `MCAgentRun` too.  `TalkInv`: the conversation in progress has every result in its place (`Tidy`), only the calls it ends with have none, and outside a batch it has the results of all tools that ran.  `CheckpointInv`: the last checkpoint is a conversation of the same run and has no result that the present one lacks; if it is of the question in progress it has them all, and all users.  `EmittedInv`: the last report is complete and has the steers.  `BatchInv`: the calls up to the group that is served are those to be asked about, approved or answered, each in one of the three, and a tool that ran is answered or in `results`.  Calls of later batches have higher numbers (`Numbered`), so that no answer meets a call of another batch |
| `InputIsComplete`, `SavedHistoryIsComplete`, `NothingSaidFalsely`, `EveryRunLeavesTrace`, `UsersAreSaved` | from `RunInv`.  The first is `TalkInv` in `chat`, with the lemma that results in their places are appended as they are (`ResultsInPlace`).  The others hold when the run ends, by one lemma for the ends with the last report or the recorder's note (`EndsReported`) and one for those with a history made at the end (`EndsSaved`): what a repair appends are the calls without a result (`Completed`), and a tool that ran has one, in the checkpoint if that is fresh, or in what is pushed (`ExecutionCancelledStep`) |
| `ApplicationTypeCorrect` | `ApplicationTypeOK` needs `FinishedIsOver`: dispatch forgets a run only when its task is over, so that every live task is listed |
| `NoGapAlways`, `WaiterIsPendingAlways` | with `Numbered`: a run that is not muted has delivered what it emitted, but for the event it is at, so an event that was left out has no successor; and with `AskedIsPending`: the request is there from before its event is sent until it is decided |
| `MemoryTypeCorrect` | from `Always`: besides the types, which steps each kind of client can be at, that a turn or a clear past its start holds the run lock, that a draft exists from its preparation to its end, and that nothing is both in the ledger and forgotten |
| `NothingHiddenAlways`, `SummariesHoldAlways` | from `Always` and `Quiet`, which holds unless `raced`: every indexed summary covers what its entry names and has its file; summaries age in order and the last of mid_term covers the most (`Ordered`), so that the latest is the one that counts; the copies that clients are about to write are what the indices are, and the files they are about to remove are of no index (`Current`); the agent of a loaded turn knows every message of the ledger, and its draft covers what it says (`Knows`).  A write that races with nobody leaves the copies of the others true (`OthersCurrent`), and the run lock leaves nobody else with something in mind (`LockHolderKnows`) |
| `AuthTypeCorrect`, `StoredIsUsableAlways`, `LogoutHoldsAlways` | from `AuthInv`.  `CallerInv` says what a caller may rely on: in a section it holds the lock and its copy is the record; a login of the record's generation was begun after the last logout, and nobody signed in since.  `StoredInv` says that a stored token is the registration's and the account's, and accepted unless its successor is under way.  The lemma `OtherIsOvertaken` does every caller but the one that saves: a new generation makes its login worthless |
| `AccountIsKeptAlways` | action property, from `AuthInv`: only `SaveLogin` changes the account |
| `SessionsTypeCorrect`, `IndexIsSoundAlways`, `ChannelIsDurableAlways`, `EndIsDurableAlways` | from `SessionsInv`, which demands of the store in memory and of the one on disk the same: an index that points to sessions bound to their channel, no sub-session of a session that was not made.  What was promised is in both, because a promise follows a successful save and every later change of memory keeps it |
| `OutboxTypeCorrect`, `AtMostOnceAlways`, `CompleteIsTrueAlways` | from `OutboxInv`.  `RecordInv` ties each record to its id: an id belongs to one key, is new while the record is pending, was refused if it is failed, was posted if it is sent.  `RequestInv` says that a request carries what its record says; that what was posted within the hour is remembered; and that what is on its way after the hour follows a failure (`LaunchStep`: any other state would have been withheld).  So a request that lands is the first, a duplicate, or the exception of `PostedOnce` (`LandStep`).  `ProcessInv` says that a process has its record as it is on disk, since it alone holds the lock |

Each step lemma has one step per action, or each action has a lemma.  Induction over
numbers is used for `EntriesIn` of `Memory_proofs` and for the two loops over a
conversation (`AppendResultsFresh`, `RepairedFacts` of `AgentRun_proofs`): it is derived
from the library's theorem that `<` on the naturals is well founded, for a set instead of a
predicate (`FromZero`).  The two lemmas say what the loops return for the conversations
that a run can have, tidy ones; what they return for any sequence is not stated.
`SetToSeqFacts` proves of the community operator what the model needs: an order in which
each member of a finite set occurs once.

Only model-checked: everything under fairness, which is out of the prover's reach,
as is ENABLED.  Of the action properties, `PauseSticks` and `CancelledIsPaused` are violated
(§5); the others are proved.

## 5. What the violations say

* **A late abort leaves an old file** (`DiskConverges`).  The collector is spawned
  before the task that attaches its abort handle.  A tool that is ready at once
  reaches its `save()` first, having removed its run entry; attach finds no entry,
  takes the task for cancelled and aborts the collector inside its save.  The record
  may then not be written, or an abandoned write lands after a later one.
* **A pause does not stick** (`PauseSticks`).  The command replies that the workflow is
  paused; a supervisor run in progress saves the instance it loaded before, and a round
  in progress saves the user state it began with, both active.  `QuietCommandHolds` is
  what does hold: a pause that no turn overlaps.  A clear is undone in the same way.
* **An uncertain message is sent again** (`UncertainIsNotResent`).  README.md:115 says that
  it is not, after the hour.  The code looks at the state of the record, and a retry that
  is refused before it is sent, or by Feishu, has made "failed" of "uncertain".
* **A cancellation that waits behind a fork** (`CancelReachesToken`).  `dispatch` awaits
  the copy of the thread, which waits for the run lock of the source.  A turn that holds
  it and asks for an approval waits for a decision that dispatch does not take; neither
  goes on, and no run of the application can be cancelled.
* **A cancelled turn makes an ended workflow active** (`CancelledIsPaused`).  The supervisor
  is asked at the head of a message or of a start command without the run lock.  If that
  evaluation ends the workflow, or pauses it, within the round of another turn, then the
  cancellation of that turn finds nothing active to pause and saves the active instance its
  round began with.  `CancelPauses` is what holds for any number of turns: only a turn that
  was so `overtaken` does it.

The models show further behaviours that no text of the repository denies, and that no
run is kept for:

* a tool that answers at its first poll may stay RUNNING: attach comes between the two locks
  of `finish()`, when the run entry is gone and the record not yet written, takes the task for
  cancelled and aborts the collector.  Nobody will write the outcome; the thread counts as
  running, and a turn waits for it, until the task is cancelled or the process ends.
  `AnsweredIsRecorded` and `RunningHasOwner` are stated with this (`LateAborted`), and without
  it TLC refutes both in MCParts;
* a cancelled task does not wake the run that waits for it (`cancel()`
  never sends on `completed_tx`);
* a write of the tool-task file that fails is reported to nobody; the file stays behind
  memory until the next save of the thread lands, and after a restart in between an ended
  task is one that was cancelled by the restart (`DiskSettles` is stated with this);
* a completion claimed by one of two runs that
  share a queue is dropped when the owner of the queue ends;
* a steer that was accepted and drained is in no history when its round is refused; ends
  with a denied approval, or without Done, before it has sent a History; or is cancelled and
  the driver's checkpoint is older than the injection (`forfeited` in TurnLoop, which
  `SteerInOnePlace` counts as a place: the property says that these are all the ways, and
  that nothing is lost out of a queue);
* a question that outlives its batch and is answered by a
  card leaves its workflow waiting;
* a clear that is cut off by an error or a crash may leave an index that names a removed file:
  until a further clear has finished, or a newer summary is the latest, the load of the
  thread fails (store.rs:527) where the latest is the one removed; and it leaves summaries without a
  ledger, on which the next compaction panics;
* a promotion that overlaps a compaction or a clear may
  leave an index that names a removed file, and one that overlaps another promotion an older
  summary as the latest (section 2): nothing in the code guards against either;
* a sub-session whose end was recorded by `record_sub_session` stays ended there when it runs
  again, since its new start cannot be told from a delayed one; through `upsert_sub_session` it
  is shown as running.

## 6. Plan

In this order, each module with its runs, the theorems named last:

1. done: `TaskBoard`, `ToolTasks`, `ToolTasksRefinement`, `TurnLoop` and proofs.
2. done: `Workflow` and proofs.  Left: `WorkflowGraph`, the pure algorithms of a
   definition (validate, jump targets, descendant path, decision) against
   reachability in a graph, and an abstract life cycle that `Workflow` implements.
3. done: `AgentRun` and proofs.  Left: an abstract round that it implements, for `TurnLoop`.
4. done: `Application` with approvals.  Left: waiting for a task, composed with
   `TaskBoard`, and `Asking`, user questions with the waiters of their channels.
5. done: `Memory`.  Left: copying and deleting a thread, the user state.
6. done: `ChatGptAuth`, `Sessions` and their proofs.  Left: `Todo`.
7. `AcpBackend`, `A2aDelegation`: protocol sessions with cancel and late answers.
8. done: `Outbox` and proofs.  Left: the control endpoint, `ReplyStream`,
   `ProfileRegistry`, `AtomicFile`.
9. done: proofs of every invariant and of every action property that a passing run
   checks, and of ToolTasks implements TaskBoard.

Not planned: user interfaces, formats, prompts, HTTP and websocket clients, the
tools themselves and configuration; `PROJECT.json` gives the reason per part.
