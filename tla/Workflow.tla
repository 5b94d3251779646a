------------------------------ MODULE Workflow ------------------------------
(***************************************************************************)
(* The supervisor workflow of one thread: its instance in the thread's     *)
(* user state (crates/bot-core/src/supervisor_workflow.rs), the turns that *)
(* advance, pause and resume it (crates/bot-core/src/runtime/mod.rs), and  *)
(* the commands and answers a user sends meanwhile.                        *)
(*                                                                         *)
(* Nobody locks the user state: a pause, a resume, a decision is a load, a *)
(* change of the loaded instance and a save, and a turn also carries the   *)
(* user state it loaded at the start of a round and saves it back after    *)
(* tools and at the end.  Each load and each save is a step of its own.    *)
(* A load with no later save of what was loaded is one step with the use.  *)
(*                                                                         *)
(* The definition is abstract: Jump says which nodes a decision can reach. *)
(* The thread has no goal of the old format and its environment context    *)
(* was stored before, so that loading the state writes nothing.            *)
(***************************************************************************)
EXTENDS Naturals

CONSTANTS
    Turn,           \* streams: one user message, or one "workflow start" command
    Client,         \* commands and answers that arrive beside them
    Question,       \* ids of ask_user_question calls, and so their bound
    Node, Initial, Terminal,
    Jump,           \* [Node -> SUBSET Node]: jump_targets of the definition
    Ask,            \* ASK_USER_FOR_HELP_NODE
    NoNode, NoInstance, NoTurn,
    Unset,          \* raw_user_state = None
    MaxRounds,      \* WorkflowMaxRounds::Limited
    MaxSteers,      \* bound: rounds a turn adds for steers
    CancelledTurn,  \* turns the user may cancel
    FailingTurn,    \* turns that may fail, or in which an approval is denied in a batch
    AsyncAgent,     \* StreamOptions.async_agent: a turn waits for its tasks
    Detaching,      \* a question may outlive its batch of tools
    Order           \* commands a client may send

ASSUME NodeAssumption ==
    /\ Initial \in Node /\ Terminal \in Node /\ Ask \notin Node
    /\ NoNode \notin Node \cup {Ask}
    /\ Jump \in [Node -> SUBSET Node]
ASSUME BoundAssumption ==
    /\ MaxRounds \in Nat /\ MaxSteers \in Nat
    /\ CancelledTurn \subseteq Turn /\ FailingTurn \subseteq Turn
    /\ AsyncAgent \in BOOLEAN /\ Detaching \in BOOLEAN /\ NoTurn \notin Turn
    /\ Order \subseteq {"pause", "clear", "start"}

Status == {"active", "paused", "completed", "error"}
Reason == {"none", "manual", "input", "interrupted"}
\* WorkflowInstance; back is ask_user_for_help.return_node, round that of last_report.
Instance == [node : Node \cup {Ask}, status : Status, reason : Reason,
             back : Node \cup {Ask, NoNode}, round : Nat]

ASSUME NameAssumption == NoInstance \notin Instance /\ Unset \notin Instance /\ Unset # NoInstance

VARIABLES
    disk,       \* the instance in user_state.json
    question,   \* per question: not asked yet, up to answered and taken by its asker
    asker,      \* per question: the turn whose batch of tools it belongs to
    lock,       \* holder of the thread's run lock
    pc, next,   \* per turn: where it is; where it goes after a save
    at,         \* per turn: which evaluation is running
    loaded,     \* per turn: the instance it loaded, changed and will save
    copy,       \* per turn: the instance in the agent's user state
    raw,        \* per turn: raw_user_state
    override,   \* per turn: workflow_user_state_override
    unjudged,   \* turns whose round asked the user or was interrupted
    round,      \* per turn: supervisor_round
    given,      \* history: messages the supervisor gave the agent in this turn
    hooked,     \* turns the Stop hook has continued
    steers,     \* per turn: rounds added for steers
    cpc, held,  \* per client: where it is, the instance it will save
    kept,       \* history: the last command that landed while nobody carried an instance
    overtaken   \* history: turns in whose round another turn ended or paused the workflow

turns == <<pc, next, at, loaded, copy, raw, override, unjudged, round, given, hooked, steers>>
clients == <<cpc, held>>
marks == <<kept, overtaken>>
vars == <<disk, question, asker, lock, turns, clients, marks>>

Maybe == Instance \cup {NoInstance}
Pc == {"idle", "evaluate", "deciding", "saving", "locking", "entered", "open", "round",
       "batch", "storing", "showing", "ending", "persisting", "cancelling", "cancelled",
       "settled", "relock", "judging", "stopping", "closing", "reported", "done"}
\* Where a turn goes on after a save.
Then == {"locking", "open", "showing", "batch", "ending", "cancelled", "stopping", "reported",
         "done"}

TypeOK ==
    /\ disk \in Maybe
    /\ question \in [Question -> {"new", "raised", "pending", "answered", "closed"}]
    /\ asker \in [Question -> Turn \cup {NoTurn}]
    /\ lock \in Turn \cup {NoTurn}
    /\ pc \in [Turn -> Pc] /\ next \in [Turn -> Then]
    /\ at \in [Turn -> {"start", "head", "round"}]
    /\ loaded \in [Turn -> Maybe] /\ copy \in [Turn -> Maybe]
    /\ raw \in [Turn -> Maybe \cup {Unset}] /\ override \in [Turn -> Maybe]
    /\ unjudged \subseteq Turn /\ hooked \subseteq Turn
    /\ round \in [Turn -> Nat] /\ given \in [Turn -> Nat] /\ steers \in [Turn -> 0..MaxSteers]
    /\ cpc \in [Client -> {"idle", "answered", "saving", "done"}] /\ held \in [Client -> Maybe]
    /\ kept \in {"none", "pause", "clear"} /\ overtaken \subseteq Turn

------------------------------------------------------------------------------
(* The instance. *)

Started == [node |-> Initial, status |-> "active", reason |-> "none", back |-> NoNode, round |-> 0]
IsActive(i) == i # NoInstance /\ i.status = "active"
IsPaused(i, why) == i # NoInstance /\ i.status = "paused" /\ i.reason = why
IsWaiting_ByNode(i) == i # NoInstance /\ i.node = Ask /\ i.back # NoNode
IsWaiting(i) == IsPaused(i, "input") /\ i.node = Ask /\ i.back # NoNode

PausedByUser(i) == [i EXCEPT !.status = "paused", !.reason = "manual"]
Interrupted(i, r) == [i EXCEPT !.status = "paused", !.reason = "interrupted", !.round = r]
Uninterrupted(i, r) == [i EXCEPT !.status = "active", !.reason = "none", !.round = r]
EnteredAsk(i, r) ==
    [node |-> Ask, status |-> "paused", reason |-> "input", back |-> i.node, round |-> r]
LeftAsk_KeepsReturn(i, r) ==
    [i EXCEPT !.node = i.back, !.status = "active", !.reason = "none", !.round = r]
LeftAsk(i, r) ==
    [node |-> i.back, status |-> "active", reason |-> "none", back |-> NoNode, round |-> r]
Failed(i, r) == [i EXCEPT !.status = "error", !.round = r]

\* apply_decision: stay at the current node, or jump and complete at the terminal one.
Decided(i, n, r) ==
    [i EXCEPT !.node = n, !.round = r,
              !.status = IF n = Terminal /\ n # i.node THEN "completed" ELSE "active"]
\* A decision comes with a message unless it completes the workflow.
HasMessage(i) == i.status = "active"

Init ==
    /\ disk \in {NoInstance, Started}
    /\ question = [q \in Question |-> "new"] /\ asker = [q \in Question |-> NoTurn]
    /\ lock = NoTurn
    /\ pc = [s \in Turn |-> "idle"] /\ next = [s \in Turn |-> "done"]
    /\ at = [s \in Turn |-> "head"]
    /\ loaded = [s \in Turn |-> NoInstance] /\ copy = [s \in Turn |-> NoInstance]
    /\ raw = [s \in Turn |-> Unset] /\ override = [s \in Turn |-> NoInstance]
    /\ unjudged = {} /\ hooked = {}
    /\ round = [s \in Turn |-> 0] /\ given = [s \in Turn |-> 0] /\ steers = [s \in Turn |-> 0]
    /\ cpc = [c \in Client |-> "idle"] /\ held = [c \in Client |-> NoInstance]
    /\ kept = "none" /\ overtaken = {}

------------------------------------------------------------------------------
(* Steps of a turn. *)

Goto(s, label) == pc' = [pc EXCEPT ![s] = label]
Save(s, i, label) ==
    /\ loaded' = [loaded EXCEPT ![s] = i]
    /\ next' = [next EXCEPT ![s] = label]
    /\ Goto(s, "saving")
Skip(s, label) == Goto(s, label) /\ UNCHANGED <<loaded, next>>

carried == <<copy, raw, override>>
counters == <<round, given, hooked, steers>>
asking == <<question, asker>>

\* Where a turn carries an instance that it has loaded and may still save, in its
\* round or in an evaluation.
RoundPc == {"round", "batch", "storing", "showing", "ending", "persisting", "cancelling",
            "cancelled"}
Carrying == RoundPc \cup {"deciding", "saving"}
InRound(s) == pc[s] \in RoundPc \/ (pc[s] = "saving" /\ next[s] \in RoundPc)

\* save_workflow_instance after whatever changed the loaded instance.
SaveInstance(s) ==
    /\ pc[s] = "saving"
    /\ disk' = loaded[s]
    /\ loaded' = [loaded EXCEPT ![s] = NoInstance]
    /\ next' = [next EXCEPT ![s] = "done"]
    /\ Goto(s, next[s])
    /\ overtaken' = IF IsActive(loaded[s]) THEN overtaken
                     ELSE overtaken \cup {t \in Turn \ {s} : InRound(t)}
    /\ UNCHANGED <<asking, lock, at, carried, unjudged, counters, clients, kept>>

\* A user message: with an active workflow the supervisor is asked first.
Message(s) ==
    /\ pc[s] = "idle"
    /\ IF IsActive(disk)
       THEN /\ Goto(s, "evaluate")
            /\ round' = [round EXCEPT ![s] = disk.round]
       ELSE Goto(s, "locking") /\ UNCHANGED round
    /\ UNCHANGED <<disk, asking, lock, next, at, loaded, carried, unjudged, given, hooked, steers,
                   clients, marks>>

\* A workflow command that starts a workflow and evaluates it at once.
StartWorkflow(s) ==
    /\ pc[s] = "idle" /\ "start" \in Order
    /\ disk' = Started
    /\ at' = [at EXCEPT ![s] = "start"]
    /\ Goto(s, "evaluate")
    /\ kept' = "none"
    /\ UNCHANGED <<asking, lock, next, loaded, carried, unjudged, counters, clients, overtaken>>

\* WorkflowRoundOutcome::NoWorkflow.
Unsupervised(s) == IF at[s] = "round" THEN "stopping" ELSE "done"
\* WorkflowRoundOutcome::Report.
Reported(s) ==
    CASE at[s] = "round" -> "stopping" [] at[s] = "head" -> "reported" [] OTHER -> "done"

\* evaluate_workflow_after_round loads the instance it will decide about.
Evaluate(s) ==
    /\ pc[s] = "evaluate"
    /\ IF IsActive(disk)
       THEN loaded' = [loaded EXCEPT ![s] = disk] /\ Goto(s, "deciding")
       ELSE Goto(s, Unsupervised(s)) /\ UNCHANGED loaded
    /\ UNCHANGED <<disk, asking, lock, next, at, carried, unjudged, counters, clients, marks>>

\* Continue: the message starts the inner stream of a head evaluation, or one
\* more round.  Without a message, or at the limit, the turn only reports.
Continues_OneMore(s, i) == HasMessage(i) /\ round[s] <= MaxRounds
Continues(s, i) == HasMessage(i) /\ round[s] < MaxRounds

Decide(s, n) ==
    /\ pc[s] = "deciding"
    /\ loaded[s].node \in Node  \* render_supervisor_prompt
    /\ n \in Jump[loaded[s].node] \cup {loaded[s].node}
    /\ LET i == Decided(loaded[s], n, round[s]) IN
         IF Continues(s, i)
         THEN /\ given' = [given EXCEPT ![s] = @ + 1]
              /\ round' = [round EXCEPT ![s] = @ + 1]
              /\ Save(s, i, IF at[s] = "round" THEN "open" ELSE "locking")
         ELSE /\ Save(s, i, Reported(s))
              /\ UNCHANGED <<given, round>>
    /\ UNCHANGED <<disk, asking, lock, at, carried, unjudged, hooked, steers, clients, marks>>

\* workflow_error: a failing model, a timeout, no valid decision in three attempts.
DecideFails(s) ==
    /\ pc[s] = "deciding"
    /\ Save(s, Failed(loaded[s], round[s]), Reported(s))
    /\ UNCHANGED <<disk, asking, lock, at, carried, unjudged, counters, clients, marks>>

\* SupervisorNodeOutcome::Cancelled loads again before it pauses.
DecideCancelled(s) ==
    /\ pc[s] = "deciding" /\ s \in CancelledTurn
    /\ IF IsActive(disk)
       THEN Save(s, Interrupted(disk, round[s]), Reported(s)) /\ UNCHANGED lock
       ELSE Skip(s, "done") /\ lock' = IF lock = s THEN NoTurn ELSE lock
    /\ UNCHANGED <<disk, asking, at, carried, unjudged, counters, clients, marks>>

\* After the report of a head evaluation a steer that came meanwhile is a turn.
AfterReport(s) ==
    /\ pc[s] = "reported"
    /\ \/ Goto(s, "done") /\ UNCHANGED steers
       \/ /\ steers[s] < MaxSteers
          /\ steers' = [steers EXCEPT ![s] = @ + 1]
          /\ Goto(s, "locking")
    /\ UNCHANGED <<disk, asking, lock, next, at, loaded, carried, unjudged, round, given, hooked,
                   clients, marks>>

\* stream_with_options: its local variables and the run lock.
Lock(s) ==
    /\ pc[s] = "locking" /\ lock = NoTurn
    /\ lock' = s
    /\ round' = [round EXCEPT ![s] = 0]
    /\ at' = [at EXCEPT ![s] = "round"]
    /\ Goto(s, "entered")
    /\ UNCHANGED <<disk, asking, next, loaded, carried, unjudged, given, hooked, steers, clients, marks>>

\* resume_workflow_from_user_interruption, before the first round only.
ResumeInterrupted(s) ==
    /\ pc[s] = "entered"
    /\ IF IsPaused(disk, "interrupted")
       THEN Save(s, Uninterrupted(disk, round[s]), "open")
       ELSE Skip(s, "open")
    /\ UNCHANGED <<disk, asking, lock, at, carried, unjudged, counters, clients, marks>>

\* The head of a round: the agent's user state is what load_context found.
OpenRound(s) ==
    /\ pc[s] = "open"
    /\ copy' = [copy EXCEPT ![s] = disk]
    /\ unjudged' = unjudged \ {s}
    /\ overtaken' = overtaken \ {s}
    /\ Goto(s, "round")
    /\ UNCHANGED <<disk, asking, lock, next, at, loaded, raw, override, counters, clients, kept>>

\* An unknown agent, a context that cannot be loaded.
Refuse(s) ==
    /\ pc[s] = "open" /\ s \in FailingTurn
    /\ Goto(s, "done") /\ lock' = NoTurn
    /\ UNCHANGED <<disk, asking, next, at, loaded, carried, unjudged, counters, clients, marks>>

\* workflow_status again, if this turn paused or resumed the workflow in this
\* round; a workflow that is gone leaves the override as it was.
Refreshed(s) == IF override[s] # NoInstance /\ disk # NoInstance THEN disk ELSE override[s]
\* set_instance_in_user_state with the override, if there is one.
Merged(s, i) == IF override[s] # NoInstance THEN Refreshed(s) ELSE i

\* A batch ends: questions still open are detached, or their tools dropped.
LeaveBatch(s) == asker' = [q \in Question |-> IF asker[q] = s THEN NoTurn ELSE asker[q]]

\* The tools of a batch are done, or those still asking were detached:
\* StateUpdate persists the agent's user state.
StateUpdate(s) ==
    /\ pc[s] \in {"round", "batch"}
    /\ \A q \in Question :
          asker[q] = s => question[q] = "closed" \/ (Detaching /\ question[q] = "pending")
    /\ LeaveBatch(s)
    /\ raw' = [raw EXCEPT ![s] = Merged(s, copy[s])]
    /\ override' = [override EXCEPT ![s] = Refreshed(s)]
    /\ Goto(s, "storing")
    /\ UNCHANGED <<disk, question, lock, next, at, loaded, copy, unjudged, counters, clients, marks>>
PersistIntermediate(s) ==
    /\ pc[s] = "storing"
    /\ disk' = raw[s]
    /\ Goto(s, "round")
    /\ UNCHANGED <<asking, lock, next, at, loaded, carried, unjudged, counters, clients, marks>>

\* A pause or resume by the turn itself becomes the override of this round.
Overrides(s, i, rawAfter) ==
    /\ override' = [override EXCEPT ![s] = i]
    /\ raw' = [raw EXCEPT ![s] = rawAfter]
    /\ UNCHANGED copy

\* UserQuestionRequested: the workflow waits at Ask before the user sees the question.
AskQuestion(s, q) ==
    /\ pc[s] \in {"round", "batch"} /\ question[q] = "new"
    /\ question' = [question EXCEPT ![q] = "raised"]
    /\ asker' = [asker EXCEPT ![q] = s]
    /\ unjudged' = unjudged \cup {s}
    /\ IF IsActive(disk)
       THEN LET i == EnteredAsk(disk, round[s]) IN
            /\ Save(s, i, "showing")
            /\ Overrides(s, i, IF raw[s] = Unset THEN Unset ELSE i)
       ELSE Skip(s, "showing") /\ UNCHANGED carried
    /\ UNCHANGED <<disk, lock, at, counters, clients, marks>>
ShowQuestion(s, q) ==
    /\ pc[s] = "showing" /\ asker[q] = s /\ question[q] = "raised"
    /\ question' = [question EXCEPT ![q] = "pending"]
    /\ Goto(s, "batch")
    /\ UNCHANGED <<disk, asker, lock, next, at, loaded, carried, unjudged, counters, clients, marks>>

\* UserQuestionResolved, seen by the turn while the batch of the question runs.
TakeAnswer(s, q) ==
    /\ pc[s] = "batch" /\ asker[q] = s /\ question[q] = "answered"
    /\ question' = [question EXCEPT ![q] = "closed"]
    /\ IF IsWaiting(disk)
       THEN LET i == LeftAsk(disk, round[s]) IN
            /\ Save(s, i, "batch")
            /\ Overrides(s, i, IF raw[s] = Unset THEN Unset ELSE i)
       ELSE Skip(s, "batch") /\ UNCHANGED carried
    /\ UNCHANGED <<disk, asker, lock, at, unjudged, counters, clients, marks>>

\* UserInterrupted: an approval was denied while the turn waited for it.
Interrupt(s) ==
    /\ pc[s] = "round"
    /\ unjudged' = unjudged \cup {s}
    /\ IF IsActive(disk)
       THEN LET i == Interrupted(disk, round[s]) IN
            /\ Save(s, i, "ending") /\ Overrides(s, i, i)
       ELSE Skip(s, "ending") /\ UNCHANGED carried
    /\ UNCHANGED <<disk, asking, lock, at, counters, clients, marks>>

\* History: the agent's final user state; Done or Cancelled follows.
History(s) ==
    /\ \/ pc[s] = "round" /\ Goto(s, "ending")
       \/ pc[s] \in {"round", "batch"} /\ s \in CancelledTurn /\ Goto(s, "cancelling")
    /\ LeaveBatch(s)
    /\ raw' = [raw EXCEPT ![s] = Merged(s, copy[s])]
    /\ override' = [override EXCEPT ![s] = Refreshed(s)]
    /\ UNCHANGED <<disk, question, lock, next, at, loaded, copy, unjudged, counters, clients, marks>>

\* Done and Cancelled without a History: an approval denied inside a batch, a
\* cancellation before the first checkpoint or during an approval.
EndsEarly(s) ==
    /\ \/ pc[s] = "batch" /\ s \in FailingTurn /\ Goto(s, "ending")
       \/ pc[s] = "round" /\ s \in CancelledTurn /\ Goto(s, "cancelling")
    /\ LeaveBatch(s)
    /\ UNCHANGED <<disk, question, lock, next, at, loaded, carried, unjudged, counters, clients, marks>>

\* The variables of a round go out of scope once its user state is saved.
Carried_Initial(s) == copy[s]
Carried(s) == IF raw[s] = Unset THEN copy[s] ELSE raw[s]
EndRound(s) ==
    /\ copy' = [copy EXCEPT ![s] = NoInstance]
    /\ raw' = [raw EXCEPT ![s] = Unset]
    /\ override' = [override EXCEPT ![s] = NoInstance]

\* Done: the last merge, then persist_turn.
Done(s) ==
    /\ pc[s] = "ending"
    /\ override' = [override EXCEPT ![s] = Refreshed(s)]
    /\ raw' = [raw EXCEPT ![s] = IF @ = Unset THEN Unset ELSE Merged(s, @)]
    /\ Goto(s, "persisting")
    /\ UNCHANGED <<disk, asking, lock, next, at, loaded, copy, unjudged, counters, clients, marks>>
PersistTurn(s) ==
    /\ pc[s] = "persisting"
    /\ disk' = IF raw[s] = Unset THEN disk ELSE raw[s]
    /\ EndRound(s) /\ Goto(s, "settled")
    /\ UNCHANGED <<asking, lock, next, at, loaded, unjudged, counters, clients, marks>>

\* Cancelled: pause, then persist what the turn carries.
CancelRound(s) ==
    /\ pc[s] = "cancelling"
    /\ IF IsActive(disk)
       THEN LET i == Interrupted(disk, round[s]) IN
            Save(s, i, "cancelled") /\ Overrides(s, i, i)
       ELSE Skip(s, "cancelled") /\ UNCHANGED carried
    /\ UNCHANGED <<disk, asking, lock, at, unjudged, counters, clients, marks>>
PersistCancelled(s) ==
    /\ pc[s] = "cancelled"
    /\ disk' = Carried(s)
    /\ EndRound(s) /\ Goto(s, "done") /\ lock' = NoTurn
    /\ UNCHANGED <<asking, next, at, loaded, unjudged, counters, clients, marks>>

\* Error: a best-effort save of what the turn carries.
FailRound(s) ==
    /\ pc[s] = "round" /\ s \in FailingTurn
    /\ disk' = Carried(s)
    /\ EndRound(s) /\ Goto(s, "closing")
    /\ UNCHANGED <<asking, lock, next, at, loaded, unjudged, counters, clients, marks>>

\* A steer drained after the round is the content of one more round.
SteerRound(s) ==
    /\ pc[s] \in {"settled", "closing"} /\ steers[s] < MaxSteers
    /\ steers' = [steers EXCEPT ![s] = @ + 1]
    /\ Goto(s, "open")
    /\ UNCHANGED <<disk, asking, lock, next, at, loaded, carried, unjudged, round, given, hooked,
                   clients, marks>>

\* The wait for background tasks gives up the run lock.
WaitForTasks(s) ==
    /\ pc[s] = "settled" /\ AsyncAgent
    /\ lock' = NoTurn /\ Goto(s, "relock")
    /\ UNCHANGED <<disk, asking, next, at, loaded, carried, unjudged, counters, clients, marks>>
\* The wait ends with the last task, or with a steer and so one more round.
Relock(s) ==
    /\ pc[s] = "relock" /\ lock = NoTurn
    /\ lock' = s
    /\ \/ Goto(s, "judging") /\ UNCHANGED steers
       \/ /\ steers[s] < MaxSteers
          /\ steers' = [steers EXCEPT ![s] = @ + 1]
          /\ Goto(s, "open")
    /\ UNCHANGED <<disk, asking, next, at, loaded, carried, unjudged, round, given, hooked,
                   clients, marks>>
\* A cancellation of the wait pauses nothing.
CancelWait(s) ==
    /\ pc[s] = "relock" /\ s \in CancelledTurn
    /\ Goto(s, "done")
    /\ UNCHANGED <<disk, asking, lock, next, at, loaded, carried, unjudged, counters, clients, marks>>
Settle(s) ==
    /\ pc[s] = "settled"
    /\ Goto(s, "judging")
    /\ UNCHANGED <<disk, asking, lock, next, at, loaded, carried, unjudged, counters, clients, marks>>
\* No supervisor after a round that asked the user or was interrupted.
Judge(s) ==
    /\ pc[s] = "judging"
    /\ Goto(s, IF s \in unjudged THEN "stopping" ELSE "evaluate")
    /\ UNCHANGED <<disk, asking, lock, next, at, loaded, carried, unjudged, counters, clients, marks>>

\* The Stop hook may ask for one more round, once in a turn.
StopHook_EveryTime(s) ==
    /\ pc[s] = "stopping"
    /\ Goto(s, "closing") \/ Goto(s, "open")
    /\ UNCHANGED <<disk, asking, lock, next, at, loaded, carried, unjudged, counters, clients, marks>>
StopHook(s) ==
    /\ pc[s] = "stopping"
    /\ \/ Goto(s, "closing") /\ UNCHANGED <<round, hooked>>
       \/ /\ s \notin hooked
          /\ hooked' = hooked \cup {s}
          /\ round' = [round EXCEPT ![s] = @ + 1]
          /\ Goto(s, "open")
    /\ UNCHANGED <<disk, asking, lock, next, at, loaded, carried, unjudged, given, steers, clients, marks>>
Close(s) ==
    /\ pc[s] = "closing"
    /\ Goto(s, "done") /\ lock' = NoTurn
    /\ UNCHANGED <<disk, asking, next, at, loaded, carried, unjudged, counters, clients, marks>>

------------------------------------------------------------------------------
(* Commands and answers. *)

Hold(c, i, label) == held' = [held EXCEPT ![c] = i] /\ cpc' = [cpc EXCEPT ![c] = label]
ClientDone(c) == cpc' = [cpc EXCEPT ![c] = "done"] /\ UNCHANGED held

Quiet(c) ==
    /\ \A s \in Turn : pc[s] \notin Carrying
    /\ \A d \in Client \ {c} : cpc[d] # "saving"

\* pause_workflow and stop_workflow, whatever the status.
PauseWorkflow(c) ==
    /\ cpc[c] = "idle" /\ "pause" \in Order
    /\ IF disk # NoInstance THEN Hold(c, PausedByUser(disk), "saving") ELSE ClientDone(c)
    /\ UNCHANGED <<disk, asking, lock, turns, marks>>
SaveHeld(c) ==
    /\ cpc[c] = "saving"
    /\ disk' = held[c]
    /\ kept' = IF Quiet(c) /\ IsPaused(held[c], "manual") THEN "pause" ELSE kept
    /\ Hold(c, NoInstance, "done")
    /\ UNCHANGED <<asking, lock, turns, overtaken>>
ClearWorkflow(c) ==
    /\ cpc[c] = "idle" /\ "clear" \in Order
    /\ disk' = NoInstance
    /\ kept' = IF Quiet(c) THEN "clear" ELSE kept
    /\ ClientDone(c)
    /\ UNCHANGED <<asking, lock, turns, overtaken>>
StartWorkflowById(c) ==
    /\ cpc[c] = "idle" /\ "start" \in Order
    /\ disk' = Started
    /\ kept' = "none"
    /\ ClientDone(c)
    /\ UNCHANGED <<asking, lock, turns, overtaken>>

\* answer_user_question answers the manager's request, then resumes the
\* workflow; a Feishu card and a cancelled question do only the former.
AnswerQuestion(c, q) ==
    /\ cpc[c] = "idle" /\ question[q] = "pending"
    /\ question' = [question EXCEPT ![q] = "answered"]
    /\ \E label \in {"answered", "done"} : cpc' = [cpc EXCEPT ![c] = label]
    /\ UNCHANGED <<disk, asker, lock, turns, held, marks>>
ResumeAnswered(c) ==
    /\ cpc[c] = "answered"
    /\ IF IsWaiting(disk) THEN Hold(c, LeftAsk(disk, 0), "saving") ELSE ClientDone(c)
    /\ UNCHANGED <<disk, asking, lock, turns, marks>>

------------------------------------------------------------------------------
Asking(s) == \E q \in Question : AskQuestion(s, q) \/ ShowQuestion(s, q) \/ TakeAnswer(s, q)
Deciding(s) == (\E n \in Node : Decide(s, n)) \/ DecideFails(s) \/ DecideCancelled(s)
\* What a turn does without waiting for its model, its tools or its user.
Advance(s) ==
    \/ SaveInstance(s) \/ Evaluate(s) \/ AfterReport(s) \/ ResumeInterrupted(s) \/ OpenRound(s)
    \/ Refuse(s) \/ PersistIntermediate(s) \/ Done(s) \/ PersistTurn(s) \/ CancelRound(s)
    \/ PersistCancelled(s) \/ SteerRound(s) \/ WaitForTasks(s) \/ Settle(s) \/ Judge(s)
    \/ StopHook(s) \/ Close(s)
Agent(s) ==
    \/ StateUpdate(s) \/ Interrupt(s) \/ History(s) \/ EndsEarly(s) \/ FailRound(s)
TurnNext(s) ==
    \/ Message(s) \/ StartWorkflow(s) \/ Lock(s) \/ Relock(s) \/ CancelWait(s) \/ Deciding(s)
    \/ Asking(s) \/ Agent(s) \/ Advance(s)
ClientNext(c) ==
    \/ PauseWorkflow(c) \/ SaveHeld(c) \/ ClearWorkflow(c) \/ StartWorkflowById(c)
    \/ ResumeAnswered(c) \/ \E q \in Question : AnswerQuestion(c, q)
Next == (\E s \in Turn : TurnNext(s)) \/ (\E c \in Client : ClientNext(c))

Spec == Init /\ [][Next]_vars
\* Tokio polls a woken task and its mutex is first come, first served; the model
\* of a supervisor answers or is timed out; a batch of tools ends (the foreground
\* timeout detaches a question) and a round has a bounded number of them (max_turns).
\* Nothing is assumed of background tasks, so nothing of a turn that waits for them.
TurnFairness(s) ==
    /\ WF_vars(Advance(s)) /\ SF_vars(Lock(s)) /\ WF_vars(Deciding(s))
    /\ WF_vars(\E q \in Question : ShowQuestion(s, q) \/ TakeAnswer(s, q))
    /\ WF_vars(pc[s] = "batch" /\ StateUpdate(s))
    /\ SF_vars(History(s))
ClientFairness == \A c \in Client : WF_vars(SaveHeld(c) \/ ResumeAnswered(c))

------------------------------------------------------------------------------
(* Properties. *)

Coherent(i) ==
    i # NoInstance =>
        /\ i.node = Ask <=> i.back # NoNode
        /\ i.back # Ask
        /\ i.node = Ask => i.status = "paused" /\ i.reason \in {"input", "manual"}
        /\ i.reason = "input" => i.node = Ask
        /\ i.status = "active" => i.reason = "none"
        /\ i.status = "completed" => i.node = Terminal

\* However saves and loads interleave, the instance on disk and every copy that
\* may still be saved are ones the supervisor can go on from: a workflow waits at
\* Ask exactly when it knows the node to return to, and is then paused
\* (enter_ask_user_for_help, resume_from_ask_user_for_help); an active one is at
\* a node of its definition and has no pause left over.
CopiesAreCoherent ==
    /\ Coherent(disk)
    /\ \A s \in Turn :
          /\ Coherent(loaded[s]) /\ Coherent(copy[s]) /\ Coherent(override[s])
          /\ raw[s] # Unset => Coherent(raw[s])
    /\ \A c \in Client : Coherent(held[c])

\* A turn gets at most max_rounds messages of the supervisor after the one that
\* may have opened it, whatever steers, Stop hooks and other writers add
\* (workflow_round_allows_continue).
RoundBudget == \A s \in Turn : given[s] <= MaxRounds + 1

\* A pause or clear that lands while nobody carries an instance holds until a
\* workflow is started: later messages, answers to old questions, interruptions
\* and supervisor runs do not make the workflow active again (pause_workflow,
\* clear_workflow).
QuietCommandHolds ==
    /\ kept = "pause" => ~IsActive(disk)
    /\ kept = "clear" => disk = NoInstance

\* What turn s saves last as it is cancelled makes a workflow active again that
\* has failed, is completed, interrupted or waits for the user.  A pause or clear
\* by command is another matter, see PauseSticks.
Revives(s) ==
    /\ pc[s] = "cancelled" /\ pc'[s] = "done" /\ IsActive(disk')
    /\ ~IsActive(disk) /\ ~IsPaused(disk, "manual") /\ disk # NoInstance

\* A cancelled turn pauses the workflow, then saves the user state its round
\* carries: the second save does not undo the first, nor what the round has done to
\* the workflow before (the Cancelled event of stream_with_options).  But a turn at
\* whose head the supervisor is asked has no run lock: what it saves in the round
\* of another turn, that turn overwrites when it is cancelled.
CancelPauses == [][\A s \in Turn : Revives(s) => s \in overtaken]_vars

\* The same without that condition: after a cancelled turn the workflow is not
\* active (cancelled_stream_pauses_active_supervisor_without_evaluation).
CancelledIsPaused == [][\A s \in Turn : ~Revives(s)]_vars

Starts == (\E s \in Turn : StartWorkflow(s)) \/ (\E c \in Client : StartWorkflowById(c))
\* A workflow the user paused becomes active by a new start only (the reply of
\* /workflow pause).
PauseSticks == [][IsPaused(disk, "manual") /\ IsActive(disk') => Starts]_vars
==============================================================================
