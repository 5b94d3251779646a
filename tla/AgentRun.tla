----------------------------- MODULE AgentRun ------------------------------
(***************************************************************************)
(* One run of the agent (crates/bot-core/src/agent.rs, with the loop       *)
(* driver of bot-runtime-core): it asks the core agent, an external crate, *)
(* and while that answers with tool calls it executes them and resumes.    *)
(* Steers are injected between two answers, the run may be cancelled at    *)
(* any await, and what the run reports last, a History, is what the turn   *)
(* of the runtime saves (persist_turn).                                    *)
(*                                                                         *)
(* A conversation is a sequence of messages; a call is named by its batch  *)
(* and its tool.                                                           *)
(***************************************************************************)
EXTENDS Integers, FiniteSets, Sequences, SequencesExt

CONSTANTS
    LocalTool,     \* tools of the runtime's registries
    DynamicTool,   \* tools of the channel the turn came from
    MissingTool,   \* names that are not registered, or not allowed
    Steer,         \* messages that may be queued while the run is active
    Opening,       \* the message the run starts with
    MaxCalls       \* bound: calls that the model makes in all

ASSUME AgentRunAssumption ==
    /\ IsFiniteSet(LocalTool) /\ IsFiniteSet(DynamicTool) /\ IsFiniteSet(MissingTool)
    /\ LocalTool \cap (DynamicTool \cup MissingTool) = {} /\ DynamicTool \cap MissingTool = {}
    /\ Opening \notin Steer /\ MaxCalls \in Nat

Tool == LocalTool \cup DynamicTool \cup MissingTool

\* Messages: of is the user's input, the calls made, the call that is
\* answered, or the calls that a synthesized note mentions.
Said(u) == [kind |-> "user", of |-> {<<0, u>>}, what |-> "none"]
Asks(C) == [kind |-> "calls", of |-> C, what |-> "none"]
Answered(c, what) == [kind |-> "result", of |-> {c}, what |-> what]
Note(C) == [kind |-> "note", of |-> C, what |-> "none"]
Speech == [kind |-> "text", of |-> {}, what |-> "none"]

VARIABLES
    phase,       \* where the run is
    loopInput,   \* the input of the next question: messages, results
    core,        \* the messages of the core agent
    checkpoint,  \* the loop driver's last checkpoint, of any question
    fresh,       \* it is of the question in progress
    asked,       \* how many calls the model has made
    group,       \* whose turn it is in a batch: local, dynamic or missing tools
    todo,        \* calls of the group that are not approved yet, in order
    approved,    \* calls of the group to execute
    results,     \* completed_contents of the group: the calls with a result
    outcomes,    \* all_outcomes of the batch
    operations,  \* context operations returned in this batch, two at most
    cancelled,   \* the cancellation token
    queue,       \* the steer queue
    emitted,     \* the last History reported; empty if there was none
    ended,       \* how the run ended
    saved,       \* what the runtime saved of it
    ran,         \* history: calls whose tool has run to its end
    injected,    \* history: steers the run has taken from the queue
    stale        \* history: the last History is older than the question it ends

Phases == {"chat", "stream", "approve", "ask", "execute", "settled", "refused", "over"}
batch == <<group, todo, approved, results, outcomes, operations>>
driver == <<checkpoint, fresh>>
agentRunVars == <<phase, loopInput, core, driver, asked, batch, cancelled,
                  queue, emitted, ended, saved, ran, injected, stale>>

Starting(messages) == [messages |-> messages, results |-> <<>>]
-----------------------------------------------------------------------------
(* What the helpers make of a conversation. *)

Materialized(messages) ==
    UNION {messages[i].of : i \in {j \in DOMAIN messages : messages[j].kind = "result"}}

Called(messages) ==
    UNION {messages[i].of : i \in {j \in DOMAIN messages : messages[j].kind = "calls"}}
Unanswered(messages) == Called(messages) \ Materialized(messages)

\* append_tool_results_to_history: a call is answered once.
AppendResults(messages, answers) ==
    LET appended[n \in 0..Len(answers)] ==
            IF n = 0 THEN messages
            ELSE IF answers[n].of \subseteq Materialized(appended[n-1]) THEN appended[n-1]
            ELSE Append(appended[n-1], answers[n])
    IN appended[Len(answers)]

Answers(C, what) == LET calls == SetToSeq(C) IN [i \in DOMAIN calls |-> Answered(calls[i], what)]

\* complete_interrupted_tool_results
CompleteInterrupted_OnlyDone(messages, answers, C) == AppendResults(messages, answers)
CompleteInterrupted(messages, answers, C) ==
    AppendResults(messages, answers)
        \o Answers(C \ (Materialized(messages) \cup Materialized(answers)), "interrupted")

\* pending: the calls of the batch that message i belongs to and that have no result yet.
Pending(messages, i) ==
    LET open == {j \in 1..i : /\ messages[j].kind = "calls"
                             /\ \A k \in j+1..i : messages[k].kind = "result"}
    IN (UNION {messages[j].of : j \in open}) \ Materialized(SubSeq(messages, 1, i))

\* complete_pending_tool_calls_in_state: the results a batch still lacks where the
\* results after it end are put there.
Repaired(messages) ==
    LET repaired[i \in 0..Len(messages)] ==
            IF i = 0 THEN <<>>
            ELSE Append(repaired[i-1], messages[i])
                     \o (IF i = Len(messages) \/ messages[i+1].kind # "result"
                         THEN Answers(Pending(messages, i), "interrupted") ELSE <<>>)
    IN repaired[Len(messages)]

\* steer_start_input: the history of the next question, its message included.
Steered_WithoutMessage(messages, s) == Repaired(messages)
Steered(messages, s) == Append(Repaired(messages), Said(s))

\* push_completed_tool_contents
Pushed_Forgotten == outcomes
Pushed == outcomes \o Answers(results \ Materialized(outcomes), "ok")
-----------------------------------------------------------------------------
(* The end of a run, and what persist_turn saves of it: the last History, or  *)
(* what the partial turn recorder has seen when the run did not end with Done. *)

Recorded == <<Said(Opening), Note(ran)>>
Persisted_HistoryOnly(end, messages) == messages
Persisted(end, messages) ==
    IF messages = <<>> /\ end \in {"cancelled", "error"} THEN Recorded ELSE messages

NoCalls ==
    todo' = <<>> /\ approved' = {} /\ results' = {} /\ outcomes' = <<>> /\ operations' = 0

\* What the run held in its locals is gone.
End(end, messages) ==
    /\ phase' = "over" /\ ended' = end
    /\ emitted' = messages /\ saved' = Persisted(end, messages)
    /\ loopInput' = Starting(<<>>) /\ core' = <<>> /\ checkpoint' = <<>> /\ fresh' = FALSE
    /\ NoCalls
    /\ UNCHANGED <<group, asked, cancelled, queue, ran, injected>>

AgentRunInit ==
    /\ phase = "chat" /\ loopInput = Starting(<<Said(Opening)>>) /\ core = <<>>
    /\ checkpoint = <<>> /\ fresh = FALSE
    /\ asked = 0
    /\ group = "none" /\ todo = <<>> /\ approved = {} /\ results = {} /\ outcomes = <<>>
    /\ operations = 0
    /\ cancelled = FALSE /\ queue = <<>> /\ emitted = <<>> /\ ended = "not yet" /\ saved = <<>>
    /\ ran = {} /\ injected = {} /\ stale = FALSE
-----------------------------------------------------------------------------
(* The environment. *)

CancelRun ==
    /\ ~cancelled /\ phase # "over"
    /\ cancelled' = TRUE
    /\ UNCHANGED <<phase, loopInput, core, driver, asked, batch, queue, emitted, ended, saved,
                   ran, injected, stale>>

QueueSteer(s) ==
    /\ phase # "over" /\ s \notin injected \cup ToSet(queue)
    /\ queue' = Append(queue, s)
    /\ UNCHANGED <<phase, loopInput, core, driver, asked, batch, cancelled, emitted, ended,
                   saved, ran, injected, stale>>
-----------------------------------------------------------------------------
(* Asking the core agent. *)

\* chat(): the core appends the results it is resumed with.
AskCore ==
    /\ phase = "chat"
    /\ phase' = "stream"
    /\ core' = AppendResults(loopInput.messages, loopInput.results)
    /\ loopInput' = Starting(<<>>) /\ fresh' = FALSE
    /\ UNCHANGED <<checkpoint, asked, batch, cancelled, queue, emitted, ended, saved, ran,
                   injected, stale>>

\* The budget check of a resumed run, or an error of chat().
AskFails ==
    /\ phase = "chat"
    /\ End("error", emitted)
    /\ UNCHANGED stale

\* The model speaks: one message, or the calls of a batch.
CoreSpeaks ==
    /\ phase = "stream" /\ Last(core).kind \in {"user", "result"}
    /\ \/ core' = Append(core, Speech) /\ UNCHANGED asked
       \/ \E T \in (SUBSET Tool) \ {{}} :
             /\ asked' = asked + Cardinality(T) /\ asked' <= MaxCalls
             /\ core' = Append(core, Asks({asked'} \X T))
    /\ UNCHANGED <<phase, loopInput, driver, batch, cancelled, queue, emitted, ended, saved,
                   ran, injected, stale>>

\* drain_batch: a message of a user is a batch of its own. The history that the
\* next question starts with is reported at once.
Inject(messages) ==
    LET input == Steered(messages, Head(queue)) IN
    /\ queue' = Tail(queue) /\ injected' = injected \cup {Head(queue)}
    /\ emitted' = input /\ stale' = FALSE
    /\ loopInput' = Starting(input) /\ core' = <<>>
    /\ phase' = "chat"

\* Text after a checkpoint is a point where a steer may come in.
TextArrives ==
    /\ phase = "stream" /\ fresh /\ queue # <<>>
    /\ Inject(checkpoint)
    /\ UNCHANGED <<driver, asked, batch, cancelled, ended, saved, ran>>

CheckpointArrives ==
    /\ phase = "stream" /\ ~(fresh /\ checkpoint = core)
    /\ checkpoint' = core /\ fresh' = TRUE
    /\ \/ queue # <<>> /\ Inject(core)
       \/ queue = <<>> /\ UNCHANGED <<queue, injected, emitted, stale, loopInput, core, phase>>
    /\ UNCHANGED <<asked, batch, cancelled, ended, saved, ran>>

\* The last state of a run is a checkpoint before Done: last_messages.
CoreDone ==
    /\ phase = "stream" /\ Last(core) = Speech /\ fresh /\ checkpoint = core
    /\ End("done", checkpoint)
    /\ stale' = FALSE

CoreFails ==
    /\ phase = "stream"
    /\ End("error", emitted)
    /\ UNCHANGED stale

\* The driver sees the token first: it reports its last checkpoint, which may
\* be of an earlier question.
CancelSeen ==
    /\ phase = "stream" /\ cancelled
    /\ \/ checkpoint # <<>> /\ End("cancelled", Repaired(checkpoint)) /\ stale' = ~fresh
       \/ checkpoint = <<>> /\ End("cancelled", emitted) /\ UNCHANGED stale

\* The core agent sees it first and reports Cancelled, which ends as Done.
CoreCancelled ==
    /\ phase = "stream" /\ cancelled
    /\ End("done", Repaired(checkpoint))
    /\ stale' = ~fresh
-----------------------------------------------------------------------------
(* A batch of tool calls: local tools, then dynamic ones, then the missing.    *)

CallsOf(tools) == {c \in Last(core).of : c[2] \in tools}
Begin(g, tools) ==
    /\ group' = g
    /\ todo' = SetToSeq(CallsOf(tools))
    /\ approved' = {} /\ results' = {}

ToolDispatch ==
    /\ phase = "stream" /\ Last(core).kind = "calls"
    /\ Begin("local", LocalTool)
    /\ outcomes' = <<>> /\ operations' = 0
    /\ phase' = "approve"
    /\ UNCHANGED <<loopInput, core, driver, asked, cancelled, queue, emitted, ended, saved,
                   ran, injected, stale>>

\* A malformed call, or a batch beyond the limit of the run.
DispatchFails ==
    /\ phase = "stream" /\ Last(core).kind = "calls"
    /\ End("error", emitted)
    /\ UNCHANGED stale

\* A hook blocks the call: it is answered with an error.
HookBlocks ==
    /\ phase = "approve" /\ todo # <<>>
    /\ outcomes' = Append(outcomes, Answered(Head(todo), "error"))
    /\ todo' = Tail(todo)
    /\ UNCHANGED <<phase, loopInput, core, driver, asked, group, approved, results, operations,
                   cancelled, queue, emitted, ended, saved, ran, injected, stale>>

ToolApproved ==
    /\ phase = "approve" /\ todo # <<>>
    /\ approved' = approved \cup {Head(todo)}
    /\ todo' = Tail(todo)
    /\ UNCHANGED <<phase, loopInput, core, driver, asked, group, results, outcomes, operations,
                   cancelled, queue, emitted, ended, saved, ran, injected, stale>>

\* Denied by a hook, or on a channel that cannot ask: the run is over, without
\* a History.
ToolDenied ==
    /\ phase = "approve" /\ todo # <<>>
    /\ End("denied", emitted)
    /\ UNCHANGED stale

AskPerson ==
    /\ phase = "approve" /\ todo # <<>>
    /\ phase' = "ask"
    /\ UNCHANGED <<loopInput, core, driver, asked, batch, cancelled, queue, emitted, ended,
                   saved, ran, injected, stale>>

PersonAllows ==
    /\ phase = "ask"
    /\ approved' = approved \cup {Head(todo)}
    /\ todo' = Tail(todo)
    /\ phase' = "approve"
    /\ UNCHANGED <<loopInput, core, driver, asked, group, results, outcomes, operations,
                   cancelled, queue, emitted, ended, saved, ran, injected, stale>>

PersonDenies ==
    /\ phase = "ask"
    /\ End("denied", emitted)
    /\ UNCHANGED stale

\* The wait for a person is a select with the token.
TokenWins_Never == FALSE
TokenWins == cancelled
ApprovalCancelled ==
    /\ phase = "ask" /\ TokenWins
    /\ End("cancelled", emitted)
    /\ UNCHANGED stale

ExecuteTools ==
    /\ phase = "approve" /\ todo = <<>>
    /\ phase' = IF CallsOf(IF group = "local" THEN LocalTool ELSE DynamicTool) = {}
                THEN "settled" ELSE "execute"
    /\ UNCHANGED <<loopInput, core, driver, asked, batch, cancelled, queue, emitted, ended,
                   saved, ran, injected, stale>>

\* The result of a tool, the refusal of its post hook, or the id of the task
\* that it goes on as after the foreground timeout.
ToolReturns(c, operates) ==
    /\ phase = "execute" /\ c \in approved \ results
    /\ operations' = IF operates THEN operations + 1 ELSE operations
    /\ phase' = IF operations' = 2 THEN "refused" ELSE phase
    /\ results' = results \cup {c} /\ ran' = ran \cup {c}
    /\ UNCHANGED <<loopInput, core, driver, asked, group, todo, approved, outcomes, cancelled,
                   queue, emitted, ended, saved, injected, stale>>

\* An approval inside a sub-session of the batch was denied.
SideDenied ==
    /\ phase = "execute" /\ approved # {}
    /\ End("denied", emitted)
    /\ UNCHANGED stale

ExecutionCancelled ==
    /\ phase = "execute" /\ cancelled /\ (approved \ results # {} \/ approved = {})
    /\ End("cancelled", CompleteInterrupted(core, Pushed, approved))
    /\ stale' = FALSE

GroupReturns ==
    /\ phase = "execute" /\ results = approved
    /\ outcomes' = Pushed
    /\ phase' = "settled"
    /\ UNCHANGED <<loopInput, core, driver, asked, group, todo, approved, results, operations,
                   cancelled, queue, emitted, ended, saved, ran, injected, stale>>

DynamicGroup ==
    /\ phase = "settled" /\ group = "local"
    /\ Begin("dynamic", DynamicTool)
    /\ phase' = "approve"
    /\ UNCHANGED <<loopInput, core, driver, asked, outcomes, operations, cancelled, queue,
                   emitted, ended, saved, ran, injected, stale>>

\* Calls of tools that do not exist, or are not allowed, are answered with an error.
MissingErrors_None == <<>>
MissingErrors == Answers(CallsOf(MissingTool), "error")

\* The end of a batch: a steer if there is one, else the core is resumed.
Resume(messages, answers) ==
    /\ loopInput' = [messages |-> messages, results |-> answers] /\ core' = <<>>
    /\ phase' = "chat"
    /\ UNCHANGED <<queue, injected, emitted, stale>>

EndBatch ==
    /\ phase = "settled" /\ group = "dynamic"
    /\ \/ queue # <<>> /\ Inject(Repaired(AppendResults(core, outcomes \o MissingErrors)))
       \/ queue = <<>> /\ Resume(core, outcomes \o MissingErrors)
    /\ group' = "none" /\ NoCalls
    /\ UNCHANGED <<driver, asked, cancelled, ended, saved, ran>>

\* A second context operation of the batch, or apply_context_operation fails.
OperationFails ==
    /\ phase = "refused" \/ (phase = "settled" /\ group = "dynamic" /\ operations = 1)
    /\ End("error", emitted)
    /\ UNCHANGED stale
-----------------------------------------------------------------------------
AgentRunNext ==
    \/ CancelRun
    \/ \E s \in Steer : QueueSteer(s)
    \/ AskCore \/ AskFails
    \/ CoreSpeaks \/ TextArrives \/ CheckpointArrives
    \/ CoreDone \/ CoreFails \/ CancelSeen \/ CoreCancelled
    \/ ToolDispatch \/ DispatchFails
    \/ HookBlocks \/ ToolApproved \/ ToolDenied
    \/ AskPerson \/ PersonAllows \/ PersonDenies \/ ApprovalCancelled
    \/ ExecuteTools
    \/ \E c \in approved, operates \in BOOLEAN : ToolReturns(c, operates)
    \/ SideDenied \/ ExecutionCancelled \/ GroupReturns
    \/ DynamicGroup \/ EndBatch \/ OperationFails

AgentRunSpec == AgentRunInit /\ [][AgentRunNext]_agentRunVars

\* Every await ends by itself (a question is answered or refused, hooks and the
\* reviewing model answer) but for a tool that runs and a person who is asked. A
\* select takes a ready token at some time. The conditions are stated on the phase
\* alone: in each of them a step of the run that leaves it is enabled.
Leaves(from) == phase \in from /\ phase' \in Phases \ from
AgentRunFairness ==
    /\ WF_phase(Leaves({"chat"})) /\ WF_phase(Leaves({"approve"}))
    /\ WF_phase(Leaves({"settled"})) /\ WF_phase(Leaves({"refused"}))
    /\ WF_phase(results = approved /\ Leaves({"execute"}))
    /\ WF_phase(cancelled /\ Leaves({"execute"}))
    /\ WF_phase(TokenWins /\ Leaves({"ask"}))
    /\ SF_phase(cancelled /\ phase = "stream" /\ phase' = "over")
AgentRunFairSpec == AgentRunSpec /\ AgentRunFairness
-----------------------------------------------------------------------------
\* Every result follows its call with only results in between, and is the only one.
InPlace(messages) ==
    \A j \in DOMAIN messages : messages[j].kind = "result" =>
        /\ \E i \in 1..j-1 : /\ messages[i].kind = "calls"
                            /\ messages[j].of \subseteq messages[i].of
                            /\ \A k \in i+1..j : messages[k].kind = "result"
        /\ \A k \in 1..j-1 : messages[k].kind = "result" => messages[k].of # messages[j].of

\* Whatever was blocked, denied, missing, cancelled or interrupted by a steer, the
\* core is asked with a conversation in which every call has one result in its place.
CompleteInput ==
    phase = "chat" =>
        LET messages == AppendResults(loopInput.messages, loopInput.results)
        IN Unanswered(messages) = {} /\ InPlace(messages)

\* So has what the turn saves, but for the calls of the groups that a
\* cancelled batch had not come to.
NotBegun ==
    CASE ended = "cancelled" /\ group = "local" -> DynamicTool \cup MissingTool
      [] ended = "cancelled" /\ group = "dynamic" -> MissingTool
      [] OTHER -> {}
SavedIsComplete ==
    phase = "over" =>
        InPlace(saved) /\ \A c \in Unanswered(saved) : c[2] \in NotBegun

\* No tool that ran to its end is said to have been interrupted, unless the
\* cancellation was answered with the checkpoint of an earlier question.
NoFalseInterruption ==
    phase = "over" /\ ~stale =>
        \A i \in DOMAIN saved : saved[i].what = "interrupted" => saved[i].of \cap ran = {}

\* A run that nobody denied and that took no steer leaves a trace of every tool
\* that ran, as its result or in the note of the recorder, unless its cancellation
\* was answered with the checkpoint of an earlier question.
LeavesTrace ==
    phase = "over" /\ ended # "denied" /\ injected = {} /\ ~stale =>
        \A c \in ran : \E i \in DOMAIN saved :
            c \in saved[i].of /\ saved[i].kind \in {"result", "note"}

\* What the user said is saved: the message of the run unless it was denied, and
\* with it every steer that was taken from the queue, unless the cancellation was
\* answered with the checkpoint of an earlier question.
SaidIsSaved ==
    phase = "over" /\ ~stale /\ (injected # {} \/ ended \in {"cancelled", "error"}) =>
        \A u \in injected \cup {Opening} : \E i \in DOMAIN saved : saved[i] = Said(u)

\* A cancelled run ends, whatever a tool or an asked person does.
CancelEnds == cancelled ~> phase = "over"
=============================================================================
