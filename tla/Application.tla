---------------------------- MODULE Application ----------------------------
(***************************************************************************)
(* The application actor (application.rs).  One task, dispatch, takes the  *)
(* commands of every client from a channel and the ends of the runs from   *)
(* another; a run is a task of its own on the same thread, which forwards  *)
(* the events of its turn to the client through a bounded channel.  A turn *)
(* holds its thread's run lock, and may ask for the approval of a tool     *)
(* (approval.rs, agent.rs), which is decided by a command.                 *)
(*                                                                         *)
(* Commands that change none of this (queries, session edits, and those    *)
(* answered from a task of their own) are left out, as are the rounds of a *)
(* turn that lets go of the run lock (TurnLoop).                           *)
(***************************************************************************)
EXTENDS Integers, FiniteSets, Sequences

CONSTANTS
    User,          \* clients of the application; each has one request at a time
    Session,       \* sessions that exist from the start, and those a fork may make
    Forked,        \* the latter
    Run,           \* run ids
    Nil,           \* no client, run or session
    EventCapacity, \* EVENT_CAPACITY of a run's channel
    MaxEvents,     \* bound on the events of a run
    MaxRequests    \* bound on the requests of the clients

ASSUME ApplicationAssumption ==
    /\ Forked \subseteq Session /\ Nil \notin User \cup Session \cup Run
    /\ EventCapacity \in Nat \ {0} /\ MaxEvents \in Nat /\ MaxRequests \in Nat

VARIABLES
    commands,  \* the command channel
    internal,  \* the internal channel: the runs whose RunFinished is in it
    actor,     \* what dispatch does: its stage, and the command it is at
    requests,  \* requests made so far
    sessions,  \* sessions that exist
    runs,      \* the ActiveRuns
    phase,     \* of each run's task
    threadOf,  \* its session
    runLock,   \* runLock[s]: the run that holds the run lock of thread s, or Nil
    cancelled, \* runs with a cancelled token
    stopped,   \* runs with a cancelled stop_delivery
    closed,    \* runs whose RunHandle was dropped
    muted,     \* runs that do not deliver events any more
    emitted,   \* emitted[r]: events of run r so far
    forwarded, \* forwarded[r]: those sent into its channel, by number
    received,  \* received[r]: how many of these the client has taken
    pending,   \* runs with a pending approval
    verdict    \* what was decided and not yet seen by the run

actorVars == <<commands, internal, actor, requests>>
taskVars == <<phase, threadOf, runLock>>
tokens == <<cancelled, stopped, closed>>
events == <<muted, emitted, forwarded, received>>
approvals == <<pending, verdict>>
applicationVars == <<actorVars, sessions, runs, taskVars, tokens, events, approvals>>

Command == [user : User, kind : {"run", "cancel", "terminate", "decide", "fork", "delete", "shutdown"},
            run : Run \cup {Nil}, session : Session \cup {Nil}, decision : {"allow", "deny"}]
NoCommand == [user |-> Nil, kind |-> "none", run |-> Nil, session |-> Nil, decision |-> "deny"]

Alive(r) == phase[r] \in {"queued", "turn", "sending", "announcing", "asking", "ending"}
\* The user waits for the reply to a request.
Waits(u) == (\E i \in DOMAIN commands : commands[i].user = u) \/ actor.command.user = u

ApplicationInit ==
    /\ commands = <<>> /\ internal = {} /\ requests = 0
    /\ actor = [stage |-> "loop", command |-> NoCommand, target |-> Nil]
    /\ sessions = Session \ Forked /\ runs = {}
    /\ phase = [r \in Run |-> "none"] /\ threadOf = [r \in Run |-> Nil]
    /\ runLock = [s \in Session |-> Nil]
    /\ cancelled = {} /\ stopped = {} /\ closed = {} /\ muted = {}
    /\ emitted = [r \in Run |-> 0] /\ forwarded = [r \in Run |-> <<>>]
    /\ received = [r \in Run |-> 0]
    /\ pending = {} /\ verdict = [r \in Run |-> "none"]
-----------------------------------------------------------------------------
(* Clients: request() sends a command and waits for its reply, forever. *)

Request(u) ==
    /\ ~ Waits(u) /\ actor.stage # "ended" /\ requests < MaxRequests
    /\ \E c \in Command :
          /\ c.user = u
          /\ c.kind \in {"run", "fork", "delete"} <=> c.session # Nil
          /\ c.kind \in {"cancel", "terminate", "decide"} <=> c.run # Nil
          /\ c.run # Nil => phase[c.run] # "none"
          /\ c.kind # "decide" => c.decision = "deny"
          /\ c.kind = "run" =>   \* bound: there is an id left for it
                Cardinality({i \in DOMAIN commands : commands[i].kind = "run"})
                    < Cardinality({r \in Run : phase[r] = "none"})
          /\ commands' = Append(commands, c)
    /\ requests' = requests + 1
    /\ UNCHANGED <<internal, actor, sessions, runs, taskVars, tokens, events, approvals>>

ReceiveEvent(r) ==
    /\ Alive(r) /\ r \notin closed /\ received[r] < Len(forwarded[r])
    /\ received' = [received EXCEPT ![r] = @ + 1]
    /\ UNCHANGED <<actorVars, sessions, runs, taskVars, tokens, muted, emitted, forwarded, approvals>>

DropHandle(r) ==
    /\ Alive(r) /\ r \notin closed
    /\ closed' = closed \cup {r}
    /\ UNCHANGED <<actorVars, sessions, runs, taskVars, cancelled, stopped, events, approvals>>
-----------------------------------------------------------------------------
(* A run's task. *)

Goes(r, p) == phase' = [phase EXCEPT ![r] = p]

\* The turn waits for the run lock, whether it has been cancelled or not.
EnterTurn(r) ==
    /\ phase[r] = "queued" /\ runLock[threadOf[r]] = Nil
    /\ runLock' = [runLock EXCEPT ![threadOf[r]] = r]
    /\ Goes(r, "turn")
    /\ UNCHANGED <<actorVars, sessions, runs, threadOf, tokens, events, approvals>>

\* An event of the turn: it is sent, unless the run is muted.
Emits(r) ==
    /\ emitted[r] < MaxEvents
    /\ emitted' = [emitted EXCEPT ![r] = @ + 1]

Emit(r) ==
    /\ phase[r] = "turn" /\ Emits(r)
    /\ IF r \in muted THEN UNCHANGED phase ELSE Goes(r, "sending")
    /\ UNCHANGED <<actorVars, sessions, runs, threadOf, runLock, tokens, muted, forwarded, received,
                   approvals>>

\* start_request: the approval is pending before the client is told of it.
AskApproval(r) ==
    /\ phase[r] = "turn" /\ r \notin pending /\ Emits(r)
    /\ pending' = pending \cup {r}
    /\ Goes(r, IF r \in muted THEN "asking" ELSE "announcing")
    /\ UNCHANGED <<actorVars, sessions, runs, threadOf, runLock, tokens, muted, forwarded, received,
                   verdict>>

\* select!: room in the channel, a dropped handle, stop_delivery or cancel.
\* Once an event was not sent, no later one is.
HasRoom(r) == Len(forwarded[r]) - received[r] < EventCapacity
NotSent_Stopped == closed \cup stopped
NotSent == closed \cup stopped \cup cancelled
Mutes_Never(r) == muted
Mutes(r) == muted \cup {r}

Send(r) ==
    /\ phase[r] \in {"sending", "announcing"}
    /\ \/ /\ r \notin closed /\ HasRoom(r)
          /\ forwarded' = [forwarded EXCEPT ![r] = Append(@, emitted[r])]
          /\ UNCHANGED muted
       \/ /\ r \in NotSent
          /\ muted' = Mutes(r)
          /\ UNCHANGED forwarded
    /\ Goes(r, IF phase[r] = "announcing" THEN "asking" ELSE "turn")
    /\ UNCHANGED <<actorVars, sessions, runs, threadOf, runLock, tokens, emitted, received, approvals>>

\* The decision, or the token: finish_request takes the approval back.
Decided(r) ==
    /\ phase[r] = "asking"
    /\ \/ verdict[r] = "allow" /\ Goes(r, "turn")
       \/ verdict[r] = "deny" /\ Goes(r, "ending")
       \/ r \in cancelled /\ Goes(r, "ending")
    /\ pending' = pending \ {r} /\ verdict' = [verdict EXCEPT ![r] = "none"]
    /\ UNCHANGED <<actorVars, sessions, runs, threadOf, runLock, tokens, events>>

\* The stream of the turn is over: the lock is free, and dispatch is told.
\* Nothing depends on the channel of a run that is over: it is forgotten here.
Over(r, p) ==
    /\ Goes(r, p)
    /\ runLock' = [s \in Session |-> IF runLock[s] = r THEN Nil ELSE runLock[s]]
    /\ closed' = closed \ {r} /\ muted' = muted \ {r} /\ verdict' = [verdict EXCEPT ![r] = "none"]
    /\ emitted' = [emitted EXCEPT ![r] = 0] /\ received' = [received EXCEPT ![r] = 0]
    /\ forwarded' = [forwarded EXCEPT ![r] = <<>>]

EndRun(r) ==
    /\ phase[r] \in {"turn", "ending"}
    /\ Over(r, "ended")
    /\ internal' = internal \cup {r}
    /\ UNCHANGED <<commands, actor, requests, sessions, runs, threadOf, cancelled, stopped, pending>>

TaskStep(r) == EnterTurn(r) \/ Emit(r) \/ AskApproval(r) \/ Send(r) \/ Decided(r) \/ EndRun(r)
-----------------------------------------------------------------------------
(* dispatch: one command at a time, to its reply. *)

Takes(kind) ==
    /\ actor.stage = "loop" /\ commands # <<>> /\ Head(commands).kind = kind
    /\ commands' = Tail(commands)

\* A run of a session that does not exist is refused.
StartRun ==
    /\ Takes("run")
    /\ LET s == Head(commands).session IN
       IF s \in sessions
       THEN \E r \in Run :
              /\ phase[r] = "none"
              /\ Goes(r, "queued") /\ threadOf' = [threadOf EXCEPT ![r] = s]
              /\ runs' = runs \cup {r}
       ELSE UNCHANGED <<phase, threadOf, runs>>
    /\ UNCHANGED <<internal, actor, requests, sessions, runLock, tokens, events, approvals>>

CancelRun ==
    /\ Takes("cancel")
    /\ cancelled' = cancelled \cup ({Head(commands).run} \cap runs)
    /\ UNCHANGED <<internal, actor, requests, sessions, runs, taskVars, stopped, closed, events,
                   approvals>>

\* abort(): the task is dropped where it awaits.  Its approval stays pending.
Continues == UNCHANGED <<phase, runLock, closed, events, verdict>>
Aborts(r) == (Alive(r) /\ Over(r, "aborted")) \/ (~ Alive(r) /\ Continues)

\* A forced cancel.
Forced_Detached(r) == Continues
Forced(r) == Aborts(r)

TerminateRun ==
    /\ Takes("terminate")
    /\ LET r == Head(commands).run IN
       IF r \in runs
       THEN /\ runs' = runs \ {r} /\ cancelled' = cancelled \cup {r} /\ stopped' = stopped \cup {r}
            /\ Forced(r)
       ELSE Continues /\ UNCHANGED <<runs, cancelled, stopped>>
    /\ UNCHANGED <<internal, actor, requests, sessions, threadOf, pending>>

\* decide(): the waiter is taken out of pending and told.
Told_IfAsking(r) == phase[r] = "asking"
Told(r) == Alive(r)

DecideApproval ==
    /\ Takes("decide")
    /\ LET c == Head(commands) IN
       IF c.run \in pending
       THEN /\ pending' = pending \ {c.run}
            /\ verdict' = IF Told(c.run) THEN [verdict EXCEPT ![c.run] = c.decision] ELSE verdict
       ELSE UNCHANGED approvals
    /\ UNCHANGED <<internal, actor, requests, sessions, runs, taskVars, tokens, events>>

\* fork_session makes the session; fork_thread_data then waits for the run lock
\* of the source, inside dispatch.
ForkSession ==
    /\ Takes("fork")
    /\ \/ /\ Head(commands).session \in sessions
          /\ \E s \in Forked \ sessions :
                /\ sessions' = sessions \cup {s}
                /\ actor' = [stage |-> "fork", command |-> Head(commands), target |-> s]
       \/ UNCHANGED <<sessions, actor>>   \* no source, or the session could not be saved
    /\ UNCHANGED <<internal, requests, runs, taskVars, tokens, events, approvals>>

\* The copy succeeds, or fails and the new session is deleted.
CopyThread ==
    /\ actor.stage = "fork" /\ runLock[actor.command.session] = Nil
    /\ actor' = [stage |-> "loop", command |-> NoCommand, target |-> Nil]
    /\ sessions' \in {sessions, sessions \ {actor.target}}
    /\ UNCHANGED <<commands, internal, requests, runs, taskVars, tokens, events, approvals>>

\* A session may be deleted under its run.
DeleteSession ==
    /\ Takes("delete")
    /\ sessions' = sessions \ {Head(commands).session}
    /\ UNCHANGED <<internal, actor, requests, runs, taskVars, tokens, events, approvals>>

RunFinished(r) ==
    /\ actor.stage = "loop" /\ r \in internal
    /\ internal' = internal \ {r} /\ runs' = runs \ {r}
    /\ UNCHANGED <<commands, actor, requests, sessions, taskVars, tokens, events, approvals>>

\* Shutdown: every run is cancelled, then awaited for 5 s, and aborted.
Shutdown ==
    /\ Takes("shutdown")
    /\ actor' = [stage |-> "drain", command |-> Head(commands), target |-> Nil]
    /\ cancelled' = cancelled \cup runs /\ stopped' = stopped \cup runs
    /\ UNCHANGED <<internal, requests, sessions, runs, taskVars, closed, events, approvals>>

DrainRun(r) ==
    /\ actor.stage = "drain" /\ r \in runs
    /\ runs' = runs \ {r}
    /\ Aborts(r)
    /\ UNCHANGED <<actorVars, sessions, threadOf, cancelled, stopped, pending>>

\* The replies to what is still in the channel are dropped: request() fails.
Abandoned_Kept == commands
Abandoned == <<>>

EndActor ==
    /\ actor.stage = "drain" /\ runs = {}
    /\ actor' = [stage |-> "ended", command |-> NoCommand, target |-> Nil]
    /\ commands' = Abandoned /\ internal' = {}
    /\ UNCHANGED <<requests, sessions, runs, taskVars, tokens, events, approvals>>

ActorStep ==
    \/ StartRun \/ CancelRun \/ TerminateRun \/ DecideApproval
    \/ ForkSession \/ CopyThread \/ DeleteSession
    \/ \E r \in Run : RunFinished(r) \/ DrainRun(r)
    \/ Shutdown \/ EndActor
-----------------------------------------------------------------------------
ApplicationNext ==
    \/ \E u \in User : Request(u)
    \/ \E r \in Run : ReceiveEvent(r) \/ DropHandle(r) \/ TaskStep(r)
    \/ ActorStep

ApplicationSpec == ApplicationInit /\ [][ApplicationNext]_applicationVars

\* Tasks are polled; the lock is handed on in the order of arrival; a turn that
\* is cancelled ends, once it is neither sending nor asking (AgentRun).  Whether
\* a client reads, decides or asks again is up to the client.
ApplicationFairness ==
    /\ WF_applicationVars(ActorStep) /\ SF_applicationVars(CopyThread)
    /\ \A r \in Run :
          /\ SF_applicationVars(EnterTurn(r))
          /\ WF_applicationVars(Send(r) \/ Decided(r) \/ (r \in cancelled /\ EndRun(r)))

ApplicationFairSpec == ApplicationSpec /\ ApplicationFairness

\* Moreover the model and the tools answer, and clients read their events.
ApplicationEagerSpec ==
    /\ ApplicationFairSpec
    /\ \A r \in Run : WF_applicationVars(EndRun(r)) /\ WF_applicationVars(ReceiveEvent(r))
-----------------------------------------------------------------------------
\* The types; and every task that still runs is an active run, so that it can be
\* cancelled and terminated, and Shutdown ends only when there is none.
ApplicationTypeOK ==
    /\ commands \in Seq(Command) /\ internal \subseteq Run /\ requests \in 0..MaxRequests
    /\ actor \in [stage : {"loop", "fork", "drain", "ended"}, command : Command \cup {NoCommand},
                  target : Session \cup {Nil}]
    /\ sessions \subseteq Session /\ runs \subseteq Run
    /\ phase \in [Run -> {"none", "queued", "turn", "sending", "announcing", "asking", "ending", "ended",
                      "aborted"}]
    /\ threadOf \in [Run -> Session \cup {Nil}] /\ runLock \in [Session -> Run \cup {Nil}]
    /\ cancelled \cup stopped \cup closed \cup muted \cup pending \subseteq Run
    /\ emitted \in [Run -> 0..MaxEvents] /\ forwarded \in [Run -> Seq(1..MaxEvents)]
    /\ \A r \in Run : received[r] <= Len(forwarded[r]) /\ Len(forwarded[r]) <= received[r] + EventCapacity
    /\ verdict \in [Run -> {"none", "allow", "deny"}]
    /\ \A r \in Run : Alive(r) => r \in runs

\* What a client is sent is a beginning of what the turn emitted: whichever
\* branch its selects take around a cancel, a shutdown or a dropped handle, an
\* event that was left out has no successor.
NoGap == \A r \in Run : \A i \in DOMAIN forwarded[r] : forwarded[r][i] = i

\* A turn that waits for a decision can be given one, or has been: no decision
\* is lost between start_request, the events about it and the wait.
WaiterIsPending ==
    \A r \in Run : phase[r] = "asking" => r \in pending \/ verdict[r] # "none"

\* A request returns, unless dispatch is in a fork then or later: whatever the
\* runs, the other clients and a shutdown do, no command keeps dispatch.
RequestsReturn ==
    \A u \in User : Waits(u) ~> (~ Waits(u) \/ actor.stage = "fork")

\* A run that was cancelled ends, though its client reads no event and decides
\* no approval -- unless it still waits for its turn.
CancelEndsRun ==
    \A r \in Run : r \in cancelled /\ phase[r] # "queued" ~> ~ Alive(r)

\* docs/a2a-channel-mvp.md:81 says that CancelTask reaches the cancellation
\* token.  A command to cancel an active run is sent: it is cancelled, or over.
CancelReachesToken ==
    \A r \in Run :
        (\E i \in DOMAIN commands : commands[i].kind = "cancel" /\ commands[i].run = r)
            ~> (r \in cancelled \/ ~ Alive(r))
=============================================================================
