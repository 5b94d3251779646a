-------------------------- MODULE Application_proofs --------------------------
(***************************************************************************)
(* What the application actor promises, for any number of clients, sessions *)
(* and runs, any channel capacity and any number of events and requests.   *)
(***************************************************************************)
EXTENDS Application, TLAPS

USE ApplicationAssumption

\* The parts of the types that most steps treat apart.
ActorTyped ==
    /\ commands \in Seq(Command) /\ internal \subseteq Run /\ requests \in 0..MaxRequests
    /\ actor \in [stage : {"loop", "fork", "drain", "ended"}, command : Command \cup {NoCommand},
                  target : Session \cup {Nil}]
    /\ sessions \subseteq Session /\ runs \subseteq Run
Phases == {"none", "queued", "turn", "sending", "announcing", "asking", "ending", "ended", "aborted"}
TasksTyped ==
    /\ phase \in [Run -> Phases]
    /\ threadOf \in [Run -> Session \cup {Nil}] /\ runLock \in [Session -> Run \cup {Nil}]
    /\ cancelled \subseteq Run /\ stopped \subseteq Run /\ closed \subseteq Run
    /\ muted \subseteq Run /\ pending \subseteq Run
    /\ verdict \in [Run -> {"none", "allow", "deny"}]
EventsTyped ==
    /\ emitted \in [Run -> 0..MaxEvents] /\ forwarded \in [Run -> Seq(1..MaxEvents)]
    /\ received \in [Run -> Nat]
\* The channel holds what was forwarded and not received.
ChannelBounded ==
    \A r \in Run : received[r] <= Len(forwarded[r]) /\ Len(forwarded[r]) <= received[r] + EventCapacity

Types == ActorTyped /\ TasksTyped /\ EventsTyped

\* A task is forgotten by dispatch only when it is over: its end is announced once
\* it is, and whoever takes it out of the active runs before aborts it.
FinishedIsOver == \A r \in internal : phase[r] = "ended"
AliveIsActive == \A r \in Run : Alive(r) => r \in runs
RunsInv == FinishedIsOver /\ AliveIsActive

\* A run that delivers has forwarded all it emitted, but for the event it is at.
Writing(r) == phase[r] \in {"sending", "announcing"}
Numbered ==
    \A r \in Run :
        /\ Writing(r) => r \notin muted /\ emitted[r] = Len(forwarded[r]) + 1
        /\ ~ Writing(r) /\ r \notin muted => emitted[r] = Len(forwarded[r])
EventsInv == ChannelBounded /\ Numbered /\ NoGap

\* The approval is there before its event is sent, and stays until it is decided.
AskedIsPending ==
    \A r \in Run : phase[r] \in {"announcing", "asking"} => r \in pending \/ verdict[r] # "none"

\* The inductive invariant.
Inv == Types /\ RunsInv /\ EventsInv /\ AskedIsPending

LEMMA InvImplies == Inv => ApplicationTypeOK /\ NoGap /\ WaiterIsPending
<1>1. Inv => ApplicationTypeOK
  BY DEF Inv, Types, ActorTyped, TasksTyped, EventsTyped, Phases, RunsInv, AliveIsActive,
         EventsInv, ChannelBounded, ApplicationTypeOK
<1>2. Inv => NoGap /\ WaiterIsPending
  BY DEF Inv, EventsInv, AskedIsPending, WaiterIsPending
<1>3. QED BY <1>1, <1>2

LEMMA InvInit == ApplicationInit => Inv
<1> SUFFICES ASSUME ApplicationInit PROVE Inv
  OBVIOUS
<1> USE DEF ApplicationInit
<1>1. ActorTyped BY DEF ActorTyped
<1>2. TasksTyped BY DEF TasksTyped, Phases
<1>3. EventsTyped BY DEF EventsTyped
<1>4. RunsInv BY DEF RunsInv, FinishedIsOver, AliveIsActive, Alive
<1>5. EventsInv BY DEF EventsInv, ChannelBounded, Numbered, Writing, NoGap
<1>6. AskedIsPending BY DEF AskedIsPending
<1>7. QED BY <1>1, <1>2, <1>3, <1>4, <1>5, <1>6 DEF Inv, Types

\* The command at hand is one.
LEMMA TakesTyped ==
    ASSUME ActorTyped, NEW kind, Takes(kind)
    PROVE  /\ commands' \in Seq(Command) /\ Head(commands) \in Command /\ Head(commands).kind = kind
           /\ Head(commands).run \in Run \cup {Nil} /\ Head(commands).session \in Session \cup {Nil}
           /\ Head(commands).decision \in {"allow", "deny"}
<1>1. commands \in Seq(Command) /\ commands # <<>> BY DEF ActorTyped, Takes
<1>2. Head(commands) \in Command /\ Tail(commands) \in Seq(Command) BY <1>1
<1>3. QED BY <1>2 DEF Takes, Command

\* What the end of a run's task, of itself or by an abort, leaves in order.
LEMMA OverTyped ==
    ASSUME TasksTyped, EventsTyped, NEW r \in Run, NEW p \in {"ended", "aborted"}, Over(r, p)
    PROVE  /\ phase' \in [Run -> Phases] /\ runLock' \in [Session -> Run \cup {Nil}]
           /\ closed' \subseteq Run /\ muted' \subseteq Run
           /\ verdict' \in [Run -> {"none", "allow", "deny"}]
           /\ EventsTyped'
           /\ phase'[r] = p /\ \A s \in Run : s # r => phase'[s] = phase[s]
<1>1. phase' \in [Run -> Phases] /\ phase'[r] = p /\ \A s \in Run : s # r => phase'[s] = phase[s]
  BY DEF Over, Goes, TasksTyped, Phases
<1>2. runLock' \in [Session -> Run \cup {Nil}] BY DEF Over, TasksTyped
<1>3. closed' \subseteq Run /\ muted' \subseteq Run /\ verdict' \in [Run -> {"none", "allow", "deny"}]
  BY DEF Over, TasksTyped
<1>4. EventsTyped' BY DEF Over, EventsTyped
<1>5. QED BY <1>1, <1>2, <1>3, <1>4

LEMMA OverKeepsEvents ==
    ASSUME TasksTyped, EventsTyped, EventsInv, NEW r \in Run, NEW p \in {"ended", "aborted"}, Over(r, p)
    PROVE  EventsInv'
<1>1. /\ phase'[r] = p /\ emitted'[r] = 0 /\ received'[r] = 0 /\ forwarded'[r] = <<>>
      /\ \A s \in Run : s # r => /\ phase'[s] = phase[s] /\ emitted'[s] = emitted[s]
                                 /\ received'[s] = received[s] /\ forwarded'[s] = forwarded[s]
      /\ muted' = muted \ {r}
  BY DEF Over, Goes, TasksTyped, EventsTyped
<1>2. Len(forwarded'[r]) = 0 /\ DOMAIN forwarded'[r] = {} BY <1>1
<1>3. ChannelBounded' BY <1>1, <1>2 DEF EventsInv, ChannelBounded
<1>4. Numbered' BY <1>1, <1>2 DEF EventsInv, Numbered, Writing
<1>5. NoGap' BY <1>1, <1>2 DEF EventsInv, NoGap
<1>6. QED BY <1>3, <1>4, <1>5 DEF EventsInv

LEMMA OverKeepsAsked ==
    ASSUME TasksTyped, AskedIsPending, NEW r \in Run, NEW p \in {"ended", "aborted"}, Over(r, p),
           UNCHANGED pending
    PROVE  AskedIsPending'
BY DEF Over, Goes, TasksTyped, AskedIsPending

\* An abort ends the task, or finds it over.
LEMMA AbortsTyped ==
    ASSUME TasksTyped, EventsTyped, NEW r \in Run, Aborts(r)
    PROVE  /\ phase' \in [Run -> Phases] /\ runLock' \in [Session -> Run \cup {Nil}]
           /\ closed' \subseteq Run /\ muted' \subseteq Run
           /\ verdict' \in [Run -> {"none", "allow", "deny"}]
           /\ EventsTyped'
           /\ ~ Alive(r)' /\ \A s \in Run : s # r => phase'[s] = phase[s]
           /\ phase[r] = "ended" => phase'[r] = "ended"
<1>1. CASE Alive(r) /\ Over(r, "aborted")
  <2>1. phase[r] # "ended" /\ ("aborted" \in {"ended", "aborted"}) BY <1>1 DEF Alive
  <2>2. QED BY <1>1, <2>1, OverTyped DEF Alive
<1>2. CASE ~ Alive(r) /\ Continues
  BY <1>2 DEF Continues, TasksTyped, EventsTyped, Alive, events
<1>3. QED BY <1>1, <1>2 DEF Aborts

\* After an abort nothing of the run goes on, and a run that had ended still has.
LEMMA AbortsOver ==
    ASSUME TasksTyped, EventsTyped, NEW r \in Run, Aborts(r)
    PROVE  /\ phase'[r] \notin {"queued", "turn", "sending", "announcing", "asking", "ending"}
           /\ \A s \in Run : s # r => phase'[s] = phase[s]
           /\ phase[r] = "ended" => phase'[r] = "ended"
BY AbortsTyped DEF Alive

LEMMA AbortsKeepEvents ==
    ASSUME TasksTyped, EventsTyped, EventsInv, NEW r \in Run, Aborts(r)
    PROVE  EventsInv'
<1>1. CASE Over(r, "aborted") BY <1>1, OverKeepsEvents
<1>2. CASE Continues
  BY <1>2 DEF Continues, events, EventsInv, ChannelBounded, Numbered, Writing, NoGap
<1>3. QED BY <1>1, <1>2 DEF Aborts

LEMMA AbortsKeepAsked ==
    ASSUME TasksTyped, AskedIsPending, NEW r \in Run, Aborts(r), UNCHANGED pending
    PROVE  AskedIsPending'
<1>1. CASE Over(r, "aborted") BY <1>1, OverKeepsAsked
<1>2. CASE Continues BY <1>2 DEF Continues, AskedIsPending
<1>3. QED BY <1>1, <1>2 DEF Aborts


\* The types of the actor, of its channels and of the sessions.
LEMMA ActorTypedStep ==
    ASSUME ActorTyped, [ApplicationNext]_applicationVars
    PROVE  ActorTyped'
<1> USE DEF ActorTyped, actorVars, taskVars, tokens, events, approvals
<1>1. CASE UNCHANGED applicationVars
  BY <1>1 DEF applicationVars
<1>2. ASSUME NEW u \in User, Request(u) PROVE ActorTyped'
  <2>1. PICK c \in Command : commands' = Append(commands, c) BY <1>2 DEF Request
  <2>2. commands' \in Seq(Command) BY <2>1
  <2>3. QED BY <1>2, <2>2 DEF Request
<1>3. ASSUME NEW r \in Run, ReceiveEvent(r) PROVE ActorTyped'
  BY <1>3 DEF ReceiveEvent
<1>4. ASSUME NEW r \in Run, DropHandle(r) PROVE ActorTyped'
  BY <1>4 DEF DropHandle
<1>5. ASSUME NEW r \in Run, EnterTurn(r) PROVE ActorTyped'
  BY <1>5 DEF EnterTurn
<1>6. ASSUME NEW r \in Run, Emit(r) PROVE ActorTyped'
  BY <1>6 DEF Emit
<1>7. ASSUME NEW r \in Run, AskApproval(r) PROVE ActorTyped'
  BY <1>7 DEF AskApproval
<1>8. ASSUME NEW r \in Run, Send(r) PROVE ActorTyped'
  BY <1>8 DEF Send
<1>9. ASSUME NEW r \in Run, Decided(r) PROVE ActorTyped'
  BY <1>9 DEF Decided
<1>10. ASSUME NEW r \in Run, EndRun(r) PROVE ActorTyped'
  BY <1>10 DEF EndRun
<1>11. CASE StartRun
  <2>1. commands' \in Seq(Command) BY <1>11, TakesTyped DEF StartRun
  <2>2. runs' \subseteq Run BY <1>11 DEF StartRun
  <2>3. QED BY <1>11, <2>1, <2>2 DEF StartRun
<1>12. CASE CancelRun
  BY <1>12, TakesTyped DEF CancelRun
<1>13. CASE TerminateRun
  <2>1. commands' \in Seq(Command) BY <1>13, TakesTyped DEF TerminateRun
  <2>2. runs' \subseteq Run BY <1>13 DEF TerminateRun
  <2>3. QED BY <1>13, <2>1, <2>2 DEF TerminateRun
<1>14. CASE DecideApproval
  BY <1>14, TakesTyped DEF DecideApproval
<1>15. CASE ForkSession
  <2>1. commands' \in Seq(Command) /\ Head(commands) \in Command BY <1>15, TakesTyped DEF ForkSession
  <2>2. CASE UNCHANGED <<sessions, actor>> BY <1>15, <2>1, <2>2 DEF ForkSession
  <2>3. ASSUME NEW s \in Forked \ sessions, sessions' = sessions \cup {s},
               actor' = [stage |-> "fork", command |-> Head(commands), target |-> s]
        PROVE  ActorTyped'
    BY <1>15, <2>1, <2>3 DEF ForkSession
  <2>4. QED BY <1>15, <2>2, <2>3 DEF ForkSession
<1>16. CASE CopyThread
  BY <1>16 DEF CopyThread
<1>17. CASE DeleteSession
  BY <1>17, TakesTyped DEF DeleteSession
<1>18. ASSUME NEW r \in Run, RunFinished(r) PROVE ActorTyped'
  BY <1>18 DEF RunFinished
<1>19. ASSUME NEW r \in Run, DrainRun(r) PROVE ActorTyped'
  BY <1>19 DEF DrainRun
<1>20. CASE Shutdown
  <2>1. commands' \in Seq(Command) /\ Head(commands) \in Command BY <1>20, TakesTyped DEF Shutdown
  <2>2. QED BY <1>20, <2>1 DEF Shutdown
<1>21. CASE EndActor
  <2>1. commands' = <<>> /\ internal' = {} BY <1>21 DEF EndActor, Abandoned
  <2>2. commands' \in Seq(Command) BY <2>1
  <2>3. actor' \in [stage : {"loop", "fork", "drain", "ended"}, command : Command \cup {NoCommand},
                   target : Session \cup {Nil}]
    BY <1>21 DEF EndActor
  <2>4. QED BY <1>21, <2>1, <2>2, <2>3 DEF EndActor
<1> HIDE DEF ActorTyped
<1>22. QED
  BY <1>1, <1>2, <1>3, <1>4, <1>5, <1>6, <1>7, <1>8, <1>9, <1>10, <1>11, <1>12, <1>13, <1>14, <1>15, <1>16, <1>17, <1>18, <1>19, <1>20, <1>21
     DEF ApplicationNext, TaskStep, ActorStep

\* The types of the tasks, of their tokens and of the approvals.
LEMMA TasksTypedStep ==
    ASSUME ActorTyped, TasksTyped, EventsTyped, [ApplicationNext]_applicationVars
    PROVE  TasksTyped'
<1> USE DEF TasksTyped, Phases, Goes, actorVars, taskVars, tokens, events, approvals
<1>1. CASE UNCHANGED applicationVars
  BY <1>1 DEF applicationVars
<1>2. ASSUME NEW u \in User, Request(u) PROVE TasksTyped'
  BY <1>2 DEF Request
<1>3. ASSUME NEW r \in Run, ReceiveEvent(r) PROVE TasksTyped'
  BY <1>3 DEF ReceiveEvent
<1>4. ASSUME NEW r \in Run, DropHandle(r) PROVE TasksTyped'
  BY <1>4 DEF DropHandle
<1>5. ASSUME NEW r \in Run, EnterTurn(r) PROVE TasksTyped'
  BY <1>5 DEF EnterTurn
<1>6. ASSUME NEW r \in Run, Emit(r) PROVE TasksTyped'
  BY <1>6 DEF Emit
<1>7. ASSUME NEW r \in Run, AskApproval(r) PROVE TasksTyped'
  BY <1>7 DEF AskApproval
<1>8. ASSUME NEW r \in Run, Send(r) PROVE TasksTyped'
  <2>1. muted' \subseteq Run /\ phase' \in [Run -> Phases] BY <1>8 DEF Send, Mutes
  <2>2. QED BY <1>8, <2>1 DEF Send
<1>9. ASSUME NEW r \in Run, Decided(r) PROVE TasksTyped'
  BY <1>9 DEF Decided
<1>10. ASSUME NEW r \in Run, EndRun(r) PROVE TasksTyped'
  <2>1. Over(r, "ended") /\ "ended" \in {"ended", "aborted"} BY <1>10 DEF EndRun
  <2>2. QED BY <1>10, <2>1, OverTyped DEF EndRun
<1>11. CASE StartRun
  <2>1. Head(commands).session \in Session \cup {Nil} BY <1>11, TakesTyped DEF StartRun
  <2>2. phase' \in [Run -> Phases] /\ threadOf' \in [Run -> Session \cup {Nil}] BY <1>11, <2>1 DEF StartRun
  <2>3. QED BY <1>11, <2>2 DEF StartRun
<1>12. CASE CancelRun
  BY <1>12 DEF CancelRun, ActorTyped
<1>13. CASE TerminateRun
  <2>1. CASE Head(commands).run \in runs
    <3>1. Head(commands).run \in Run BY <2>1 DEF ActorTyped
    <3>2. Aborts(Head(commands).run) BY <1>13, <2>1 DEF TerminateRun, Forced
    <3>3. QED BY <1>13, <2>1, <3>1, <3>2, AbortsTyped DEF TerminateRun
  <2>2. CASE Head(commands).run \notin runs BY <1>13, <2>2 DEF TerminateRun, Continues
  <2>3. QED BY <2>1, <2>2
<1>14. CASE DecideApproval
  <2>1. Head(commands).decision \in {"allow", "deny"} BY <1>14, TakesTyped DEF DecideApproval
  <2>2. pending' \subseteq Run /\ verdict' \in [Run -> {"none", "allow", "deny"}]
    BY <1>14, <2>1 DEF DecideApproval
  <2>3. QED BY <1>14, <2>2 DEF DecideApproval
<1>15. CASE ForkSession
  BY <1>15 DEF ForkSession
<1>16. CASE CopyThread
  BY <1>16 DEF CopyThread
<1>17. CASE DeleteSession
  BY <1>17 DEF DeleteSession
<1>18. ASSUME NEW r \in Run, RunFinished(r) PROVE TasksTyped'
  BY <1>18 DEF RunFinished
<1>19. ASSUME NEW r \in Run, DrainRun(r) PROVE TasksTyped'
  <2>1. Aborts(r) BY <1>19 DEF DrainRun
  <2>2. QED BY <1>19, <2>1, AbortsTyped DEF DrainRun
<1>20. CASE Shutdown
  BY <1>20 DEF Shutdown, ActorTyped
<1>21. CASE EndActor
  BY <1>21 DEF EndActor
<1> HIDE DEF TasksTyped
<1>22. QED
  BY <1>1, <1>2, <1>3, <1>4, <1>5, <1>6, <1>7, <1>8, <1>9, <1>10, <1>11, <1>12, <1>13, <1>14, <1>15, <1>16, <1>17, <1>18, <1>19, <1>20, <1>21
     DEF ApplicationNext, TaskStep, ActorStep

\* The types of the events.
LEMMA EventsTypedStep ==
    ASSUME ActorTyped, TasksTyped, EventsTyped, EventsInv, [ApplicationNext]_applicationVars
    PROVE  EventsTyped'
<1> USE DEF EventsTyped, actorVars, taskVars, tokens, events, approvals
<1>1. CASE UNCHANGED applicationVars
  BY <1>1 DEF applicationVars
<1>2. ASSUME NEW u \in User, Request(u) PROVE EventsTyped'
  BY <1>2 DEF Request
<1>3. ASSUME NEW r \in Run, ReceiveEvent(r) PROVE EventsTyped'
  BY <1>3 DEF ReceiveEvent
<1>4. ASSUME NEW r \in Run, DropHandle(r) PROVE EventsTyped'
  BY <1>4 DEF DropHandle
<1>5. ASSUME NEW r \in Run, EnterTurn(r) PROVE EventsTyped'
  BY <1>5 DEF EnterTurn
<1>6. ASSUME NEW r \in Run, Emit(r) PROVE EventsTyped'
  BY <1>6 DEF Emit, Emits
<1>7. ASSUME NEW r \in Run, AskApproval(r) PROVE EventsTyped'
  BY <1>7 DEF AskApproval, Emits
<1>8. ASSUME NEW r \in Run, Send(r) PROVE EventsTyped'
  <2>1. emitted[r] = Len(forwarded[r]) + 1 BY <1>8 DEF Send, EventsInv, Numbered, Writing
  <2>2. emitted[r] \in 1..MaxEvents BY <2>1
  <2>3. forwarded' \in [Run -> Seq(1..MaxEvents)]
    <3>1. CASE forwarded' = [forwarded EXCEPT ![r] = Append(@, emitted[r])]
      <4>1. Append(forwarded[r], emitted[r]) \in Seq(1..MaxEvents) BY <2>2
      <4>2. QED BY <3>1, <4>1
    <3>2. CASE UNCHANGED forwarded BY <3>2
    <3>3. QED BY <1>8, <3>1, <3>2 DEF Send
  <2>4. QED BY <1>8, <2>3 DEF Send
<1>9. ASSUME NEW r \in Run, Decided(r) PROVE EventsTyped'
  BY <1>9 DEF Decided
<1>10. ASSUME NEW r \in Run, EndRun(r) PROVE EventsTyped'
  <2>1. Over(r, "ended") /\ "ended" \in {"ended", "aborted"} BY <1>10 DEF EndRun
  <2>2. QED BY <2>1, OverTyped
<1>11. CASE StartRun
  BY <1>11 DEF StartRun
<1>12. CASE CancelRun
  BY <1>12 DEF CancelRun
<1>13. CASE TerminateRun
  <2>1. CASE Head(commands).run \in runs
    <3>1. Head(commands).run \in Run BY <2>1 DEF ActorTyped
    <3>2. Aborts(Head(commands).run) BY <1>13, <2>1 DEF TerminateRun, Forced
    <3>3. QED BY <3>1, <3>2, AbortsTyped
  <2>2. CASE Head(commands).run \notin runs BY <1>13, <2>2 DEF TerminateRun, Continues
  <2>3. QED BY <2>1, <2>2
<1>14. CASE DecideApproval
  BY <1>14 DEF DecideApproval
<1>15. CASE ForkSession
  BY <1>15 DEF ForkSession
<1>16. CASE CopyThread
  BY <1>16 DEF CopyThread
<1>17. CASE DeleteSession
  BY <1>17 DEF DeleteSession
<1>18. ASSUME NEW r \in Run, RunFinished(r) PROVE EventsTyped'
  BY <1>18 DEF RunFinished
<1>19. ASSUME NEW r \in Run, DrainRun(r) PROVE EventsTyped'
  <2>1. Aborts(r) BY <1>19 DEF DrainRun
  <2>2. QED BY <2>1, AbortsTyped
<1>20. CASE Shutdown
  BY <1>20 DEF Shutdown
<1>21. CASE EndActor
  BY <1>21 DEF EndActor
<1> HIDE DEF EventsTyped
<1>22. QED
  BY <1>1, <1>2, <1>3, <1>4, <1>5, <1>6, <1>7, <1>8, <1>9, <1>10, <1>11, <1>12, <1>13, <1>14, <1>15, <1>16, <1>17, <1>18, <1>19, <1>20, <1>21
     DEF ApplicationNext, TaskStep, ActorStep

\* Whatever forgets a run has ended it.
LEMMA RunsInvStep ==
    ASSUME ActorTyped, TasksTyped, EventsTyped, RunsInv, [ApplicationNext]_applicationVars
    PROVE  RunsInv'
<1> USE DEF RunsInv, FinishedIsOver, AliveIsActive, Alive, Goes, actorVars, taskVars, tokens, events, approvals
<1>1. CASE UNCHANGED applicationVars
  BY <1>1 DEF applicationVars
<1>2. ASSUME NEW u \in User, Request(u) PROVE RunsInv'
  BY <1>2 DEF Request, ActorTyped, TasksTyped
<1>3. ASSUME NEW r \in Run, ReceiveEvent(r) PROVE RunsInv'
  BY <1>3 DEF ReceiveEvent, ActorTyped, TasksTyped
<1>4. ASSUME NEW r \in Run, DropHandle(r) PROVE RunsInv'
  BY <1>4 DEF DropHandle, ActorTyped, TasksTyped
<1>5. ASSUME NEW r \in Run, EnterTurn(r) PROVE RunsInv'
  BY <1>5 DEF EnterTurn, ActorTyped, TasksTyped
<1>6. ASSUME NEW r \in Run, Emit(r) PROVE RunsInv'
  BY <1>6 DEF Emit, ActorTyped, TasksTyped
<1>7. ASSUME NEW r \in Run, AskApproval(r) PROVE RunsInv'
  BY <1>7 DEF AskApproval, ActorTyped, TasksTyped
<1>8. ASSUME NEW r \in Run, Send(r) PROVE RunsInv'
  BY <1>8 DEF Send, ActorTyped, TasksTyped
<1>9. ASSUME NEW r \in Run, Decided(r) PROVE RunsInv'
  BY <1>9 DEF Decided, ActorTyped, TasksTyped
<1>10. ASSUME NEW r \in Run, EndRun(r) PROVE RunsInv'
  <2>1. Over(r, "ended") /\ "ended" \in {"ended", "aborted"} BY <1>10 DEF EndRun
  <2>2. phase'[r] = "ended" /\ \A s \in Run : s # r => phase'[s] = phase[s] BY <2>1, OverTyped
  <2>3. QED BY <1>10, <2>2 DEF EndRun, ActorTyped
<1>11. CASE StartRun
  <2>1. CASE Head(commands).session \in sessions
    <3>1. PICK r \in Run : phase[r] = "none" /\ Goes(r, "queued") /\ runs' = runs \cup {r}
      BY <1>11, <2>1 DEF StartRun
    <3>2. phase'[r] = "queued" /\ \A s \in Run : s # r => phase'[s] = phase[s] BY <3>1 DEF TasksTyped
    <3>3. internal' = internal BY <1>11 DEF StartRun
    <3>4. QED BY <3>1, <3>2, <3>3 DEF ActorTyped
  <2>2. CASE Head(commands).session \notin sessions BY <1>11, <2>2 DEF StartRun
  <2>3. QED BY <2>1, <2>2
<1>12. CASE CancelRun
  BY <1>12 DEF CancelRun, ActorTyped, TasksTyped
<1>13. CASE TerminateRun
  <2>1. CASE Head(commands).run \in runs
    <3> DEFINE r == Head(commands).run
    <3>1. r \in Run BY <2>1 DEF ActorTyped
    <3>2. Aborts(r) BY <1>13, <2>1 DEF TerminateRun, Forced
    <3>3. /\ phase'[r] \notin {"queued", "turn", "sending", "announcing", "asking", "ending"}
          /\ \A s \in Run : s # r => phase'[s] = phase[s]
          /\ phase[r] = "ended" => phase'[r] = "ended" BY <3>1, <3>2, AbortsOver
    <3>4. runs' = runs \ {r} /\ internal' = internal BY <1>13, <2>1 DEF TerminateRun
    <3> HIDE DEF r
    <3>5. QED BY <3>1, <3>3, <3>4 DEF ActorTyped
  <2>2. CASE Head(commands).run \notin runs BY <1>13, <2>2 DEF TerminateRun, Continues
  <2>3. QED BY <2>1, <2>2
<1>14. CASE DecideApproval
  BY <1>14 DEF DecideApproval, ActorTyped, TasksTyped
<1>15. CASE ForkSession
  BY <1>15 DEF ForkSession, ActorTyped, TasksTyped
<1>16. CASE CopyThread
  BY <1>16 DEF CopyThread, ActorTyped, TasksTyped
<1>17. CASE DeleteSession
  BY <1>17 DEF DeleteSession, ActorTyped, TasksTyped
<1>18. ASSUME NEW r \in Run, RunFinished(r) PROVE RunsInv'
  BY <1>18 DEF RunFinished, ActorTyped
<1>19. ASSUME NEW r \in Run, DrainRun(r) PROVE RunsInv'
  <2>1. Aborts(r) BY <1>19 DEF DrainRun
  <2>2. /\ phase'[r] \notin {"queued", "turn", "sending", "announcing", "asking", "ending"}
        /\ \A s \in Run : s # r => phase'[s] = phase[s]
        /\ phase[r] = "ended" => phase'[r] = "ended"
    BY <2>1, AbortsOver
  <2>3. QED BY <1>19, <2>2 DEF DrainRun, ActorTyped
<1>20. CASE Shutdown
  BY <1>20 DEF Shutdown, ActorTyped, TasksTyped
<1>21. CASE EndActor
  BY <1>21 DEF EndActor, ActorTyped
<1> HIDE DEF RunsInv
<1>22. QED
  BY <1>1, <1>2, <1>3, <1>4, <1>5, <1>6, <1>7, <1>8, <1>9, <1>10, <1>11, <1>12, <1>13, <1>14, <1>15, <1>16, <1>17, <1>18, <1>19, <1>20, <1>21
     DEF ApplicationNext, TaskStep, ActorStep

\* A select that gives an event up mutes the run in the same step, and a muted run
\* sends no more.
LEMMA EventsInvStep ==
    ASSUME ActorTyped, TasksTyped, EventsTyped, EventsInv, [ApplicationNext]_applicationVars
    PROVE  EventsInv'
<1> USE DEF EventsInv, ChannelBounded, Numbered, Writing, NoGap, actorVars, taskVars, tokens, events, approvals
<1>1. CASE UNCHANGED applicationVars
  BY <1>1 DEF applicationVars
<1>2. ASSUME NEW u \in User, Request(u) PROVE EventsInv'
  BY <1>2 DEF Request
<1>3. ASSUME NEW r \in Run, ReceiveEvent(r) PROVE EventsInv'
  <2>1. received'[r] = received[r] + 1 /\ \A s \in Run : s # r => received'[s] = received[s]
    BY <1>3 DEF ReceiveEvent, EventsTyped
  <2>2. received[r] + 1 <= Len(forwarded[r])
    BY <1>3 DEF ReceiveEvent, EventsTyped
  <2>3. ChannelBounded' BY <1>3, <2>1, <2>2 DEF ReceiveEvent, EventsTyped
  <2>4. QED BY <1>3, <2>3 DEF ReceiveEvent
<1>4. ASSUME NEW r \in Run, DropHandle(r) PROVE EventsInv'
  BY <1>4 DEF DropHandle
<1>5. ASSUME NEW r \in Run, EnterTurn(r) PROVE EventsInv'
  <2>1. phase[r] = "queued" /\ phase' = [phase EXCEPT ![r] = "turn"] BY <1>5 DEF EnterTurn, Goes
  <2>2. QED BY <1>5, <2>1 DEF EnterTurn, TasksTyped
<1>6. ASSUME NEW r \in Run, Emit(r) PROVE EventsInv'
  <2>1. emitted'[r] = emitted[r] + 1 /\ \A s \in Run : s # r => emitted'[s] = emitted[s] /\ phase'[s] = phase[s]
    BY <1>6 DEF Emit, Emits, Goes, EventsTyped, TasksTyped
  <2>2. phase[r] = "turn" /\ phase'[r] = IF r \in muted THEN "turn" ELSE "sending"
    BY <1>6 DEF Emit, Goes, TasksTyped
  <2>3. UNCHANGED <<muted, forwarded, received>> BY <1>6 DEF Emit
  <2>4. QED BY <2>1, <2>2, <2>3
<1>7. ASSUME NEW r \in Run, AskApproval(r) PROVE EventsInv'
  <2>1. emitted'[r] = emitted[r] + 1 /\ \A s \in Run : s # r => emitted'[s] = emitted[s] /\ phase'[s] = phase[s]
    BY <1>7 DEF AskApproval, Emits, Goes, EventsTyped, TasksTyped
  <2>2. phase[r] = "turn" /\ phase'[r] = IF r \in muted THEN "asking" ELSE "announcing"
    BY <1>7 DEF AskApproval, Goes, TasksTyped
  <2>3. UNCHANGED <<muted, forwarded, received>> BY <1>7 DEF AskApproval
  <2>4. QED BY <2>1, <2>2, <2>3
<1>8. ASSUME NEW r \in Run, Send(r) PROVE EventsInv'
  <2>1. Writing(r) /\ ~ Writing(r)' /\ \A s \in Run : s # r => phase'[s] = phase[s]
    BY <1>8 DEF Send, Goes, TasksTyped
  <2>2. UNCHANGED <<emitted, received>> BY <1>8 DEF Send
  <2>3. r \notin muted /\ emitted[r] = Len(forwarded[r]) + 1 BY <2>1
  <2>4. CASE HasRoom(r) /\ forwarded' = [forwarded EXCEPT ![r] = Append(@, emitted[r])] /\ UNCHANGED muted
    <3>1. /\ forwarded'[r] = Append(forwarded[r], emitted[r])
          /\ \A s \in Run : s # r => forwarded'[s] = forwarded[s]
      BY <2>4 DEF EventsTyped
    <3>2. forwarded[r] \in Seq(1..MaxEvents) BY DEF EventsTyped
    <3>3. /\ Len(forwarded'[r]) = Len(forwarded[r]) + 1 /\ Len(forwarded[r]) \in Nat
          /\ forwarded'[r][Len(forwarded[r]) + 1] = emitted[r]
          /\ \A i \in DOMAIN forwarded[r] : forwarded'[r][i] = forwarded[r][i]
          /\ DOMAIN forwarded'[r] = 1..(Len(forwarded[r]) + 1) /\ DOMAIN forwarded[r] = 1..Len(forwarded[r])
      BY <3>1, <3>2
    <3>4. Len(forwarded[r]) < received[r] + EventCapacity BY <2>4, <3>3 DEF HasRoom, EventsTyped
    <3>5. ChannelBounded'
      <4>1. received[r] <= Len(forwarded[r]) /\ received[r] \in Nat BY DEF EventsTyped
      <4>2. received'[r] <= Len(forwarded'[r]) /\ Len(forwarded'[r]) <= received'[r] + EventCapacity
        BY <2>2, <3>3, <3>4, <4>1
      <4>3. QED BY <2>2, <3>1, <4>2
    <3>6. Numbered' BY <2>1, <2>2, <2>3, <2>4, <3>1, <3>3
    <3>7. NoGap'
      <4>1. \A i \in DOMAIN forwarded'[r] : i \in DOMAIN forwarded[r] \/ i = Len(forwarded[r]) + 1 BY <3>3
      <4>2. QED BY <2>3, <3>1, <3>3, <4>1
    <3>8. QED BY <3>5, <3>6, <3>7
  <2>5. CASE muted' = Mutes(r) /\ UNCHANGED forwarded BY <2>1, <2>2, <2>5 DEF Mutes
  <2>6. QED BY <1>8, <2>4, <2>5 DEF Send
<1>9. ASSUME NEW r \in Run, Decided(r) PROVE EventsInv'
  <2>1. phase[r] = "asking" /\ (Goes(r, "turn") \/ Goes(r, "ending")) BY <1>9 DEF Decided
  <2>2. \A s \in Run : Writing(s)' <=> Writing(s) BY <2>1 DEF Goes, TasksTyped
  <2>3. UNCHANGED events BY <1>9 DEF Decided
  <2> HIDE DEF Writing
  <2>4. QED BY <2>2, <2>3
<1>10. ASSUME NEW r \in Run, EndRun(r) PROVE EventsInv'
  <2>1. Over(r, "ended") /\ "ended" \in {"ended", "aborted"} BY <1>10 DEF EndRun
  <2> HIDE DEF EventsInv
  <2>2. QED BY <2>1, OverKeepsEvents
<1>11. CASE StartRun
  <2>1. UNCHANGED events BY <1>11 DEF StartRun
  <2>2. \A s \in Run : Writing(s)' <=> Writing(s)
    <3>1. CASE UNCHANGED phase BY <3>1
    <3>2. ASSUME NEW r \in Run, phase[r] = "none", Goes(r, "queued") PROVE \A s \in Run : Writing(s)' <=> Writing(s)
      BY <3>2 DEF Goes, TasksTyped
    <3>3. QED BY <1>11, <3>1, <3>2 DEF StartRun
  <2> HIDE DEF Writing
  <2>3. QED BY <2>1, <2>2
<1>12. CASE CancelRun
  BY <1>12 DEF CancelRun
<1>13. CASE TerminateRun
  <2>1. CASE Head(commands).run \in runs
    <3>1. Head(commands).run \in Run BY <2>1 DEF ActorTyped
    <3>2. Aborts(Head(commands).run) BY <1>13, <2>1 DEF TerminateRun, Forced
    <3> HIDE DEF EventsInv
    <3>3. QED BY <3>1, <3>2, AbortsKeepEvents
  <2>2. CASE Head(commands).run \notin runs BY <1>13, <2>2 DEF TerminateRun, Continues
  <2>3. QED BY <2>1, <2>2
<1>14. CASE DecideApproval
  BY <1>14 DEF DecideApproval
<1>15. CASE ForkSession
  BY <1>15 DEF ForkSession
<1>16. CASE CopyThread
  BY <1>16 DEF CopyThread
<1>17. CASE DeleteSession
  BY <1>17 DEF DeleteSession
<1>18. ASSUME NEW r \in Run, RunFinished(r) PROVE EventsInv'
  BY <1>18 DEF RunFinished
<1>19. ASSUME NEW r \in Run, DrainRun(r) PROVE EventsInv'
  <2>1. Aborts(r) BY <1>19 DEF DrainRun
  <2> HIDE DEF EventsInv
  <2>2. QED BY <2>1, AbortsKeepEvents
<1>20. CASE Shutdown
  BY <1>20 DEF Shutdown
<1>21. CASE EndActor
  BY <1>21 DEF EndActor
<1> HIDE DEF EventsInv
<1>22. QED
  BY <1>1, <1>2, <1>3, <1>4, <1>5, <1>6, <1>7, <1>8, <1>9, <1>10, <1>11, <1>12, <1>13, <1>14, <1>15, <1>16, <1>17, <1>18, <1>19, <1>20, <1>21
     DEF ApplicationNext, TaskStep, ActorStep

\* The approval that is taken out of pending leaves a verdict behind, unless the
\* run takes it back or is over.
LEMMA AskedIsPendingStep ==
    ASSUME ActorTyped, TasksTyped, EventsTyped, AskedIsPending, [ApplicationNext]_applicationVars
    PROVE  AskedIsPending'
<1> USE DEF AskedIsPending, Goes, actorVars, taskVars, tokens, events, approvals
<1>1. CASE UNCHANGED applicationVars
  BY <1>1 DEF applicationVars
<1>2. ASSUME NEW u \in User, Request(u) PROVE AskedIsPending'
  BY <1>2 DEF Request, TasksTyped
<1>3. ASSUME NEW r \in Run, ReceiveEvent(r) PROVE AskedIsPending'
  BY <1>3 DEF ReceiveEvent, TasksTyped
<1>4. ASSUME NEW r \in Run, DropHandle(r) PROVE AskedIsPending'
  BY <1>4 DEF DropHandle, TasksTyped
<1>5. ASSUME NEW r \in Run, EnterTurn(r) PROVE AskedIsPending'
  BY <1>5 DEF EnterTurn, TasksTyped
<1>6. ASSUME NEW r \in Run, Emit(r) PROVE AskedIsPending'
  BY <1>6 DEF Emit, TasksTyped
<1>7. ASSUME NEW r \in Run, AskApproval(r) PROVE AskedIsPending'
  BY <1>7 DEF AskApproval, TasksTyped
<1>8. ASSUME NEW r \in Run, Send(r) PROVE AskedIsPending'
  BY <1>8 DEF Send, TasksTyped
<1>9. ASSUME NEW r \in Run, Decided(r) PROVE AskedIsPending'
  BY <1>9 DEF Decided, TasksTyped
<1>10. ASSUME NEW r \in Run, EndRun(r) PROVE AskedIsPending'
  <2>1. Over(r, "ended") /\ "ended" \in {"ended", "aborted"} /\ UNCHANGED pending BY <1>10 DEF EndRun
  <2> HIDE DEF AskedIsPending
  <2>2. QED BY <2>1, OverKeepsAsked
<1>11. CASE StartRun
  <2>1. UNCHANGED approvals BY <1>11 DEF StartRun
  <2>2. \A s \in Run : phase'[s] \in {"announcing", "asking"} => phase'[s] = phase[s]
    <3>1. CASE UNCHANGED phase BY <3>1
    <3>2. ASSUME NEW r \in Run, Goes(r, "queued")
          PROVE  \A s \in Run : phase'[s] \in {"announcing", "asking"} => phase'[s] = phase[s]
      BY <3>2 DEF TasksTyped
    <3>3. QED BY <1>11, <3>1, <3>2 DEF StartRun
  <2>3. QED BY <2>1, <2>2
<1>12. CASE CancelRun
  BY <1>12 DEF CancelRun, TasksTyped
<1>13. CASE TerminateRun
  <2>1. CASE Head(commands).run \in runs
    <3>1. Head(commands).run \in Run BY <2>1 DEF ActorTyped
    <3>2. Aborts(Head(commands).run) /\ UNCHANGED pending BY <1>13, <2>1 DEF TerminateRun, Forced
    <3> HIDE DEF AskedIsPending
    <3>3. QED BY <3>1, <3>2, AbortsKeepAsked
  <2>2. CASE Head(commands).run \notin runs BY <1>13, <2>2 DEF TerminateRun, Continues
  <2>3. QED BY <2>1, <2>2
<1>14. CASE DecideApproval
  <2>1. CASE Head(commands).run \in pending
    <3> DEFINE r == Head(commands).run
    <3>1. r \in Run /\ Head(commands).decision \in {"allow", "deny"} BY <1>14, <2>1, TakesTyped DEF DecideApproval, TasksTyped
    <3>2. /\ pending' = pending \ {r} /\ UNCHANGED phase
          /\ verdict' = IF Told(r) THEN [verdict EXCEPT ![r] = Head(commands).decision] ELSE verdict
      BY <1>14, <2>1 DEF DecideApproval
    <3> HIDE DEF r
    <3>3. phase[r] \in {"announcing", "asking"} => Told(r) BY DEF Told, Alive
    <3>4. phase[r] \in {"announcing", "asking"} => verdict'[r] # "none" BY <3>1, <3>2, <3>3 DEF TasksTyped
    <3>5. \A s \in Run : s # r => verdict'[s] = verdict[s] BY <3>1, <3>2 DEF TasksTyped
    <3>6. QED BY <3>2, <3>4, <3>5
  <2>2. CASE Head(commands).run \notin pending BY <1>14, <2>2 DEF DecideApproval
  <2>3. QED BY <2>1, <2>2
<1>15. CASE ForkSession
  BY <1>15 DEF ForkSession, TasksTyped
<1>16. CASE CopyThread
  BY <1>16 DEF CopyThread, TasksTyped
<1>17. CASE DeleteSession
  BY <1>17 DEF DeleteSession, TasksTyped
<1>18. ASSUME NEW r \in Run, RunFinished(r) PROVE AskedIsPending'
  BY <1>18 DEF RunFinished, TasksTyped
<1>19. ASSUME NEW r \in Run, DrainRun(r) PROVE AskedIsPending'
  <2>1. Aborts(r) /\ UNCHANGED pending BY <1>19 DEF DrainRun
  <2> HIDE DEF AskedIsPending
  <2>2. QED BY <2>1, AbortsKeepAsked
<1>20. CASE Shutdown
  BY <1>20 DEF Shutdown, TasksTyped
<1>21. CASE EndActor
  BY <1>21 DEF EndActor, TasksTyped
<1> HIDE DEF AskedIsPending
<1>22. QED
  BY <1>1, <1>2, <1>3, <1>4, <1>5, <1>6, <1>7, <1>8, <1>9, <1>10, <1>11, <1>12, <1>13, <1>14, <1>15, <1>16, <1>17, <1>18, <1>19, <1>20, <1>21
     DEF ApplicationNext, TaskStep, ActorStep

\* Every step keeps the invariant.
LEMMA InvStep == Inv /\ [ApplicationNext]_applicationVars => Inv'
BY ActorTypedStep, TasksTypedStep, EventsTypedStep, RunsInvStep, EventsInvStep, AskedIsPendingStep
   DEF Inv, Types

LEMMA InvHolds == ApplicationSpec => []Inv
BY InvInit, InvStep, PTL DEF ApplicationSpec

\* For any clients, sessions, runs and bounds: the types, a channel never holds more
\* than its capacity, and a task that runs is an active run (ApplicationTypeOK).
THEOREM ApplicationTypeCorrect == ApplicationSpec => []ApplicationTypeOK
BY InvHolds, InvImplies, PTL

\* For any number of events and any capacity, whenever a run is cancelled, stopped,
\* aborted or dropped by its client: no event that was left out has a successor.
THEOREM NoGapAlways == ApplicationSpec => []NoGap
BY InvHolds, InvImplies, PTL

\* For any number of runs and clients that decide, cancel and terminate: a turn that
\* waits for a decision can be given one, or has been.
THEOREM WaiterIsPendingAlways == ApplicationSpec => []WaiterIsPending
BY InvHolds, InvImplies, PTL
=============================================================================
