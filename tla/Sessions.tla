----------------------------- MODULE Sessions ------------------------------
(***************************************************************************)
(* The session store (session.rs): sessions, the channels they are bound   *)
(* to, and the sub-sessions that runs report of them (record_sub_session   *)
(* of the application, and Feishu and the web chat by themselves).         *)
(* Every operation changes the store in memory first and then replaces     *)
(* sessions.json by all of it, which may fail; a process that starts reads *)
(* what the last successful save has left.                                 *)
(*                                                                         *)
(* One process has the store, and its callers hold its mutex for the whole *)
(* of an operation.                                                        *)
(***************************************************************************)
EXTENDS Integers

CONSTANTS
    Channel,      \* channel keys
    SubSession,   \* sub-sessions; the thread id of one is also its channel key
    NoChannel,    \* the binding of an id that is not in the store
    MaxIds,       \* bound on the sessions ever made
    MaxRestarts   \* bound on the crashes of the process

ASSUME SessionsAssumption ==
    /\ SubSession \subseteq Channel /\ NoChannel \notin Channel
    /\ MaxIds \in Nat /\ MaxRestarts \in Nat

Id == 1..MaxIds   \* every session has a fresh id
NoSession == 0
Status == {"running", "over"}   \* "done" and "error" are told apart by nothing here
Terminal == {"over"}            \* is_terminal_sub_session_status

VARIABLES
    store,     \* the store in memory
    saved,     \* sessions.json
    lastId,    \* ids 1..lastId were made
    promised,  \* promised[k]: the session that a caller was told channel k has
    over,      \* <<s, x>>: a caller was told that the end of x in s is recorded, and
               \* no channel that takes the events in their order has gone on with x
    restarts

sessionsVars == <<store, saved, lastId, promised, over, restarts>>

Store == [bound : [Id -> Channel \cup {NoChannel}], index : [Channel -> Id \cup {NoSession}],
          subs : [Id -> [SubSession -> Status \cup {"absent"}]]]
EmptyStore == [bound |-> [s \in Id |-> NoChannel], index |-> [k \in Channel |-> NoSession],
               subs |-> [s \in Id |-> [x \in SubSession |-> "absent"]]]

Fresh == {lastId + 1} \cap Id
Exists(s) == store.bound[s] # NoChannel

SessionsInit ==
    /\ store = EmptyStore /\ saved = EmptyStore /\ lastId = 0
    /\ promised = [k \in Channel |-> NoSession] /\ over = {}
    /\ restarts = 0

Saves == saved' = store'
Fails == saved' = saved   \* the temporary file cannot be written or renamed

\* A session s that is not in the store, bound to channel k.
With(st, s, k) == [st EXCEPT !.bound[s] = k, !.index[k] = s]
Without(index, s) == [k \in Channel |-> IF index[k] = s THEN NoSession ELSE index[k]]
-----------------------------------------------------------------------------
\* resolve_channel: the session of the channel, which is also touched and saved.
SavesKnown_Never == Fails
SavesKnown == Saves

ResolveChannel(k) ==
    /\ IF store.index[k] # NoSession
       THEN /\ UNCHANGED <<store, lastId>>
            /\ \/ SavesKnown /\ promised' = [promised EXCEPT ![k] = store.index[k]]
               \/ Fails /\ UNCHANGED promised
       ELSE \E s \in Fresh :
            /\ store' = With(store, s, k) /\ lastId' = s
            /\ \/ Saves /\ promised' = [promised EXCEPT ![k] = s]
               \/ Fails /\ UNCHANGED promised
    /\ UNCHANGED <<over, restarts>>

\* fork_session; a channel that has a session keeps it, and nothing is saved.
ForkedSession(source, k) ==
    /\ Exists(source) /\ store.index[k] = NoSession
    /\ \E s \in Fresh :
          /\ store' = With(store, s, k) /\ lastId' = s
          /\ \/ Saves /\ promised' = [promised EXCEPT ![k] = s]
             \/ Fails /\ UNCHANGED promised
    /\ UNCHANGED <<over, restarts>>

\* set_channel_binding: the session gives up its channels and takes this one,
\* from whatever session it was of.
Rebound_KeepsOld(s, k) == [store EXCEPT !.bound[s] = k, !.index[k] = s]
Rebound(s, k) == [store EXCEPT !.bound[s] = k, !.index = [Without(store.index, s) EXCEPT ![k] = s]]

SetChannelBinding(s, k) ==
    /\ Exists(s)
    /\ store' = Rebound(s, k)
    /\ promised' = [c \in Channel |-> IF c = k \/ promised[c] = s THEN NoSession ELSE promised[c]]
    /\ Saves \/ Fails
    /\ UNCHANGED <<lastId, over, restarts>>

Deleted(s) ==
    [store EXCEPT !.bound[s] = NoChannel, !.index = Without(store.index, s),
                  !.subs[s] = EmptyStore.subs[s]]

Delete(s) ==
    /\ Exists(s)
    /\ store' = Deleted(s)
    /\ promised' = [k \in Channel |-> IF promised[k] = s THEN NoSession ELSE promised[k]]
    /\ over' = {p \in over : p[1] # s}
    /\ Saves \/ Fails
    /\ UNCHANGED <<lastId, restarts>>

\* rename, patch, the metadata setters, set_title_if_empty.
Touch ==
    /\ \E s \in Id : Exists(s)
    /\ UNCHANGED store
    /\ Saves \/ Fails
    /\ UNCHANGED <<lastId, promised, over, restarts>>

\* upsert_sub_session_channel, by record_sub_session: the events of a sub-session
\* are recorded by independent tasks, in any order.
NewStatus_Latest(old, status) == status
NewStatus(old, status) == IF old \in Terminal /\ status = "running" THEN old ELSE status

\* (Here a sub-session reports none of its own.)
RecordSubSession(parent, x, status) ==
    /\ store.bound[parent] \notin SubSession
    /\ \E child \in IF store.index[x] # NoSession THEN {store.index[x]} ELSE Fresh :
          LET st == With(store, child, x) IN
          /\ lastId' = IF child > lastId THEN child ELSE lastId
          /\ store' = IF Exists(parent)
                      THEN [st EXCEPT !.subs[parent][x] = NewStatus(@, status)] ELSE st
          /\ \/ /\ Saves /\ promised' = [promised EXCEPT ![x] = child]
                /\ over' = IF Exists(parent) /\ status \in Terminal THEN over \cup {<<parent, x>>}
                           ELSE over
             \/ Fails /\ UNCHANGED <<promised, over>>
    /\ UNCHANGED restarts

\* upsert_sub_session, by Feishu and the web chat: they take the events of their
\* own stream in order, and a further run of an ended sub-session is running.
\* (The channel of the child is a ResolveChannel and a Touch afterwards.)
UpsertSubSession(parent, x, status) ==
    /\ Exists(parent) /\ store.bound[parent] \notin SubSession
    /\ store' = [store EXCEPT !.subs[parent][x] = status]
    /\ \/ Saves /\ over' = IF status \in Terminal THEN over \cup {<<parent, x>>}
                           ELSE over \ {<<parent, x>>}
       \/ Fails /\ over' = IF status \in Terminal THEN over ELSE over \ {<<parent, x>>}
    /\ UNCHANGED <<lastId, promised, restarts>>

\* The process ends and is started again.
Restart ==
    /\ restarts < MaxRestarts /\ restarts' = restarts + 1
    /\ store' = saved
    /\ UNCHANGED <<saved, lastId, promised, over>>

SessionsNext ==
    \/ \E k \in Channel :
          \/ ResolveChannel(k)
          \/ \E s \in Id : ForkedSession(s, k) \/ SetChannelBinding(s, k)
    \/ \E s \in Id : Delete(s)
    \/ Touch
    \/ \E s \in 1..lastId, x \in SubSession, status \in Status :
          RecordSubSession(s, x, status) \/ UpsertSubSession(s, x, status)
    \/ Restart

SessionsSpec == SessionsInit /\ [][SessionsNext]_sessionsVars
-----------------------------------------------------------------------------
SessionsTypeOK ==
    /\ store \in Store /\ saved \in Store /\ lastId \in 0..MaxIds
    /\ promised \in [Channel -> Id \cup {NoSession}] /\ over \subseteq Id \X SubSession
    /\ restarts \in 0..MaxRestarts
    /\ \A s \in lastId + 1..MaxIds : store.bound[s] = NoChannel /\ saved.bound[s] = NoChannel
    /\ \A st \in {store, saved}, s \in Id :
          st.bound[s] = NoChannel => \A x \in SubSession : st.subs[s][x] = "absent"

\* A channel is only indexed under a session that exists and is bound to it, in
\* memory and on disk; otherwise every event of that channel fails.
IndexIsSound ==
    \A st \in {store, saved} : \A k \in Channel :
        st.index[k] # NoSession => st.bound[st.index[k]] = k

\* The session that a caller was told a channel has stays the channel's, through
\* failing saves and restarts, until somebody deletes or rebinds it.
ChannelIsDurable ==
    \A k \in Channel : promised[k] # NoSession =>
        store.index[k] = promised[k] /\ saved.index[k] = promised[k]

\* A sub-session whose end was recorded is not shown as running by a delayed event
\* of it, in whatever order record_sub_session records its events, whatever save
\* fails and whenever the process restarts: it is only when Feishu or the web chat,
\* which take events in order, has a further event of it (upsert_sub_session).
EndIsDurable ==
    \A p \in over : store.subs[p[1]][p[2]] \in Terminal /\ saved.subs[p[1]][p[2]] \in Terminal
=============================================================================
