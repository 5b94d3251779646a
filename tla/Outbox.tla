------------------------------- MODULE Outbox -------------------------------
(***************************************************************************)
(* Proactive messages (src/src/proactive.rs): a command asks the process   *)
(* that holds the profile lock to post a text in the Feishu chat of a      *)
(* session and to add it to the history of that session, under a key that  *)
(* names the delivery.  What was done of a delivery is in its outbox       *)
(* record, which is replaced atomically and so survives a crash between    *)
(* any two steps; a caller retries by sending the key again.               *)
(*                                                                         *)
(* The network loses, delays and answers too late.  Feishu posts a message *)
(* with a UUID that it remembers only once; it remembers it for one hour.  *)
(*                                                                         *)
(* The session is one; its run lock, which a delivery holds throughout, is *)
(* implied by the profile lock here.  Turns of the session are left out.   *)
(***************************************************************************)
EXTENDS Integers

CONSTANTS
    Process,     \* the runtimes and the offline senders of the profile
    NoProcess,   \* the holder of a free lock
    Key,         \* idempotency keys
    Text,        \* message texts
    Chat,        \* the chats that the session may be bound to
    NoRecord,    \* the outbox record of a key that was never used
    NoAsk,       \* the request of a process that serves none
    MaxUuids,    \* bound on the records ever made
    MaxCalls,    \* bound on the requests sent to Feishu
    MaxDeaths    \* bound on the crashes

Uuid == 1..MaxUuids  \* provider_uuid and delivery_id, both fresh with the record
Call == 1..MaxCalls
State == {"pending", "sending", "sent", "uncertain", "failed", "complete"}
OutboxRecord == [id : Uuid, text : Text, channel : Chat, state : State]
Ask == [key : Key, text : Text, channel : Chat]
Request == [call : Call, key : Key, id : Uuid, text : Text, channel : Chat]

ASSUME OutboxAssumption ==
    /\ NoProcess \notin Process /\ NoRecord \notin OutboxRecord /\ NoAsk \notin Ask
    /\ MaxUuids \in Nat /\ MaxCalls \in Nat /\ MaxDeaths \in Nat

VARIABLES
    outbox,      \* the records, on disk
    profileLock, \* who holds the profile lock
    at,          \* the step each process is at
    ask,         \* the request it serves, for the channel the session has then
    held,        \* its copy of the record
    call,        \* the request to Feishu it waits for
    drawn,       \* ids 1..drawn were drawn
    calls,       \* requests 1..calls were sent
    wire,        \* requests on their way
    posts,       \* the requests that made a message in a chat
    heard,       \* the requests that Feishu answered with a message id
    remembered,  \* the ids that Feishu takes for duplicates
    age,         \* of the first request with an id: "tried" within the hour, then "old"
    said,        \* how often the message of an id is in the history of the session
    binding,     \* the channel of the session
    told,        \* the requests whose caller was told "complete"
    refused,     \* the ids whose delivery was ever recorded as "failed"
    deaths

service == <<at, ask, held, call>>
feishu == <<calls, wire, posts, heard, remembered, age>>
results == <<told, refused>>
outboxVars == <<outbox, profileLock, at, ask, held, call, drawn, calls, wire, posts, heard,
                remembered, age, said, binding, told, refused, deaths>>

OutboxInit ==
    /\ outbox = [k \in Key |-> NoRecord] /\ profileLock = NoProcess
    /\ at = [p \in Process |-> "idle"] /\ ask = [p \in Process |-> NoAsk]
    /\ held = [p \in Process |-> NoRecord] /\ call = [p \in Process |-> 0]
    /\ drawn = 0 /\ calls = 0 /\ wire = {} /\ posts = {} /\ heard = {} /\ remembered = {}
    /\ age = [i \in Uuid |-> "new"] /\ said = [i \in Uuid |-> 0]
    /\ binding \in Chat /\ told = {} /\ refused = {} /\ deaths = 0
-----------------------------------------------------------------------------
\* ProfileLock::try_acquire: who finds the profile locked gives up.
Free(p) == profileLock = NoProcess

Acquire(p) ==
    /\ Free(p)
    /\ profileLock' = p
    /\ UNCHANGED <<outbox, service, drawn, feishu, said, binding, results, deaths>>

\* The guard is dropped with the process, when no delivery is under way.
Release(p) ==
    /\ profileLock = p /\ at[p] = "idle"
    /\ profileLock' = NoProcess
    /\ UNCHANGED <<outbox, service, drawn, feishu, said, binding, results, deaths>>

Serves(p, a, r, step) ==
    /\ at' = [at EXCEPT ![p] = step] /\ ask' = [ask EXCEPT ![p] = a]
    /\ held' = [held EXCEPT ![p] = r]

\* The delivery returns to its caller.
Returns(p) ==
    /\ at' = [at EXCEPT ![p] = "idle"] /\ ask' = [ask EXCEPT ![p] = NoAsk]
    /\ held' = [held EXCEPT ![p] = NoRecord] /\ call' = [call EXCEPT ![p] = 0]

SavesRecord(p, r) == outbox' = [outbox EXCEPT ![ask[p].key] = r]

\* A save that fails ends the delivery: the file cannot be written or renamed, or
\* the directory cannot be synced when the record is in its place already.
SaveFails(p, r) == (UNCHANGED outbox \/ SavesRecord(p, r)) /\ Returns(p)

\* ensure_same_delivery
SameDelivery_Any(r, a) == TRUE
SameDelivery(r, a) == r.text = a.text /\ r.channel = a.channel

\* DeliveryService::send, until its first request: a new delivery gets its record
\* before anything else is done; other contents under a known key are refused.
Take(p, a) ==
    /\ profileLock = p /\ at[p] = "idle" /\ a.channel = binding
    /\ \/ /\ outbox[a.key] = NoRecord /\ drawn < MaxUuids /\ drawn' = drawn + 1
          /\ LET r == [id |-> drawn + 1, text |-> a.text, channel |-> a.channel,
                       state |-> "pending"] IN
             \/ outbox' = [outbox EXCEPT ![a.key] = r] /\ Serves(p, a, r, "loaded")
             \/ outbox' \in {outbox, [outbox EXCEPT ![a.key] = r]} /\ UNCHANGED <<at, ask, held>>
          /\ UNCHANGED told
       \/ /\ outbox[a.key] # NoRecord /\ SameDelivery(outbox[a.key], a)
          /\ IF outbox[a.key].state = "complete"
             THEN told' = told \cup {a} /\ UNCHANGED <<at, ask, held>>
             ELSE Serves(p, a, outbox[a.key], "loaded") /\ UNCHANGED told
          /\ UNCHANGED <<outbox, drawn>>
    /\ UNCHANGED <<profileLock, call, feishu, said, binding, refused, deaths>>

\* unconfirmed_retry_window_expired
Unconfirmed_Sending == {"sending"}
Unconfirmed == {"uncertain", "sending"}
Expired(r) == r.state \in Unconfirmed /\ age[r.id] = "old"
MaySend(p) == at[p] = "loaded" /\ held[p].state # "sent" /\ ~ Expired(held[p])

\* The record gets the state s, where it can be saved, and the delivery returns.
EndsAs(p, s) ==
    /\ \/ /\ SavesRecord(p, [held[p] EXCEPT !.state = s])
          /\ refused' = IF s = "failed" THEN refused \cup {held[p].id} ELSE refused
       \/ UNCHANGED <<outbox, refused>>
    /\ Returns(p)
    /\ UNCHANGED <<profileLock, drawn, calls, posts, heard, remembered, age, said, binding,
                   told,
                   deaths>>

\* The hour is over: the message may have been posted, it is not sent again.
Withhold(p) ==
    /\ at[p] = "loaded" /\ held[p].state # "sent" /\ Expired(held[p])
    /\ EndsAs(p, "uncertain") /\ UNCHANGED wire

\* The topic has no reply anchor, or there is no token.
Refuse(p) == MaySend(p) /\ EndsAs(p, "failed") /\ UNCHANGED wire

\* "sending" is saved before the request leaves.  (The connection is closed by
\* a timeout of 30 s, and a request refused for its token is made once more.)
Launch(p) ==
    /\ MaySend(p) /\ calls < MaxCalls
    /\ LET r == [held[p] EXCEPT !.state = "sending"]
           m == [call |-> calls + 1, key |-> ask[p].key, id |-> r.id, text |-> r.text,
                 channel |-> r.channel] IN
       \/ /\ SavesRecord(p, r)
          /\ age' = [age EXCEPT ![m.id] = IF @ = "new" THEN "tried" ELSE @]
          /\ \/ /\ Serves(p, ask[p], r, "sending")
                /\ calls' = calls + 1 /\ call' = [call EXCEPT ![p] = calls + 1]
                /\ wire' = wire \cup {m}
             \/ Returns(p) /\ UNCHANGED <<calls, wire>>
       \/ UNCHANGED <<outbox, calls, wire, age>> /\ Returns(p)
    /\ UNCHANGED <<profileLock, drawn, posts, heard, remembered, said, binding, results,
                   deaths>>

\* Feishu answers with a message id.
Answer(p) ==
    /\ at[p] = "sending" /\ call[p] \in heard
    /\ LET r == [held[p] EXCEPT !.state = "sent"] IN
       \/ /\ SavesRecord(p, r) /\ Serves(p, ask[p], r, "loaded")
          /\ call' = [call EXCEPT ![p] = 0]
       \/ SaveFails(p, r)
    /\ UNCHANGED <<profileLock, drawn, feishu, said, binding, results, deaths>>

\* Feishu answers with an error code: nothing was posted.
Reject(p) ==
    /\ at[p] = "sending"
    /\ \E m \in wire : m.call = call[p] /\ wire' = wire \ {m}
    /\ EndsAs(p, "failed")

\* No answer, or none that can be read: the request may be lost, posted, or on
\* its way still.
Doubt(p) == at[p] = "sending" /\ EndsAs(p, "uncertain") /\ UNCHANGED wire

\* append_proactive_assistant_message: the history is read, then appended to.
\* (The read succeeds: one that fails would count as an empty history.)
Known(i) == said[i] > 0

ReadHistory(p) ==
    /\ at[p] = "loaded" /\ held[p].state = "sent"
    /\ at' = [at EXCEPT ![p] = IF Known(held[p].id) THEN "said" ELSE "unsaid"]
    /\ UNCHANGED <<outbox, profileLock, ask, held, call, drawn, feishu, said, binding,
                   results, deaths>>

AppendHistory(p) ==
    /\ at[p] = "unsaid"
    /\ \/ /\ said' = [said EXCEPT ![held[p].id] = @ + 1]
          /\ at' = [at EXCEPT ![p] = "said"] /\ UNCHANGED <<ask, held, call>>
       \/ UNCHANGED said /\ Returns(p)
    /\ UNCHANGED <<outbox, profileLock, drawn, feishu, binding, results, deaths>>

Complete(p) ==
    /\ at[p] = "said"
    /\ LET r == [held[p] EXCEPT !.state = "complete"] IN
       \/ SavesRecord(p, r) /\ told' = told \cup {ask[p]} /\ Returns(p)
       \/ SaveFails(p, r) /\ UNCHANGED told
    /\ UNCHANGED <<profileLock, drawn, feishu, said, binding, refused, deaths>>
-----------------------------------------------------------------------------
\* A request reaches Feishu, whether or not somebody waits for the answer.
Land(m) ==
    /\ m \in wire /\ wire' = wire \ {m}
    /\ posts' = IF m.id \in remembered THEN posts ELSE posts \cup {m}
    /\ remembered' = remembered \cup {m.id} /\ heard' = heard \cup {m.call}
    /\ UNCHANGED <<outbox, profileLock, service, drawn, calls, age, said, binding, results,
                   deaths>>

Lose(m) ==
    /\ m \in wire /\ wire' = wire \ {m}
    /\ UNCHANGED <<outbox, profileLock, service, drawn, calls, posts, heard, remembered, age,
                   said,
                   binding, results, deaths>>

\* An hour has passed since the first request with an id, for the process and
\* for Feishu.  (No request is under way for so long, and no delivery.)
Hour(i) ==
    /\ age[i] # "new" /\ \A m \in wire : m.id # i
    /\ \A p \in Process : at[p] # "idle" => held[p].id # i
    /\ age' = [age EXCEPT ![i] = "old"] /\ remembered' = remembered \ {i}
    /\ UNCHANGED <<outbox, profileLock, service, drawn, calls, wire, posts, heard, said,
                   binding,
                   results, deaths>>

\* The session is bound to another channel (set_channel_binding).
Rebind(c) ==
    /\ binding' = c
    /\ UNCHANGED <<outbox, profileLock, service, drawn, feishu, said, results, deaths>>

\* The process dies; the system drops its lock.
ProcessDies(p) ==
    /\ profileLock = p /\ deaths < MaxDeaths /\ deaths' = deaths + 1
    /\ profileLock' = NoProcess /\ Returns(p)
    /\ UNCHANGED <<outbox, drawn, feishu, said, binding, results>>

OutboxNext ==
    \/ \E p \in Process :
          \/ Acquire(p) \/ Release(p) \/ ProcessDies(p)
          \/ \E a \in Ask : Take(p, a)
          \/ Withhold(p) \/ Refuse(p) \/ Launch(p) \/ Answer(p) \/ Reject(p) \/ Doubt(p)
          \/ ReadHistory(p) \/ AppendHistory(p) \/ Complete(p)
    \/ \E m \in wire : Land(m) \/ Lose(m)
    \/ \E i \in Uuid : Hour(i)
    \/ \E c \in Chat : Rebind(c)

OutboxSpec == OutboxInit /\ [][OutboxNext]_outboxVars
-----------------------------------------------------------------------------
OutboxTypeOK ==
    /\ outbox \in [Key -> OutboxRecord \cup {NoRecord}]
    /\ profileLock \in Process \cup {NoProcess}
    /\ at \in [Process -> {"idle", "loaded", "sending", "unsaid", "said"}]
    /\ ask \in [Process -> Ask \cup {NoAsk}]
    /\ held \in [Process -> OutboxRecord \cup {NoRecord}]
    /\ call \in [Process -> 0..MaxCalls]
    /\ drawn \in 0..MaxUuids /\ calls \in 0..MaxCalls
    /\ wire \subseteq Request /\ posts \subseteq Request /\ heard \subseteq Call
    /\ remembered \subseteq Uuid /\ age \in [Uuid -> {"new", "tried", "old"}]
    /\ said \in [Uuid -> Nat] /\ binding \in Chat /\ told \subseteq Ask
    /\ refused \subseteq Uuid
    /\ deaths \in 0..MaxDeaths

\* However often a delivery is retried, by whichever process, after whatever
\* crash, and whenever lost, late and unheard requests land: it makes at most one
\* message in a chat, and one in the history.  After the hour that holds of the
\* chat only if no attempt was recorded as failed, see UncertainIsNotResent.
PostedOnce ==
    \A m, n \in posts :
        m.key = n.key /\ (age[m.id] # "old" \/ m.id \notin refused) => m = n
SaidOnce == \A i \in Uuid : said[i] <= 1
AtMostOnce == PostedOnce /\ SaidOnce

\* Who was told that a delivery is complete finds that text in the chat that the
\* session was bound to, and in the history.
CompleteIsTrue ==
    \A a \in told :
        /\ \E m \in posts : m.key = a.key /\ m.text = a.text /\ m.channel = a.channel
        /\ said[outbox[a.key].id] > 0

\* README.md:115: an uncertain send older than the hour is not resent.
UncertainIsNotResent == \A m, n \in posts : m.key = n.key => m = n
=============================================================================
