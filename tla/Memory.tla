------------------------------ MODULE Memory -------------------------------
(***************************************************************************)
(* One thread's memory (memory/store.rs): an append-only ledger of         *)
(* messages, and two tiers of summaries (mid_term, long_term), each an     *)
(* index file and one .md file per summary.  Turns load the context,       *)
(* compact it, let the agent replace it by a summary of its own, and save; *)
(* a client may load the context at any time (thread_todos,                *)
(* persisted_context_estimate); a steer queue dropped with user inputs     *)
(* appends them; a client clears the thread.                               *)
(*                                                                         *)
(* Loading the context first promotes old mid-term summaries, and that     *)
(* takes no lock.  Turns and clears hold the thread's run lock; appends,   *)
(* compactions and clears also hold a lock of the store, which is taken    *)
(* from a map, and most holders remove it from the map before they release *)
(* it (remove_thread_caches).                                              *)
(***************************************************************************)
EXTENDS Integers, FiniteSets, Sequences, SequencesExt

CONSTANTS Turn,        \* tasks that run a turn
          Viewer,      \* clients that only load the context
          Saver,       \* dropped steer queues with user inputs to preserve
          Clearer,     \* clients that clear the thread
          Nobody,      \* the holder of a free run lock
          MaxMessages, \* bound on the messages ever appended
          MaxSummaries,\* bound on the summaries ever written
          MaxCrashes   \* bound on the crashes of the process

ASSUME MemoryAssumption ==
    /\ Nobody \notin Turn \cup Viewer \cup Saver \cup Clearer
    /\ Turn \cap (Viewer \cup Saver \cup Clearer) = {}
    /\ Viewer \cap (Saver \cup Clearer) = {} /\ Saver \cap Clearer = {}
    /\ MaxMessages \in Nat /\ MaxSummaries \in Nat /\ MaxCrashes \in Nat

Client == Turn \cup Viewer \cup Saver \cup Clearer
\* A message is its place in the order of appending, a summary (its uuid) in
\* the order of writing.  The bounds stop new work; work that has started may
\* go past them.
Entry == [id : Nat, last : Nat]   \* last: the last message it covers
Lock == 1..Cardinality(Client) + 1
NoLock == 0

VARIABLES
  ledger,    \* short_term.jsonl
  written,   \* messages appended so far
  inputs,    \* the messages that are user inputs kept verbatim when covered
  mid, long, \* the two index files
  midFiles, longFiles,  \* the .md files of the two directories
  text,      \* text[s]: the messages that summary s digests, of all ever written
  aged,      \* summaries older than memory_days
  runLock,   \* who holds the thread's run lock
  lockMap,   \* the thread's entry of THREAD_LOCKS
  lock,      \* lock[c]: the store's lock that c holds or waits for
  pc,        \* where c is
  work,      \* work[c]: what c has read
  seen,      \* seen[c]: what the agent of turn c knows; what clear c will have removed
  draft,     \* draft[c]: the compaction that turn c prepares
  crashes,
  forgotten, \* messages of before a clear that has finished
  torn,      \* summaries whose files a clear has removed, finished or not
  raced      \* an index was written while another client held a copy of it

memoryVars == <<ledger, written, inputs, mid, long, midFiles, longFiles, text, aged,
          runLock, lockMap, lock, pc, work, seen, draft, crashes, forgotten, torn,
          raced>>
disk == <<ledger, written, inputs, mid, long, midFiles, longFiles, text>>
locks == <<runLock, lockMap, lock>>
history == <<crashes, forgotten, torn, aged>>

NoDraft == [active |-> {}, last |-> 0, size |-> 0, digest |-> {}]
NoWork == [old |-> <<>>, keep |-> <<>>, merged |-> <<>>, shown |-> 0]

made == Len(text)
IdsOf(index) == {index[i].id : i \in DOMAIN index}
LastOf(index) == {index[i].last : i \in DOMAIN index}
Newest(S) == CHOOSE x \in S : \A y \in S : y <= x
Oldest(S) == CHOOSE x \in S : \A y \in S : x <= y

\* The entries of an index whose ids are in A, in their order.
EntriesIn(index, A) ==
    LET from[i \in 0..Len(index)] ==
            IF i = 0 THEN <<>>
            ELSE IF index[i].id \in A THEN Append(from[i - 1], index[i]) ELSE from[i - 1]
    IN from[Len(index)]

\* The last ledger message that a summary of either tier covers; 0 if none.
Covered(l, m, g) ==
    LET found == (LastOf(m) \cup LastOf(g)) \cap l
    IN IF found = {} THEN 0 ELSE Newest(found)
Uncovered(l, m, g) == {x \in l : x > Covered(l, m, g)}

\* The summary that is shown to the model: the newest of mid-term, else of
\* long-term; 0 if there is none.
Latest(m, g) == IF m # <<>> THEN Last(m).id ELSE IF g # <<>> THEN Last(g).id ELSE 0
Readable(s) == s \in midFiles \cup longFiles
Digest(s) == IF s = 0 THEN {} ELSE text[s]

Promoting == {"longs", "compress", "wlong", "wmid"}
Overwriting == Promoting \cup {"commit2", "agent2"}
\* Somebody else is about to write an index from a copy read before.
Raced(c) == raced' = (raced \/ \E d \in Client \ {c} : pc[d] \in Overwriting)

Goto(c, label) == pc' = [pc EXCEPT ![c] = label]
(***************************************************************************)
(* The store's lock.  Sections are the pcs at which its holder is inside.  *)
(***************************************************************************)
WantsLock == {"prepare", "commit", "agent", "save", "fail", "clear"}
Inside == {"fold", "commit2", "agent2", "agent3", "clear2", "clear3"}

FetchLock(c) ==
    /\ pc[c] \in WantsLock
    /\ pc[c] = "clear" => runLock = c
    /\ lock[c] = NoLock
    /\ \E l \in Lock :
         /\ IF lockMap # NoLock THEN l = lockMap
            ELSE l = Oldest({k \in Lock : \A d \in Client : lock[d] # k})
         /\ lockMap' = l
         /\ lock' = [lock EXCEPT ![c] = l]
    /\ UNCHANGED <<disk, runLock, pc, work, seen, draft, history, raced>>

Enters(c) ==
    /\ lock[c] # NoLock
    /\ \A d \in Client : lock[d] = lock[c] => pc[d] \notin Inside
Unlock(c) == lock' = [lock EXCEPT ![c] = NoLock]
\* remove_thread_caches: the next caller will make a lock of its own.
ForgetLock == lockMap' = NoLock
-----------------------------------------------------------------------------
MemoryInit ==
    /\ ledger = {} /\ written = 0 /\ inputs = {}
    /\ mid = <<>> /\ long = <<>> /\ midFiles = {} /\ longFiles = {}
    /\ text = <<>> /\ aged = {}
    /\ runLock = Nobody /\ lockMap = NoLock
    /\ lock = [c \in Client |-> NoLock]
    /\ pc = [c \in Client |-> "idle"]
    /\ work = [c \in Client |-> NoWork]
    /\ seen = [c \in Client |-> {}]
    /\ draft = [c \in Client |-> NoDraft]
    /\ crashes = 0 /\ forgotten = {} /\ torn = {} /\ raced = FALSE

AppendMessage(isInput) ==
    /\ written' = written + 1
    /\ ledger' = ledger \cup {written + 1}
    /\ inputs' = IF isInput THEN inputs \cup {written + 1} ELSE inputs

\* A new summary: its file is number made + 1.
NewSummary(digest) == text' = Append(text, digest)
-----------------------------------------------------------------------------
(* load_context: promotion of old mid-term summaries, without any lock. *)

RunLockFree == runLock = Nobody

StartTurn(t) ==
    /\ t \in Turn /\ pc[t] = "idle" /\ RunLockFree /\ written < MaxMessages
    /\ runLock' = t
    /\ Goto(t, "mids")
    /\ UNCHANGED <<disk, lockMap, lock, work, seen, draft, history, raced>>

StartView(v) ==
    /\ v \in Viewer /\ pc[v] = "idle"
    /\ Goto(v, "mids")
    /\ UNCHANGED <<disk, locks, work, seen, draft, history, raced>>

\* The old entries of the mid-term index, with their texts.
PromoteReadMid(c) ==
    /\ pc[c] = "mids"
    /\ LET old == EntriesIn(mid, aged)
           keep == EntriesIn(mid, IdsOf(mid) \ aged)
       IN IF old = <<>> \/ ~ IdsOf(old) \subseteq midFiles
          THEN Goto(c, "index") /\ UNCHANGED work
          ELSE /\ Goto(c, "longs")
               /\ work' = [work EXCEPT ![c].old = old, ![c].keep = keep]
    /\ UNCHANGED <<disk, locks, seen, draft, history, raced>>

\* The existing long-term summaries, to be merged with.
PromoteReadLong(c) ==
    /\ pc[c] = "longs"
    /\ IF IdsOf(long) \subseteq longFiles
       THEN Goto(c, "compress") /\ work' = [work EXCEPT ![c].merged = long]
       ELSE Goto(c, "index") /\ work' = [work EXCEPT ![c] = NoWork]
    /\ UNCHANGED <<disk, locks, seen, draft, history, raced>>

\* The compressor is a model call: it may fail, and it takes its time.
PromoteCompress(c) ==
    /\ pc[c] = "compress"
    /\ \/ made < MaxSummaries /\ Goto(c, "wlong") /\ UNCHANGED work
       \/ Goto(c, "index") /\ work' = [work EXCEPT ![c] = NoWork]
    /\ UNCHANGED <<disk, locks, seen, draft, history, raced>>

PromotedDigest(w) == UNION {text[s] : s \in IdsOf(w.old) \cup IdsOf(w.merged)}

\* The index of long_term: the merged summary replaces what was there.
Promoted_Appended(e) == Append(long, e)
Promoted(e) == <<e>>

PromoteWriteLong(c) ==
    /\ pc[c] = "wlong"
    /\ NewSummary(PromotedDigest(work[c]))
    /\ longFiles' = longFiles \cup {made + 1}
    /\ long' = Promoted([id |-> made + 1, last |-> Last(work[c].old).last])
    /\ Raced(c)
    /\ Goto(c, "wmid")
    /\ UNCHANGED <<ledger, written, inputs, mid, midFiles, locks, work, seen, draft, history>>

\* What the mid-term index keeps: the entries that were not promoted.
KeptIndex_All(w) == w.old \o w.keep
KeptIndex(w) == w.keep

PromoteWriteMid(c) ==
    /\ pc[c] = "wmid"
    /\ mid' = KeptIndex(work[c])
    /\ Raced(c)
    /\ Goto(c, "clean")
    /\ UNCHANGED <<ledger, written, inputs, long, midFiles, longFiles, text, locks,
                   work, seen, draft, history>>

PromoteClean(c) ==
    /\ pc[c] = "clean"
    /\ midFiles' = midFiles \ IdsOf(work[c].old)
    /\ longFiles' = longFiles \ IdsOf(work[c].merged)
    /\ work' = [work EXCEPT ![c] = NoWork]
    /\ Goto(c, "index")
    /\ UNCHANGED <<ledger, written, inputs, mid, long, text, locks, seen, draft,
                   history, raced>>

\* The indices and the ledger are read first, the text of the latest summary after.
LoadIndex(c) ==
    /\ pc[c] = "index"
    /\ work' = [work EXCEPT ![c].shown = Latest(mid, long)]
    /\ seen' = IF c \in Turn /\ draft[c] = NoDraft
               THEN [seen EXCEPT ![c] = Digest(Latest(mid, long)) \cup Uncovered(ledger, mid, long)
                                         \cup (inputs \cap ledger)]
               ELSE seen
    /\ Goto(c, "text")
    /\ UNCHANGED <<disk, locks, draft, history, raced>>

LoadText(c) ==
    /\ pc[c] = "text"
    /\ work' = [work EXCEPT ![c] = NoWork]
    /\ LET ok == work[c].shown = 0 \/ Readable(work[c].shown) IN
       CASE c \in Viewer -> Goto(c, "idle") /\ UNCHANGED <<runLock, seen, draft>>
         [] c \in Turn /\ draft[c] = NoDraft ->
              /\ IF ok THEN Goto(c, "ready") /\ UNCHANGED <<runLock, seen>>
                       ELSE /\ Goto(c, "idle") /\ runLock' = Nobody
                            /\ seen' = [seen EXCEPT ![c] = {}]
              /\ UNCHANGED draft
         [] OTHER ->
              /\ IF ok THEN Goto(c, "validate") /\ UNCHANGED draft
                       ELSE Goto(c, "fail") /\ draft' = [draft EXCEPT ![c] = NoDraft]
              /\ UNCHANGED <<runLock, seen>>
    /\ UNCHANGED <<disk, lockMap, lock, history, raced>>
-----------------------------------------------------------------------------
(* A turn after its load: compaction, the agent's own summary, saving. *)

TurnDecides(t) ==
    /\ t \in Turn /\ pc[t] = "ready"
    /\ \/ made < MaxSummaries /\ Goto(t, "prepare")  \* the request is over budget
       \/ made < MaxSummaries /\ Goto(t, "agent")    \* context__manage
       \/ Goto(t, "save")                            \* persist_turn
    /\ UNCHANGED <<disk, locks, work, seen, draft, history, raced>>

\* fold_compression_content: the previous summary and the uncovered messages.
Folded_Anew(previous, active) == active
Folded(previous, active) == Digest(previous) \cup active

\* prepare_compaction, up to the model call.
Prepare(t) ==
    /\ t \in Turn /\ pc[t] = "prepare" /\ Enters(t)
    /\ LET active == Uncovered(ledger, mid, long)
           previous == Latest(mid, long)
       IN IF (previous # 0 /\ ~ Readable(previous)) \/ (previous = 0 /\ active = {})
          THEN /\ Goto(t, "fail") \/ (previous = 0 /\ Goto(t, "ready"))
               /\ Unlock(t) /\ UNCHANGED draft
          ELSE /\ Goto(t, "fold") /\ UNCHANGED lock
               /\ draft' = [draft EXCEPT ![t] =
                    [active |-> active,
                     last |-> IF active = {} THEN Covered(ledger, mid, long) ELSE Newest(active),
                     size |-> Cardinality(ledger),
                     digest |-> Folded(previous, active)]]
    /\ UNCHANGED <<disk, runLock, lockMap, work, seen, history, raced>>

\* The model call, under the store's lock.  With nothing to cover and an empty
\* ledger the draft cannot name a message: expect() panics.
Fold(t) ==
    /\ t \in Turn /\ pc[t] = "fold"
    /\ \/ /\ draft[t].last # 0 /\ Goto(t, "mids") /\ UNCHANGED <<draft, runLock>>
       \/ /\ draft[t].last = 0 /\ Goto(t, "panicked") /\ runLock' = Nobody
          /\ draft' = [draft EXCEPT ![t] = NoDraft]
       \/ /\ Goto(t, "fail") /\ UNCHANGED runLock
          /\ draft' = [draft EXCEPT ![t] = NoDraft]
    /\ Unlock(t)
    /\ UNCHANGED <<disk, lockMap, work, seen, history, raced>>

\* preview_compaction_context, and the validation of the rebuilt request.
Validate(t) ==
    /\ t \in Turn /\ pc[t] = "validate"
    /\ \/ /\ draft[t].last \in ledger /\ Goto(t, "commit") /\ UNCHANGED draft
          /\ seen' = [seen EXCEPT ![t] = draft[t].digest \cup {x \in ledger : x > draft[t].last}
                                         \cup (inputs \cap ledger)]
       \/ /\ Goto(t, "fail") \/ (draft[t].last \in ledger /\ Goto(t, "ready"))
          /\ draft' = [draft EXCEPT ![t] = NoDraft]
          /\ UNCHANGED seen
    /\ UNCHANGED <<disk, locks, work, history, raced>>

\* The draft still describes the ledger and its coverage.
IsCurrent(d) ==
    /\ Cardinality(ledger) = d.size
    /\ IF d.active = {} THEN d.last = Covered(ledger, mid, long)
       ELSE d.active = {x \in Uncovered(ledger, mid, long) : x <= d.last}

\* commit_compaction: the check and the copy of the index, then the writes.
CommitCheck(t) ==
    /\ t \in Turn /\ pc[t] = "commit" /\ Enters(t)
    /\ IF IsCurrent(draft[t])
       THEN /\ Goto(t, "commit2") /\ work' = [work EXCEPT ![t].keep = mid]
            /\ UNCHANGED <<draft, lock>>
       ELSE /\ Goto(t, "fail") /\ draft' = [draft EXCEPT ![t] = NoDraft]
            /\ Unlock(t) /\ UNCHANGED work
    /\ UNCHANGED <<disk, runLock, lockMap, seen, history, raced>>

CommitWrite(t) ==
    /\ t \in Turn /\ pc[t] = "commit2"
    /\ NewSummary(draft[t].digest)
    /\ midFiles' = midFiles \cup {made + 1}
    /\ mid' = Append(work[t].keep, [id |-> made + 1, last |-> draft[t].last])
    /\ Raced(t)
    /\ draft' = [draft EXCEPT ![t] = NoDraft] /\ work' = [work EXCEPT ![t] = NoWork]
    /\ ForgetLock /\ Unlock(t) /\ Goto(t, "ready")
    /\ UNCHANGED <<ledger, written, inputs, long, longFiles, runLock, seen, history>>

\* commit_agent_summary covers the whole ledger with what the agent wrote.
AgentRead(t) ==
    /\ t \in Turn /\ pc[t] = "agent" /\ Enters(t)
    /\ IF ledger = {}
       THEN Goto(t, "ready") /\ Unlock(t) /\ UNCHANGED <<work, draft>>
       ELSE /\ Goto(t, "agent2") /\ UNCHANGED lock
            /\ work' = [work EXCEPT ![t].old = mid]
            /\ draft' = [draft EXCEPT ![t].last = Newest(ledger), ![t].digest = seen[t]]
    /\ UNCHANGED <<disk, runLock, lockMap, seen, history, raced>>

AgentWrite(t) ==
    /\ t \in Turn /\ pc[t] = "agent2"
    /\ NewSummary(draft[t].digest)
    /\ midFiles' = midFiles \cup {made + 1}
    /\ mid' = <<[id |-> made + 1, last |-> draft[t].last]>>
    /\ Raced(t)
    /\ draft' = [draft EXCEPT ![t] = NoDraft]
    /\ Goto(t, "agent3")
    /\ UNCHANGED <<ledger, written, inputs, long, longFiles, locks, work, seen, history>>

AgentClean(t) ==
    /\ t \in Turn /\ pc[t] = "agent3"
    /\ midFiles' = midFiles \ IdsOf(work[t].old)
    /\ work' = [work EXCEPT ![t] = NoWork]
    /\ ForgetLock /\ Unlock(t) /\ Goto(t, "ready")
    /\ UNCHANGED <<ledger, written, inputs, mid, long, longFiles, text, runLock, seen,
                   draft, history, raced>>

\* save_turn of a turn's messages, or append_failed_turn of its user message.
EndTurn(t) ==
    /\ t \in Turn /\ pc[t] \in {"save", "fail"} /\ Enters(t)
    /\ AppendMessage(pc[t] = "fail")
    /\ runLock' = Nobody /\ seen' = [seen EXCEPT ![t] = {}]
    /\ ForgetLock /\ Unlock(t) /\ Goto(t, "idle")
    /\ UNCHANGED <<mid, long, midFiles, longFiles, text, work, draft, history, raced>>
-----------------------------------------------------------------------------
(* The clients that do not run a turn. *)

StartSave(d) ==
    /\ d \in Saver /\ pc[d] = "idle" /\ written < MaxMessages
    /\ Goto(d, "fail")
    /\ UNCHANGED <<disk, locks, work, seen, draft, history, raced>>

\* The user inputs of a dropped queue, appended without the run lock.
PreserveInputs(d) ==
    /\ d \in Saver /\ pc[d] = "fail" /\ Enters(d)
    /\ AppendMessage(TRUE)
    /\ ForgetLock /\ Unlock(d) /\ Goto(d, "idle")
    /\ UNCHANGED <<mid, long, midFiles, longFiles, text, runLock, work, seen, draft,
                   history, raced>>

StartClear(c) ==
    /\ c \in Clearer /\ pc[c] = "idle" /\ RunLockFree
    /\ ledger # {} \/ mid # <<>> \/ long # <<>>
    /\ runLock' = c /\ Goto(c, "clear")
    /\ UNCHANGED <<disk, lockMap, lock, work, seen, draft, history, raced>>

ClearLedger(c) ==
    /\ c \in Clearer /\ pc[c] = "clear" /\ Enters(c)
    /\ ledger' = {} /\ inputs' = {}
    /\ seen' = [seen EXCEPT ![c] = 1..written]
    /\ Goto(c, "clear2")
    /\ UNCHANGED <<written, mid, long, midFiles, longFiles, text, locks, work, draft,
                   history, raced>>

\* remove_dir_all unlinks the files of a directory one by one, the index among
\* them, in no order the code chooses, and then the directory, which must be empty.
RemoveMid(c) ==
    /\ c \in Clearer /\ pc[c] = "clear2"
    /\ \/ \E s \in midFiles : /\ midFiles' = midFiles \ {s} /\ torn' = torn \cup {s}
                             /\ UNCHANGED <<mid, raced>>
       \/ mid # <<>> /\ mid' = <<>> /\ Raced(c) /\ UNCHANGED <<midFiles, torn>>
    /\ UNCHANGED <<ledger, written, inputs, long, longFiles, text, locks, pc, work, seen,
                   draft, crashes, forgotten, aged>>

ClearMid(c) ==
    /\ c \in Clearer /\ pc[c] = "clear2" /\ mid = <<>> /\ midFiles = {}
    /\ Goto(c, "clear3")
    /\ UNCHANGED <<disk, locks, work, seen, draft, history, raced>>

RemoveLong(c) ==
    /\ c \in Clearer /\ pc[c] = "clear3"
    /\ \/ \E s \in longFiles : /\ longFiles' = longFiles \ {s} /\ torn' = torn \cup {s}
                              /\ UNCHANGED <<long, raced>>
       \/ long # <<>> /\ long' = <<>> /\ Raced(c) /\ UNCHANGED <<longFiles, torn>>
    /\ UNCHANGED <<ledger, written, inputs, mid, midFiles, text, locks, pc, work, seen,
                   draft, crashes, forgotten, aged>>

ClearLong(c) ==
    /\ c \in Clearer /\ pc[c] = "clear3" /\ long = <<>> /\ longFiles = {}
    /\ forgotten' = forgotten \cup seen[c]
    /\ seen' = [seen EXCEPT ![c] = {}]
    /\ runLock' = Nobody /\ ForgetLock /\ Unlock(c) /\ Goto(c, "idle")
    /\ UNCHANGED <<disk, work, draft, aged, crashes, torn, raced>>

\* A file or a directory that cannot be removed: the clear returns the error, and
\* what it has not removed stays.
ClearFails(c) ==
    /\ c \in Clearer /\ pc[c] \in {"clear2", "clear3"}
    /\ seen' = [seen EXCEPT ![c] = {}]
    /\ runLock' = Nobody /\ Unlock(c) /\ Goto(c, "idle")
    /\ UNCHANGED <<disk, lockMap, work, draft, history, raced>>

\* The oldest young summary of mid-term passes memory_days.
Age ==
    /\ \E s \in IdsOf(mid) \ aged :
         /\ s = Oldest(IdsOf(mid) \ aged)
         /\ aged' = aged \cup {s}
    /\ UNCHANGED <<disk, locks, pc, work, seen, draft, crashes, forgotten, torn, raced>>

\* The process ends: what is on disk stays.
Crash ==
    /\ crashes < MaxCrashes
    /\ \E c \in Client : pc[c] # "idle"
    /\ crashes' = crashes + 1
    /\ runLock' = Nobody /\ lockMap' = NoLock /\ lock' = [c \in Client |-> NoLock]
    /\ pc' = [c \in Client |-> "idle"]
    /\ work' = [c \in Client |-> NoWork] /\ seen' = [c \in Client |-> {}]
    /\ draft' = [c \in Client |-> NoDraft]
    /\ UNCHANGED <<disk, aged, forgotten, torn, raced>>

LoadStep(c) ==
    \/ PromoteReadMid(c) \/ PromoteReadLong(c) \/ PromoteCompress(c)
    \/ PromoteWriteLong(c) \/ PromoteWriteMid(c) \/ PromoteClean(c)
    \/ LoadIndex(c) \/ LoadText(c)

TurnStep(t) ==
    \/ StartTurn(t) \/ TurnDecides(t) \/ Prepare(t) \/ Fold(t) \/ Validate(t)
    \/ CommitCheck(t) \/ CommitWrite(t) \/ AgentRead(t) \/ AgentWrite(t) \/ AgentClean(t)
    \/ EndTurn(t)

ClearStep(c) ==
    \/ StartClear(c) \/ ClearLedger(c) \/ RemoveMid(c) \/ ClearMid(c)
    \/ RemoveLong(c) \/ ClearLong(c) \/ ClearFails(c)

MemoryNext ==
    \/ \E c \in Client : FetchLock(c) \/ LoadStep(c)
    \/ \E t \in Turn : TurnStep(t)
    \/ \E v \in Viewer : StartView(v)
    \/ \E d \in Saver : StartSave(d) \/ PreserveInputs(d)
    \/ \E c \in Clearer : ClearStep(c)
    \/ Age \/ Crash

MemorySpec == MemoryInit /\ [][MemoryNext]_memoryVars
-----------------------------------------------------------------------------
\* What is stored names messages that were appended and summaries that were
\* written; long_term holds one summary at most.
MemoryTypeOK ==
    /\ written \in Nat /\ ledger \subseteq 1..written /\ inputs \subseteq ledger
    /\ text \in Seq(SUBSET (1..written))
    /\ mid \in Seq(Entry) /\ long \in Seq(Entry) /\ Len(long) <= 1
    /\ IdsOf(mid) \cup IdsOf(long) \cup midFiles \cup longFiles \cup aged \cup torn \subseteq 1..made
    /\ LastOf(mid) \cup LastOf(long) \subseteq 1..written
    /\ runLock \in Turn \cup Clearer \cup {Nobody}
    /\ lockMap \in Lock \cup {NoLock} /\ lock \in [Client -> Lock \cup {NoLock}]
    /\ pc \in [Client -> WantsLock \cup Inside \cup Promoting \cup
                 {"idle", "mids", "clean", "index", "text", "ready", "validate", "panicked"}]
    /\ work \in [Client -> [old : Seq(Entry), keep : Seq(Entry), merged : Seq(Entry),
                            shown : Nat]]
    /\ seen \in [Client -> SUBSET (1..written)]
    /\ draft \in [Client -> [active : SUBSET (1..written), last : 0..written,
                             size : Nat, digest : SUBSET (1..written)]]
    /\ crashes \in 0..MaxCrashes /\ forgotten \subseteq 1..written /\ raced \in BOOLEAN

\* What the model is not shown raw, it is shown digested: every message up to
\* the covered position is in the latest summary, if that can be read, or is a
\* user input kept verbatim.  Whatever compactions, promotions, appends, clears
\* and crashes there are -- unless a promotion, which holds no lock, has
\* overlapped another writer of the indices.
NothingHidden ==
    LET latest == Latest(mid, long) IN
    ~ raced /\ latest # 0 /\ Readable(latest) =>
        \A x \in ledger : x <= Covered(ledger, mid, long) => x \in text[latest] \cup inputs

\* The thread can be loaded: the file of the latest summary exists -- unless a
\* clear has removed that file and not the index that names it (it is under way,
\* or an error or a crash has cut it off), or a promotion, which holds no lock,
\* has overlapped another writer.
LatestIsReadable ==
    ~ raced => LET latest == Latest(mid, long) IN latest \notin torn \cup {0} => Readable(latest)

\* After a clear has finished, no summary digests a message of before it, though
\* clears before it were cut off -- unless a promotion has overlapped it.
ForgottenStaysForgotten ==
    ~ raced => \A s \in IdsOf(mid) \cup IdsOf(long) : text[s] \cap forgotten = {}

\* What promotion, compaction, the agent's own summary and clear leave of the two
\* tiers can be shown, but for a file that a clear did remove, and shows nothing
\* that a finished clear removed.
SummariesHold == LatestIsReadable /\ ForgottenStaysForgotten
=============================================================================
