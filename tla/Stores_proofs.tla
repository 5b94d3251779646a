--------------------------- MODULE Stores_proofs ----------------------------
(***************************************************************************)
(* What the session store and the outbox promise, for any number of        *)
(* channels, sessions and sub-sessions, of failing saves and restarts, and *)
(* for any number of processes, keys, contents, requests and crashes.      *)
(***************************************************************************)
EXTENDS Sessions, Outbox, TLAPS

(* The session store. *)

\* One store, in memory or on disk, when ids 1..n were made: it is indexed
\* soundly, and what was never made or was deleted leaves no trace in it.
GoodStore(st, n) ==
    /\ st \in Store
    /\ \A k \in Channel : st.index[k] # NoSession => st.bound[st.index[k]] = k
    /\ \A s \in n + 1..MaxIds : st.bound[s] = NoChannel
    /\ \A s \in Id : st.bound[s] = NoChannel => \A x \in SubSession : st.subs[s][x] = "absent"

SessionsInv ==
    /\ GoodStore(store, lastId) /\ GoodStore(saved, lastId)
    /\ lastId \in 0..MaxIds /\ restarts \in 0..MaxRestarts
    /\ promised \in [Channel -> Id \cup {NoSession}] /\ over \subseteq Id \X SubSession
    /\ ChannelIsDurable /\ EndIsDurable
-----------------------------------------------------------------------------
(* What the operations make of one store. *)

\* The session is fresh, or the one that the channel has already.
LEMMA WithIsGood ==
    ASSUME NEW st, NEW n \in 0..MaxIds, NEW s \in Id, NEW k \in Channel, NEW m \in 0..MaxIds,
           GoodStore(st, n), s = n + 1 \/ s = st.index[k],
           n <= m, s <= m
    PROVE  GoodStore(With(st, s, k), m)
<1> DEFINE new == With(st, s, k)
<1>1. /\ st \in Store /\ MaxIds \in Nat /\ NoChannel \notin Channel
      /\ st.bound \in [Id -> Channel \cup {NoChannel}]
      /\ st.index \in [Channel -> Id \cup {NoSession}]
      /\ st.subs \in [Id -> [SubSession -> Status \cup {"absent"}]]
      BY SessionsAssumption DEF GoodStore, Store
<1>2. /\ new.bound = [st.bound EXCEPT ![s] = k]
      /\ new.index = [st.index EXCEPT ![k] = s]
      /\ new.subs = st.subs
      BY <1>1 DEF With, Store
<1>3. new \in Store
      BY <1>1, <1>2 DEF With, Store
<1>4. ASSUME NEW j \in Channel, new.index[j] # NoSession
      PROVE  new.bound[new.index[j]] = j
  <2>1. CASE j = k
        BY <2>1, <1>1, <1>2
  <2>2. CASE j # k
    <3>1. new.index[j] = st.index[j] /\ st.bound[st.index[j]] = j /\ st.index[j] \in Id
          BY <2>2, <1>1, <1>2, <1>4 DEF GoodStore
    <3>2. st.index[j] # s
      <4>1. CASE s = n + 1
            BY <4>1, <3>1, <1>1 DEF GoodStore, Id
      <4>2. CASE s = st.index[k]
            BY <4>2, <3>1, <2>2, <1>1 DEF GoodStore, Id, NoSession
      <4>3. QED  BY <4>1, <4>2
    <3>3. QED  BY <3>1, <3>2, <1>1, <1>2
  <2>3. QED  BY <2>1, <2>2
<1>5. \A j \in m + 1..MaxIds : new.bound[j] = NoChannel
      BY <1>1, <1>2 DEF GoodStore, Id
<1>6. \A j \in Id : new.bound[j] = NoChannel => \A x \in SubSession : new.subs[j][x] = "absent"
      BY <1>1, <1>2 DEF GoodStore
<1>7. QED  BY <1>3, <1>4, <1>5, <1>6 DEF GoodStore

LEMMA ReboundIsGood ==
    ASSUME NEW n \in 0..MaxIds, NEW s \in Id, NEW k \in Channel, GoodStore(store, n), Exists(s)
    PROVE  /\ GoodStore(Rebound(s, k), n)
           /\ Rebound(s, k).subs = store.subs
           /\ \A j \in Channel : j # k /\ store.index[j] # s => Rebound(s, k).index[j] = store.index[j]
<1> DEFINE new == Rebound(s, k)
<1>1. /\ store \in Store /\ MaxIds \in Nat /\ NoChannel \notin Channel
      /\ store.bound \in [Id -> Channel \cup {NoChannel}]
      /\ store.index \in [Channel -> Id \cup {NoSession}]
      /\ store.subs \in [Id -> [SubSession -> Status \cup {"absent"}]]
      BY SessionsAssumption DEF GoodStore, Store
<1>2. /\ new.bound = [store.bound EXCEPT ![s] = k]
      /\ new.index = [Without(store.index, s) EXCEPT ![k] = s]
      /\ new.subs = store.subs
      BY <1>1 DEF Rebound, Store
<1>3. Without(store.index, s) \in [Channel -> Id \cup {NoSession}]
      BY <1>1 DEF Without
<1>4. new \in Store
      BY <1>1, <1>2, <1>3 DEF Rebound, Store
<1>5. \A j \in Channel : new.index[j] = IF j = k THEN s
                                        ELSE IF store.index[j] = s THEN NoSession ELSE store.index[j]
  <2>1. \A j \in Channel : Without(store.index, s)[j] =
            IF store.index[j] = s THEN NoSession ELSE store.index[j]
        BY DEF Without
  <2>2. \A j \in Channel : new.index[j] = IF j = k THEN s ELSE Without(store.index, s)[j]
        BY <1>2, <1>3
  <2>3. QED  BY <2>1, <2>2, Zenon
<1>6. \A j \in Channel : new.index[j] # NoSession => new.bound[new.index[j]] = j
      BY <1>1, <1>2, <1>5 DEF GoodStore
<1>7. \A j \in n + 1..MaxIds : new.bound[j] = NoChannel
      BY <1>1, <1>2 DEF GoodStore, Exists, Id
<1>8. \A j \in Id : new.bound[j] = NoChannel => \A x \in SubSession : new.subs[j][x] = "absent"
      BY <1>1, <1>2 DEF GoodStore
<1>9. QED  BY <1>2, <1>4, <1>5, <1>6, <1>7, <1>8 DEF GoodStore

LEMMA DeletedIsGood ==
    ASSUME NEW n \in 0..MaxIds, NEW s \in Id, GoodStore(store, n), Exists(s)
    PROVE  /\ GoodStore(Deleted(s), n)
           /\ \A j \in Id : j # s => Deleted(s).subs[j] = store.subs[j]
           /\ \A j \in Channel : store.index[j] # s => Deleted(s).index[j] = store.index[j]
<1> DEFINE new == Deleted(s)
<1>1. /\ store \in Store /\ MaxIds \in Nat /\ NoChannel \notin Channel
      /\ store.bound \in [Id -> Channel \cup {NoChannel}]
      /\ store.index \in [Channel -> Id \cup {NoSession}]
      /\ store.subs \in [Id -> [SubSession -> Status \cup {"absent"}]]
      BY SessionsAssumption DEF GoodStore, Store
<1>2. EmptyStore.subs[s] = [x \in SubSession |-> "absent"]
      BY DEF EmptyStore
<1>3. /\ new.bound = [store.bound EXCEPT ![s] = NoChannel]
      /\ new.index = Without(store.index, s)
      /\ new.subs = [store.subs EXCEPT ![s] = [x \in SubSession |-> "absent"]]
      BY <1>1, <1>2 DEF Deleted, Store
<1>4. Without(store.index, s) \in [Channel -> Id \cup {NoSession}]
      BY <1>1 DEF Without
<1>5. new \in Store
  <2>1. new.subs \in [Id -> [SubSession -> Status \cup {"absent"}]]
        BY <1>1, <1>3
  <2>2. new.bound \in [Id -> Channel \cup {NoChannel}]
        BY <1>1, <1>3
  <2>3. new = [store EXCEPT !.bound = new.bound, !.index = new.index, !.subs = new.subs]
        BY <1>1, <1>3 DEF Deleted, Store
  <2>4. QED  BY <1>1, <1>3, <1>4, <2>1, <2>2, <2>3 DEF Store
<1>6. \A j \in Channel : new.index[j] = IF store.index[j] = s THEN NoSession ELSE store.index[j]
      BY <1>1, <1>3 DEF Without
<1>7. \A j \in Channel : new.index[j] # NoSession => new.bound[new.index[j]] = j
      BY <1>1, <1>3, <1>6 DEF GoodStore
<1>8. \A j \in n + 1..MaxIds : new.bound[j] = NoChannel
      BY <1>1, <1>3 DEF GoodStore, Id
<1>9. \A j \in Id : new.bound[j] = NoChannel => \A x \in SubSession : new.subs[j][x] = "absent"
      BY <1>1, <1>3 DEF GoodStore
<1>10. QED  BY <1>1, <1>3, <1>5, <1>6, <1>7, <1>8, <1>9 DEF GoodStore

\* A parent notes a status of a sub-session, and nothing else changes.
LEMMA NotedIsGood ==
    ASSUME NEW st, NEW n \in 0..MaxIds, NEW p \in Id, NEW x \in SubSession, NEW value \in Status,
           GoodStore(st, n), st.bound[p] # NoChannel
    PROVE  LET new == [st EXCEPT !.subs[p][x] = value] IN
           /\ GoodStore(new, n)
           /\ new.index = st.index
           /\ \A j \in Id, y \in SubSession :
                 new.subs[j][y] = IF j = p /\ y = x THEN value ELSE st.subs[j][y]
<1> DEFINE new == [st EXCEPT !.subs[p][x] = value]
<1>1. /\ st \in Store
      /\ st.bound \in [Id -> Channel \cup {NoChannel}]
      /\ st.index \in [Channel -> Id \cup {NoSession}]
      /\ st.subs \in [Id -> [SubSession -> Status \cup {"absent"}]]
      BY DEF GoodStore, Store
<1>2. /\ new.bound = st.bound /\ new.index = st.index
      /\ new.subs = [st.subs EXCEPT ![p] = [st.subs[p] EXCEPT ![x] = value]]
      BY <1>1 DEF Store
<1>3. [st.subs[p] EXCEPT ![x] = value] \in [SubSession -> Status \cup {"absent"}]
      BY <1>1
<1>4. new.subs \in [Id -> [SubSession -> Status \cup {"absent"}]]
      BY <1>1, <1>2, <1>3
<1>5. new \in Store
      BY <1>1, <1>2, <1>4 DEF Store
<1>6. \A j \in Id, y \in SubSession :
         new.subs[j][y] = IF j = p /\ y = x THEN value ELSE st.subs[j][y]
      BY <1>1, <1>2
<1> HIDE DEF new
<1>7. \A j \in Id : new.bound[j] = NoChannel => \A y \in SubSession : new.subs[j][y] = "absent"
      BY <1>2, <1>6 DEF GoodStore
<1>8. GoodStore(new, n)
      BY <1>2, <1>5, <1>7 DEF GoodStore
<1>9. QED  BY <1>2, <1>6, <1>8 DEF new

LEMMA LaterIsGood ==
    ASSUME NEW st, NEW n \in 0..MaxIds, NEW m \in 0..MaxIds, GoodStore(st, n), n <= m
    PROVE  GoodStore(st, m)
BY SessionsAssumption DEF GoodStore
-----------------------------------------------------------------------------
(* The invariant. *)

LEMMA SessionsInitially == SessionsInit => SessionsInv
<1> SUFFICES ASSUME SessionsInit PROVE SessionsInv
    OBVIOUS
<1>1. EmptyStore \in Store
      BY DEF EmptyStore, Store
<1>2. /\ \A k \in Channel : EmptyStore.index[k] = NoSession
      /\ \A s \in Id : EmptyStore.bound[s] = NoChannel
      /\ \A s \in Id, x \in SubSession : EmptyStore.subs[s][x] = "absent"
      BY DEF EmptyStore
<1>3. GoodStore(EmptyStore, 0)
      BY <1>1, <1>2, SessionsAssumption DEF GoodStore, Id
<1>4. /\ store = EmptyStore /\ saved = EmptyStore /\ lastId = 0 /\ over = {} /\ restarts = 0
      /\ promised = [k \in Channel |-> NoSession]
      BY DEF SessionsInit
<1>5. ChannelIsDurable /\ EndIsDurable
      BY <1>4 DEF ChannelIsDurable, EndIsDurable
<1>6. QED  BY <1>3, <1>4, <1>5, SessionsAssumption DEF SessionsInv

\* An operation that binds session s to channel k, saves or not, and tells its
\* caller only if it has saved.
LEMMA BindingKeeps ==
    ASSUME SessionsInv, NEW s \in Id, NEW k \in Channel,
           s = lastId + 1 \/ s = store.index[k],
           store.index[k] = NoSession \/ store.index[k] = s,
           lastId' \in 0..MaxIds, lastId <= lastId', s <= lastId',
           GoodStore(store', lastId'),
           store'.index = [store.index EXCEPT ![k] = s],
           \/ saved' = store' /\ promised' = [promised EXCEPT ![k] = s]
           \/ saved' = saved /\ promised' = promised
    PROVE  /\ GoodStore(saved', lastId')
           /\ promised' \in [Channel -> Id \cup {NoSession}]
           /\ ChannelIsDurable'
<1>1. /\ lastId \in 0..MaxIds /\ GoodStore(saved, lastId)
      /\ promised \in [Channel -> Id \cup {NoSession}]
      /\ store.index \in [Channel -> Id \cup {NoSession}]
      /\ ChannelIsDurable
      BY DEF SessionsInv, GoodStore, Store
<1>2. GoodStore(saved', lastId')
      BY <1>1, LaterIsGood
<1>3. promised' \in [Channel -> Id \cup {NoSession}]
      BY <1>1
<1>4. ASSUME NEW j \in Channel, promised'[j] # NoSession
      PROVE  store'.index[j] = promised'[j] /\ saved'.index[j] = promised'[j]
  <2>1. promised[j] # NoSession => store.index[j] = promised[j] /\ saved.index[j] = promised[j]
        BY <1>1 DEF ChannelIsDurable
  <2>2. store'.index[j] = IF j = k THEN s ELSE store.index[j]
        BY <1>1
  <2>3. CASE saved' = store' /\ promised' = [promised EXCEPT ![k] = s]
        BY <1>1, <1>4, <2>1, <2>2, <2>3
  <2>4. CASE saved' = saved /\ promised' = promised
        BY <1>1, <1>4, <2>1, <2>2, <2>4
  <2>5. QED  BY <2>3, <2>4
<1>5. QED  BY <1>2, <1>3, <1>4 DEF ChannelIsDurable

\* The store that such an operation makes, and the id it has used up.
Used(s) == IF s > lastId THEN s ELSE lastId
LEMMA BindingIsGood ==
    ASSUME SessionsInv, NEW s \in Id, NEW k \in Channel,
           (s = lastId + 1 /\ store.index[k] = NoSession) \/ s = store.index[k]
    PROVE  /\ Used(s) \in 0..MaxIds /\ lastId <= Used(s) /\ s <= Used(s)
           /\ GoodStore(With(store, s, k), Used(s))
           /\ With(store, s, k).index = [store.index EXCEPT ![k] = s]
           /\ With(store, s, k).subs = store.subs
<1>1. /\ lastId \in 0..MaxIds /\ GoodStore(store, lastId) /\ store \in Store
      BY DEF SessionsInv, GoodStore
<1>2. Used(s) \in 0..MaxIds /\ lastId <= Used(s) /\ s <= Used(s)
      BY <1>1, SessionsAssumption DEF Used, Id
<1>3. GoodStore(With(store, s, k), Used(s))
      BY <1>1, <1>2, WithIsGood
<1>4. /\ With(store, s, k).index = [store.index EXCEPT ![k] = s]
      /\ With(store, s, k).subs = store.subs
      BY <1>1 DEF With, Store
<1>5. QED  BY <1>2, <1>3, <1>4

\* A channel without a session gets a new one.
LEMMA FreshKeeps ==
    ASSUME SessionsInv, NEW s \in Fresh, NEW k \in Channel, store.index[k] = NoSession,
           store' = With(store, s, k), lastId' = s, over' = over, restarts' = restarts,
           \/ saved' = store' /\ promised' = [promised EXCEPT ![k] = s]
           \/ saved' = saved /\ promised' = promised
    PROVE  SessionsInv'
<1>1. s \in Id /\ s = lastId + 1 /\ lastId \in 0..MaxIds
      BY DEF Fresh, SessionsInv
<1>2. Used(s) = lastId'
      BY <1>1 DEF Used
<1>3. /\ lastId' \in 0..MaxIds /\ lastId <= lastId' /\ s <= lastId'
      /\ GoodStore(store', lastId')
      /\ store'.index = [store.index EXCEPT ![k] = s]
      /\ store'.subs = store.subs
      BY <1>1, <1>2, BindingIsGood
<1>4. /\ GoodStore(saved', lastId') /\ ChannelIsDurable'
      /\ promised' \in [Channel -> Id \cup {NoSession}]
      BY <1>1, <1>3, BindingKeeps
<1>5. EndIsDurable'
      BY <1>3 DEF SessionsInv, EndIsDurable
<1>6. QED  BY <1>3, <1>4, <1>5 DEF SessionsInv

LEMMA ResolveKeeps ==
    ASSUME SessionsInv, NEW k \in Channel, ResolveChannel(k)
    PROVE  SessionsInv'
<1>1. over' = over /\ restarts' = restarts
      BY DEF ResolveChannel
<1>2. CASE store.index[k] # NoSession
  <2>1. /\ store' = store /\ lastId' = lastId
        /\ \/ saved' = store' /\ promised' = [promised EXCEPT ![k] = store.index[k]]
           \/ saved' = saved /\ promised' = promised
        BY <1>2 DEF ResolveChannel, SavesKnown, Saves, Fails
  <2>2. /\ lastId \in 0..MaxIds /\ GoodStore(store, lastId)
        /\ store.index \in [Channel -> Id \cup {NoSession}]
        BY DEF SessionsInv, GoodStore, Store
  <2>3. /\ store.index[k] \in Id /\ store.index[k] <= lastId
        /\ store.index = [store.index EXCEPT ![k] = store.index[k]]
        BY <1>2, <2>2, SessionsAssumption DEF GoodStore, Id
  <2>4. /\ GoodStore(saved', lastId') /\ ChannelIsDurable'
        /\ promised' \in [Channel -> Id \cup {NoSession}]
        BY <2>1, <2>2, <2>3, BindingKeeps
  <2>5. EndIsDurable'
        BY <1>1, <2>1 DEF SessionsInv, EndIsDurable
  <2>6. QED  BY <1>1, <2>1, <2>4, <2>5 DEF SessionsInv
<1>3. CASE store.index[k] = NoSession
  <2>1. PICK s \in Fresh :
           /\ store' = With(store, s, k) /\ lastId' = s
           /\ \/ saved' = store' /\ promised' = [promised EXCEPT ![k] = s]
              \/ saved' = saved /\ promised' = promised
        BY <1>3 DEF ResolveChannel, Saves, Fails
  <2>2. QED  BY <1>1, <1>3, <2>1, FreshKeeps
<1>4. QED  BY <1>2, <1>3

LEMMA ForkedKeeps ==
    ASSUME SessionsInv, NEW s \in Id, NEW k \in Channel, ForkedSession(s, k)
    PROVE  SessionsInv'
<1>1. PICK f \in Fresh :
         /\ store' = With(store, f, k) /\ lastId' = f
         /\ \/ saved' = store' /\ promised' = [promised EXCEPT ![k] = f]
            \/ saved' = saved /\ promised' = promised
      BY DEF ForkedSession, Saves, Fails
<1>2. store.index[k] = NoSession /\ over' = over /\ restarts' = restarts
      BY DEF ForkedSession
<1>3. QED  BY <1>1, <1>2, FreshKeeps

LEMMA ReboundKeeps ==
    ASSUME SessionsInv, NEW s \in Id, NEW k \in Channel, SetChannelBinding(s, k)
    PROVE  SessionsInv'
<1>1. /\ Exists(s) /\ store' = Rebound(s, k) /\ lastId' = lastId /\ over' = over /\ restarts' = restarts
      /\ promised' = [c \in Channel |-> IF c = k \/ promised[c] = s THEN NoSession ELSE promised[c]]
      /\ saved' = store' \/ saved' = saved
      BY DEF SetChannelBinding, Saves, Fails
<1>2. /\ lastId \in 0..MaxIds /\ GoodStore(store, lastId) /\ GoodStore(saved, lastId)
      /\ promised \in [Channel -> Id \cup {NoSession}]
      /\ ChannelIsDurable /\ EndIsDurable
      BY DEF SessionsInv
<1>3. /\ GoodStore(store', lastId')
      /\ store'.subs = store.subs
      /\ \A j \in Channel : j # k /\ store.index[j] # s => store'.index[j] = store.index[j]
      BY <1>1, <1>2, ReboundIsGood
<1>4. GoodStore(saved', lastId')
      BY <1>1, <1>2, <1>3
<1>5. promised' \in [Channel -> Id \cup {NoSession}]
      BY <1>1, <1>2
<1>6. ASSUME NEW j \in Channel, promised'[j] # NoSession
      PROVE  store'.index[j] = promised'[j] /\ saved'.index[j] = promised'[j]
  <2>1. j # k /\ promised[j] # s /\ promised'[j] = promised[j] /\ promised[j] # NoSession
        BY <1>1, <1>6
  <2>2. store.index[j] = promised[j] /\ saved.index[j] = promised[j]
        BY <2>1, <1>2 DEF ChannelIsDurable
  <2>3. QED  BY <2>1, <2>2, <1>1, <1>3
<1>7. EndIsDurable'
      BY <1>1, <1>2, <1>3 DEF EndIsDurable
<1>8. QED  BY <1>1, <1>3, <1>4, <1>5, <1>6, <1>7 DEF SessionsInv, ChannelIsDurable

LEMMA DeleteKeeps ==
    ASSUME SessionsInv, NEW s \in Id, Delete(s)
    PROVE  SessionsInv'
<1>1. /\ Exists(s) /\ store' = Deleted(s) /\ lastId' = lastId /\ restarts' = restarts
      /\ promised' = [k \in Channel |-> IF promised[k] = s THEN NoSession ELSE promised[k]]
      /\ over' = {p \in over : p[1] # s}
      /\ saved' = store' \/ saved' = saved
      BY DEF Delete, Saves, Fails
<1>2. /\ lastId \in 0..MaxIds /\ GoodStore(store, lastId) /\ GoodStore(saved, lastId)
      /\ promised \in [Channel -> Id \cup {NoSession}] /\ over \subseteq Id \X SubSession
      /\ ChannelIsDurable /\ EndIsDurable
      BY DEF SessionsInv
<1>3. /\ GoodStore(store', lastId')
      /\ \A j \in Id : j # s => store'.subs[j] = store.subs[j]
      /\ \A j \in Channel : store.index[j] # s => store'.index[j] = store.index[j]
      BY <1>1, <1>2, DeletedIsGood
<1>4. GoodStore(saved', lastId')
      BY <1>1, <1>2, <1>3
<1>5. promised' \in [Channel -> Id \cup {NoSession}] /\ over' \subseteq Id \X SubSession
      BY <1>1, <1>2
<1>6. ASSUME NEW j \in Channel, promised'[j] # NoSession
      PROVE  store'.index[j] = promised'[j] /\ saved'.index[j] = promised'[j]
  <2>1. promised[j] # s /\ promised'[j] = promised[j] /\ promised[j] # NoSession
        BY <1>1, <1>6
  <2>2. store.index[j] = promised[j] /\ saved.index[j] = promised[j]
        BY <2>1, <1>2 DEF ChannelIsDurable
  <2>3. QED  BY <2>1, <2>2, <1>1, <1>3
<1>7. ASSUME NEW p \in over'
      PROVE  store'.subs[p[1]][p[2]] \in Terminal /\ saved'.subs[p[1]][p[2]] \in Terminal
  <2>1. p \in over /\ p[1] \in Id /\ p[1] # s
        BY <1>1, <1>2, <1>7
  <2>2. store.subs[p[1]][p[2]] \in Terminal /\ saved.subs[p[1]][p[2]] \in Terminal
        BY <2>1, <1>2 DEF EndIsDurable
  <2>3. QED  BY <2>1, <2>2, <1>1, <1>3
<1>8. QED  BY <1>1, <1>2, <1>3, <1>4, <1>5, <1>6, <1>7 DEF SessionsInv, ChannelIsDurable, EndIsDurable

LEMMA RecordKeeps ==
    ASSUME SessionsInv, NEW p \in 1..lastId, NEW x \in SubSession, NEW status \in Status,
           RecordSubSession(p, x, status)
    PROVE  SessionsInv'
<1>1. PICK child \in IF store.index[x] # NoSession THEN {store.index[x]} ELSE Fresh :
         LET st == With(store, child, x) IN
          /\ lastId' = IF child > lastId THEN child ELSE lastId
          /\ store' = IF Exists(p)
                      THEN [st EXCEPT !.subs[p][x] = NewStatus(@, status)] ELSE st
          /\ \/ /\ saved' = store' /\ promised' = [promised EXCEPT ![x] = child]
                /\ over' = IF Exists(p) /\ status \in Terminal THEN over \cup {<<p, x>>}
                           ELSE over
             \/ saved' = saved /\ promised' = promised /\ over' = over
      BY DEF RecordSubSession, Saves, Fails
<1> DEFINE st == With(store, child, x)
<1>2. /\ lastId \in 0..MaxIds /\ GoodStore(store, lastId) /\ GoodStore(saved, lastId)
      /\ store.index \in [Channel -> Id \cup {NoSession}]
      /\ store.bound \in [Id -> Channel \cup {NoChannel}]
      /\ over \subseteq Id \X SubSession /\ EndIsDurable
      BY DEF SessionsInv, GoodStore, Store
<1>3. x \in Channel /\ NoChannel \notin Channel /\ MaxIds \in Nat
      BY SessionsAssumption
<1>4. p \in Id
      BY <1>2, <1>3 DEF Id
<1>5. /\ child \in Id
      /\ (child = lastId + 1 /\ store.index[x] = NoSession) \/ child = store.index[x]
      BY <1>1, <1>2, <1>3 DEF Fresh
<1>6. lastId' = Used(child)
      BY <1>1 DEF Used
<1>7. /\ lastId' \in 0..MaxIds /\ lastId <= lastId' /\ child <= lastId'
      /\ GoodStore(st, lastId')
      /\ st.index = [store.index EXCEPT ![x] = child]
      /\ st.subs = store.subs
      BY <1>3, <1>5, <1>6, BindingIsGood
<1>8. Exists(p) => st.bound[p] # NoChannel
  <2>1. st.bound = [store.bound EXCEPT ![child] = x]
        BY <1>2, <1>3, <1>5 DEF With, GoodStore, Store
  <2>2. QED  BY <2>1, <1>2, <1>3, <1>4, <1>5 DEF Exists
<1> HIDE DEF st
<1>9. /\ GoodStore(store', lastId')
      /\ store'.index = [store.index EXCEPT ![x] = child]
      /\ \A j \in Id, y \in SubSession :
             store.subs[j][y] \in Terminal => store'.subs[j][y] \in Terminal
      /\ Exists(p) /\ status \in Terminal => store'.subs[p][x] \in Terminal
  <2>1. CASE Exists(p)
    <3> DEFINE value == NewStatus(st.subs[p][x], status)
    <3>1. store' = [st EXCEPT !.subs[p][x] = value]
          BY <2>1, <1>1 DEF st
    <3>2. /\ value \in Status
          /\ st.subs[p][x] \in Terminal \/ status \in Terminal => value \in Terminal
          BY DEF NewStatus, Status, Terminal
    <3> HIDE DEF value
    <3>3. /\ GoodStore(store', lastId') /\ store'.index = st.index
          /\ \A j \in Id, y \in SubSession :
                store'.subs[j][y] = IF j = p /\ y = x THEN value ELSE st.subs[j][y]
          BY <3>1, <3>2, <2>1, <1>4, <1>7, <1>8, NotedIsGood
    <3>4. QED  BY <3>2, <3>3, <1>4, <1>7
  <2>2. CASE ~Exists(p)
    <3>1. store' = st
          BY <2>2, <1>1 DEF st
    <3>2. QED  BY <3>1, <2>2, <1>7
  <2>3. QED  BY <2>1, <2>2
<1>10. /\ GoodStore(saved', lastId') /\ ChannelIsDurable'
       /\ promised' \in [Channel -> Id \cup {NoSession}]
  <2>1. \/ saved' = store' /\ promised' = [promised EXCEPT ![x] = child]
        \/ saved' = saved /\ promised' = promised
        BY <1>1
  <2>2. QED  BY <2>1, <1>3, <1>5, <1>7, <1>9, BindingKeeps
<1>11. over' \subseteq Id \X SubSession
      BY <1>1, <1>2, <1>4
<1>12. ASSUME NEW q \in over'
       PROVE  store'.subs[q[1]][q[2]] \in Terminal /\ saved'.subs[q[1]][q[2]] \in Terminal
  <2>1. CASE q \in over
    <3>1. q[1] \in Id /\ q[2] \in SubSession
          BY <2>1, <1>2
    <3>2. store.subs[q[1]][q[2]] \in Terminal /\ saved.subs[q[1]][q[2]] \in Terminal
          BY <2>1, <1>2 DEF EndIsDurable
    <3>3. QED  BY <3>1, <3>2, <1>1, <1>9
  <2>2. CASE q \notin over
    <3>1. /\ q = <<p, x>> /\ Exists(p) /\ status \in Terminal /\ saved' = store'
          BY <2>2, <1>1, <1>12
    <3>2. QED  BY <3>1, <1>9
  <2>3. QED  BY <2>1, <2>2
<1>13. restarts' = restarts
      BY DEF RecordSubSession
<1>14. QED  BY <1>7, <1>9, <1>10, <1>11, <1>12, <1>13 DEF SessionsInv, EndIsDurable

LEMMA UpsertKeeps ==
    ASSUME SessionsInv, NEW p \in 1..lastId, NEW x \in SubSession, NEW status \in Status,
           UpsertSubSession(p, x, status)
    PROVE  SessionsInv'
<1>1. /\ Exists(p) /\ store' = [store EXCEPT !.subs[p][x] = status]
      /\ \/ saved' = store' /\ over' = IF status \in Terminal THEN over \cup {<<p, x>>}
                                       ELSE over \ {<<p, x>>}
         \/ saved' = saved /\ over' = IF status \in Terminal THEN over ELSE over \ {<<p, x>>}
      /\ lastId' = lastId /\ promised' = promised /\ restarts' = restarts
      BY DEF UpsertSubSession, Saves, Fails
<1>2. /\ lastId \in 0..MaxIds /\ GoodStore(store, lastId) /\ GoodStore(saved, lastId)
      /\ over \subseteq Id \X SubSession /\ ChannelIsDurable /\ EndIsDurable
      BY DEF SessionsInv
<1>3. p \in Id
      BY <1>2, SessionsAssumption DEF Id
<1>4. /\ GoodStore(store', lastId) /\ store'.index = store.index
      /\ \A j \in Id, y \in SubSession :
            store'.subs[j][y] = IF j = p /\ y = x THEN status ELSE store.subs[j][y]
      BY <1>1, <1>2, <1>3, NotedIsGood DEF Exists
<1>5. GoodStore(saved', lastId)
      BY <1>1, <1>2, <1>4
<1>6. ChannelIsDurable'
      BY <1>1, <1>2, <1>4 DEF ChannelIsDurable
<1>7. over' \subseteq Id \X SubSession
      BY <1>1, <1>2, <1>3
<1>8. ASSUME NEW q \in over'
      PROVE  store'.subs[q[1]][q[2]] \in Terminal /\ saved'.subs[q[1]][q[2]] \in Terminal
  <2>1. q[1] \in Id /\ q[2] \in SubSession /\ q = <<q[1], q[2]>>
        BY <1>7, <1>8
  <2>2. CASE q = <<p, x>>
    <3>1. status \in Terminal
          BY <2>2, <1>1, <1>8
    <3>2. q[1] = p /\ q[2] = x
          BY <2>2
    <3>3. store'.subs[q[1]][q[2]] \in Terminal
          BY <3>1, <3>2, <2>1, <1>4
    <3>4. CASE saved' = store'
          BY <3>3, <3>4
    <3>5. CASE saved' = saved /\ saved' # store'
      <4>1. q \in over
            BY <3>1, <3>5, <1>1, <1>8
      <4>2. QED  BY <4>1, <3>3, <3>5, <1>2 DEF EndIsDurable
    <3>6. QED  BY <3>4, <3>5, <1>1
  <2>3. CASE q # <<p, x>>
    <3>1. q \in over /\ ~(q[1] = p /\ q[2] = x)
          BY <2>1, <2>3, <1>1, <1>8
    <3>2. store.subs[q[1]][q[2]] \in Terminal /\ saved.subs[q[1]][q[2]] \in Terminal
          BY <3>1, <1>2 DEF EndIsDurable
    <3>3. store'.subs[q[1]][q[2]] = store.subs[q[1]][q[2]]
          BY <2>1, <3>1, <1>4
    <3>4. QED  BY <3>2, <3>3, <1>1
  <2>4. QED  BY <2>2, <2>3
<1>9. QED  BY <1>1, <1>2, <1>4, <1>5, <1>6, <1>7, <1>8 DEF SessionsInv, EndIsDurable

LEMMA RestartKeeps ==
    ASSUME SessionsInv, Restart
    PROVE  SessionsInv'
<1>1. /\ store' = saved /\ saved' = saved /\ lastId' = lastId /\ promised' = promised /\ over' = over
      /\ restarts' \in 0..MaxRestarts
      BY SessionsAssumption DEF Restart, SessionsInv
<1>2. ChannelIsDurable' /\ EndIsDurable'
      BY <1>1 DEF SessionsInv, ChannelIsDurable, EndIsDurable
<1>3. QED  BY <1>1, <1>2 DEF SessionsInv

LEMMA SessionsStep == SessionsInv /\ [SessionsNext]_sessionsVars => SessionsInv'
<1> SUFFICES ASSUME SessionsInv, [SessionsNext]_sessionsVars PROVE SessionsInv'
    OBVIOUS
<1>1. ASSUME NEW k \in Channel, ResolveChannel(k) PROVE SessionsInv'
      BY <1>1, ResolveKeeps
<1>2. ASSUME NEW k \in Channel, NEW s \in Id, ForkedSession(s, k) PROVE SessionsInv'
      BY <1>2, ForkedKeeps
<1>3. ASSUME NEW k \in Channel, NEW s \in Id, SetChannelBinding(s, k) PROVE SessionsInv'
      BY <1>3, ReboundKeeps
<1>4. ASSUME NEW s \in Id, Delete(s) PROVE SessionsInv'
      BY <1>4, DeleteKeeps
<1>5. CASE Touch
  <2>1. /\ store' = store /\ lastId' = lastId /\ promised' = promised /\ over' = over
        /\ restarts' = restarts /\ saved' \in {store, saved}
        BY <1>5 DEF Touch, Saves, Fails
  <2>2. ChannelIsDurable' /\ EndIsDurable'
        BY <2>1 DEF SessionsInv, ChannelIsDurable, EndIsDurable
  <2>3. QED  BY <2>1, <2>2 DEF SessionsInv
<1>6. ASSUME NEW s \in 1..lastId, NEW x \in SubSession, NEW status \in Status,
             RecordSubSession(s, x, status)
      PROVE  SessionsInv'
      BY <1>6, RecordKeeps
<1>7. ASSUME NEW s \in 1..lastId, NEW x \in SubSession, NEW status \in Status,
             UpsertSubSession(s, x, status)
      PROVE  SessionsInv'
      BY <1>7, UpsertKeeps
<1>8. CASE Restart
      BY <1>8, RestartKeeps
<1>9. CASE UNCHANGED sessionsVars
  <2>1. ChannelIsDurable' /\ EndIsDurable'
        BY <1>9 DEF SessionsInv, ChannelIsDurable, EndIsDurable, sessionsVars
  <2>2. QED  BY <2>1, <1>9 DEF SessionsInv, sessionsVars
<1>10. QED  BY <1>1, <1>2, <1>3, <1>4, <1>5, <1>6, <1>7, <1>8, <1>9 DEF SessionsNext

LEMMA SessionsInvariant == SessionsSpec => []SessionsInv
BY SessionsInitially, SessionsStep, PTL DEF SessionsSpec
-----------------------------------------------------------------------------
\* The store in memory and the file are stores of the sessions that were made.
THEOREM SessionsTypeCorrect == SessionsSpec => []SessionsTypeOK
<1>1. SessionsInv => SessionsTypeOK
      BY DEF SessionsInv, GoodStore, SessionsTypeOK
<1>2. QED  BY <1>1, SessionsInvariant, PTL

\* No channel is ever indexed under a session that does not exist or is bound
\* elsewhere, in memory or on disk (resolve_channel, upsert_sub_session_channel).
THEOREM IndexIsSoundAlways == SessionsSpec => []IndexIsSound
<1>1. SessionsInv => IndexIsSound
      BY DEF SessionsInv, GoodStore, IndexIsSound
<1>2. QED  BY <1>1, SessionsInvariant, PTL

\* The session that a caller was told a channel has stays the channel's, whatever
\* saves fail afterwards and whenever the process is started again (save).
THEOREM ChannelIsDurableAlways == SessionsSpec => []ChannelIsDurable
<1>1. SessionsInv => ChannelIsDurable
      BY DEF SessionsInv
<1>2. QED  BY <1>1, SessionsInvariant, PTL

\* The recorded end of a sub-session is not undone by a delayed event, a failing
\* save or a restart (upsert_sub_session_channel), but only by a channel that has
\* its events in order and goes on with it (upsert_sub_session).
THEOREM EndIsDurableAlways == SessionsSpec => []EndIsDurable
<1>1. SessionsInv => EndIsDurable
      BY DEF SessionsInv
<1>2. QED  BY <1>1, SessionsInvariant, PTL
-----------------------------------------------------------------------------
(* The outbox. *)

\* Every key has an id of its own.  An id is new as long as its delivery is
\* pending; what is recorded as sent was posted, and as complete was said.
RecordInv(k) ==
    outbox[k] # NoRecord =>
        /\ outbox[k].id <= drawn
        /\ \A l \in Key : outbox[l] # NoRecord /\ outbox[l].id = outbox[k].id => l = k
        /\ outbox[k].state = "pending" => age[outbox[k].id] = "new"
        /\ outbox[k].state = "failed" => outbox[k].id \in refused
        /\ outbox[k].state \in {"sent", "complete"} => \E m \in posts : m.key = k
        /\ outbox[k].state = "complete" => said[outbox[k].id] > 0

\* A request carries the contents of the record of its key.
Faithful(m) ==
    /\ outbox[m.key] # NoRecord /\ m.call <= calls
    /\ m.id = outbox[m.key].id /\ m.text = outbox[m.key].text
    /\ m.channel = outbox[m.key].channel
    /\ age[m.id] # "new"

\* What is on its way is younger than an hour, unless an attempt has failed; what
\* was posted within the hour is remembered.
RequestInv ==
    /\ \A m \in wire : Faithful(m) /\ (age[m.id] = "old" => m.id \in refused)
    /\ \A m \in posts : Faithful(m) /\ (age[m.id] # "old" => m.id \in remembered)
    /\ \A i \in remembered : \E m \in posts : m.id = i
    /\ \A n \in heard : n <= calls
    /\ \A i \in Uuid : age[i] # "new" => i <= drawn

\* Who serves a delivery holds the lock and has the record as it is on disk.
ProcessInv(p) ==
    at[p] # "idle" =>
        /\ profileLock = p /\ ask[p] \in Ask /\ outbox[ask[p].key] # NoRecord
        /\ held[p] = outbox[ask[p].key] /\ held[p].state # "complete"
        /\ held[p].text = ask[p].text /\ held[p].channel = ask[p].channel
        /\ at[p] \in {"unsaid", "said"} => held[p].state = "sent"
        /\ at[p] = "unsaid" => said[held[p].id] = 0
        /\ at[p] = "said" => said[held[p].id] > 0
        /\ at[p] = "sending" =>
              /\ call[p] <= calls
              /\ \A m \in wire : m.call = call[p] => m.key = ask[p].key
              /\ call[p] \in heard => \E m \in posts : m.key = ask[p].key

ToldInv ==
    \A a \in told :
        /\ outbox[a.key] # NoRecord /\ outbox[a.key].state = "complete"
        /\ outbox[a.key].text = a.text /\ outbox[a.key].channel = a.channel

OutboxInv ==
    /\ OutboxTypeOK /\ RequestInv /\ ToldInv /\ AtMostOnce
    /\ \A k \in Key : RecordInv(k)
    /\ \A p \in Process : ProcessInv(p)

\* The contents of a record never change, a new id never comes back.
Kept ==
    /\ \A k \in Key : outbox[k] # NoRecord =>
          /\ outbox'[k] # NoRecord /\ outbox'[k].id = outbox[k].id
          /\ outbox'[k].text = outbox[k].text /\ outbox'[k].channel = outbox[k].channel
    /\ \A i \in Uuid : age[i] # "new" => age'[i] # "new"
    /\ \A i \in Uuid : age'[i] # "old" => age[i] # "old"
    /\ \A i \in refused : i \in refused'
-----------------------------------------------------------------------------
LEMMA OutboxInitially == OutboxInit => OutboxInv
<1> SUFFICES ASSUME OutboxInit PROVE OutboxInv
    OBVIOUS
<1>1. OutboxTypeOK
      BY OutboxAssumption DEF OutboxInit, OutboxTypeOK, Uuid
<1>2. RequestInv /\ ToldInv /\ AtMostOnce
      BY DEF OutboxInit, RequestInv, ToldInv, AtMostOnce, PostedOnce, SaidOnce
<1>3. \A k \in Key : RecordInv(k)
      BY DEF OutboxInit, RecordInv
<1>4. \A p \in Process : ProcessInv(p)
      BY DEF OutboxInit, ProcessInv
<1>5. QED  BY <1>1, <1>2, <1>3, <1>4 DEF OutboxInv

LEMMA WithState ==
    ASSUME NEW r \in OutboxRecord, NEW s \in State
    PROVE  /\ [r EXCEPT !.state = s] \in OutboxRecord
           /\ [r EXCEPT !.state = s].state = s
           /\ [r EXCEPT !.state = s].id = r.id
           /\ [r EXCEPT !.state = s].text = r.text
           /\ [r EXCEPT !.state = s].channel = r.channel
           /\ [r EXCEPT !.state = s] # NoRecord
BY OutboxAssumption DEF OutboxRecord

\* Who serves a delivery is alone, and its record is typed.
LEMMA Serving ==
    ASSUME OutboxInv, NEW p \in Process, at[p] # "idle"
    PROVE  /\ profileLock = p /\ ask[p] \in Ask /\ ask[p].key \in Key
           /\ held[p] \in OutboxRecord /\ held[p].id \in Uuid /\ held[p].state \in State
           /\ outbox[ask[p].key] = held[p] /\ held[p] # NoRecord
           /\ \A q \in Process : q # p => at[q] = "idle"
<1>1. ProcessInv(p) /\ \A q \in Process : ProcessInv(q)
      BY DEF OutboxInv
<1>2. profileLock = p /\ ask[p] \in Ask /\ ask[p].key \in Key
      BY <1>1 DEF ProcessInv, Ask
<1>3. outbox[ask[p].key] = held[p] /\ held[p] # NoRecord
      BY <1>1 DEF ProcessInv
<1>4. held[p] \in OutboxRecord
      BY <1>2, <1>3 DEF OutboxInv, OutboxTypeOK
<1>5. held[p].id \in Uuid /\ held[p].state \in State
      BY <1>4 DEF OutboxRecord
<1>6. \A q \in Process : q # p => at[q] = "idle"
      BY <1>1, <1>2 DEF ProcessInv
<1>7. QED  BY <1>2, <1>3, <1>4, <1>5, <1>6

\* What is on the wire or in a chat stays faithful where nothing is forgotten.
LEMMA FaithfulStays ==
    ASSUME OutboxInv, Kept, calls' \in Nat, calls <= calls', NEW m \in Request, Faithful(m)
    PROVE  Faithful(m)'
<1>1. m.key \in Key /\ m.id \in Uuid /\ m.call \in Nat /\ calls \in Nat
      BY DEF Request, OutboxInv, OutboxTypeOK, Call
<1>2. outbox[m.key] # NoRecord /\ m.call <= calls /\ m.id = outbox[m.key].id
      /\ m.text = outbox[m.key].text /\ m.channel = outbox[m.key].channel /\ age[m.id] # "new"
      BY DEF Faithful
<1>3. outbox'[m.key] # NoRecord /\ m.id = outbox'[m.key].id /\ m.text = outbox'[m.key].text
      /\ m.channel = outbox'[m.key].channel /\ age'[m.id] # "new"
      BY <1>1, <1>2 DEF Kept
<1>4. m.call <= calls'
      BY <1>1, <1>2
<1>5. QED  BY <1>3, <1>4 DEF Faithful

\* Who was told of a delivery still finds it where no complete record changes.
LEMMA ToldStays ==
    ASSUME OutboxInv, told' = told,
           \A k \in Key : outbox[k] # NoRecord /\ outbox[k].state = "complete" => outbox'[k] = outbox[k]
    PROVE  ToldInv'
<1>1. \A a \in told : a.key \in Key
      BY DEF OutboxInv, OutboxTypeOK, Ask
<1>2. QED  BY <1>1 DEF OutboxInv, ToldInv

\* A step that posts nothing.
LEMMA OnceStays ==
    ASSUME OutboxInv, Kept, posts' = posts, \A i \in Uuid : said'[i] = said[i]
    PROVE  AtMostOnce'
<1>1. \A m \in posts : m.id \in Uuid
      BY DEF OutboxInv, OutboxTypeOK, Request
<1>2. \A m, n \in posts' :
          m.key = n.key /\ (age'[m.id] # "old" \/ m.id \notin refused') => m = n
  <2> SUFFICES ASSUME NEW m \in posts, NEW n \in posts, m.key = n.key,
                      age'[m.id] # "old" \/ m.id \notin refused'
               PROVE  m = n
      OBVIOUS
  <2>1. age[m.id] # "old" \/ m.id \notin refused
        BY <1>1 DEF Kept
  <2>2. QED  BY <2>1 DEF OutboxInv, AtMostOnce, PostedOnce
<1>3. \A i \in Uuid : said'[i] <= 1
      BY DEF OutboxInv, AtMostOnce, SaidOnce
<1>4. QED  BY <1>2, <1>3 DEF AtMostOnce, PostedOnce, SaidOnce

\* A process that takes no part in a step that disturbs neither wire nor record.
LEMMA IdleStays ==
    ASSUME NEW q \in Process, at'[q] = "idle"
    PROVE  ProcessInv(q)'
BY DEF ProcessInv

\* The record of the delivery that p serves gets another state.
LEMMA SaveStep ==
    ASSUME OutboxInv, NEW p \in Process, at[p] # "idle", NEW s \in State,
           SavesRecord(p, [held[p] EXCEPT !.state = s])
    PROVE  LET k == ask[p].key IN
           /\ outbox' \in [Key -> OutboxRecord \cup {NoRecord}]
           /\ k \in Key /\ outbox[k] = held[p]
           /\ \A l \in Key : l # k => outbox'[l] = outbox[l]
           /\ outbox'[k] = [held[p] EXCEPT !.state = s] /\ outbox'[k] # NoRecord
           /\ outbox'[k].state = s /\ outbox'[k].id = held[p].id
           /\ outbox'[k].text = held[p].text /\ outbox'[k].channel = held[p].channel
           /\ \A l \in Key : outbox[l] # NoRecord =>
                 /\ outbox'[l] # NoRecord /\ outbox'[l].id = outbox[l].id
                 /\ outbox'[l].text = outbox[l].text /\ outbox'[l].channel = outbox[l].channel
           /\ \A l \in Key : outbox'[l] # NoRecord => outbox[l] # NoRecord
           /\ \A l \in Key : outbox[l] # NoRecord /\ outbox[l].state = "complete" =>
                 outbox'[l] = outbox[l]
<1> DEFINE r == [held[p] EXCEPT !.state = s]
<1>1. /\ r \in OutboxRecord /\ r # NoRecord /\ r.state = s /\ r.id = held[p].id
      /\ r.text = held[p].text /\ r.channel = held[p].channel
      BY Serving, WithState
<1>2. ask[p].key \in Key /\ outbox[ask[p].key] = held[p] /\ held[p] # NoRecord
      BY Serving
<1>3. held[p].state # "complete"
      BY DEF OutboxInv, ProcessInv
<1>4. outbox \in [Key -> OutboxRecord \cup {NoRecord}]
      BY DEF OutboxInv, OutboxTypeOK
<1>5. outbox' = [outbox EXCEPT ![ask[p].key] = r]
      BY DEF SavesRecord
<1> HIDE DEF r
<1>6. outbox' \in [Key -> OutboxRecord \cup {NoRecord}]
      BY <1>1, <1>2, <1>4, <1>5
<1>7. outbox'[ask[p].key] = r /\ \A l \in Key : l # ask[p].key => outbox'[l] = outbox[l]
      BY <1>2, <1>4, <1>5
<1>8. QED  BY <1>1, <1>2, <1>3, <1>6, <1>7 DEF r

\* A delivery that ends leaves no trace in its process.
LEMMA EndsTypes ==
    ASSUME OutboxInv, NEW p \in Process, at[p] # "idle" \/ profileLock = p, Returns(p)
    PROVE  /\ at' \in [Process -> {"idle", "loaded", "sending", "unsaid", "said"}]
           /\ ask' \in [Process -> Ask \cup {NoAsk}]
           /\ held' \in [Process -> OutboxRecord \cup {NoRecord}]
           /\ call' \in [Process -> 0..MaxCalls]
           /\ \A q \in Process : at'[q] = "idle"
<1>1. \A q \in Process : q # p => at[q] = "idle"
      BY Serving
<1>2. QED  BY <1>1, OutboxAssumption DEF Returns, OutboxInv, OutboxTypeOK

\* Steps of the lock, the session and the callers.
LEMMA QuietStays ==
    ASSUME OutboxInv, UNCHANGED <<outbox, drawn, feishu, said, told, refused>>
    PROVE  /\ RequestInv' /\ ToldInv' /\ AtMostOnce' /\ \A k \in Key : RecordInv(k)'
<1>1. RequestInv'
      BY DEF OutboxInv, RequestInv, Faithful, feishu
<1>2. ToldInv'
      BY DEF OutboxInv, ToldInv
<1>3. AtMostOnce'
      BY DEF OutboxInv, AtMostOnce, PostedOnce, SaidOnce, feishu
<1>4. \A k \in Key : RecordInv(k)'
      BY DEF OutboxInv, RecordInv, feishu
<1>5. QED  BY <1>1, <1>2, <1>3, <1>4

LEMMA LockStep ==
    ASSUME OutboxInv, NEW p \in Process, Acquire(p) \/ Release(p) \/ ProcessDies(p)
    PROVE  OutboxInv'
<1>1. UNCHANGED <<outbox, drawn, feishu, said, told, refused>>
      BY DEF Acquire, Release, ProcessDies, results
<1>2. OutboxTypeOK' /\ \A q \in Process : at'[q] = "idle"
  <2>1. CASE Acquire(p)
    <3>1. \A q \in Process : at[q] = "idle"
          BY <2>1, Serving, OutboxAssumption DEF Acquire, Free
    <3>2. QED  BY <2>1, <3>1 DEF Acquire, OutboxInv, OutboxTypeOK, service, feishu, results
  <2>2. CASE Release(p)
    <3>1. \A q \in Process : at[q] = "idle"
          BY <2>2, Serving DEF Release
    <3>2. QED  BY <2>2, <3>1 DEF Release, OutboxInv, OutboxTypeOK, service, feishu, results
  <2>3. CASE ProcessDies(p)
    <3>1. deaths' \in 0..MaxDeaths
          BY <2>3, OutboxAssumption DEF ProcessDies, OutboxInv, OutboxTypeOK
    <3>2. profileLock = p /\ Returns(p)
          BY <2>3 DEF ProcessDies
    <3>3. QED  BY <2>3, <3>1, <3>2, EndsTypes
               DEF ProcessDies, OutboxInv, OutboxTypeOK, feishu, results
  <2>4. QED  BY <2>1, <2>2, <2>3
<1>3. \A q \in Process : ProcessInv(q)'
      BY <1>2, IdleStays
<1>4. QED  BY <1>1, <1>2, <1>3, QuietStays DEF OutboxInv

LEMMA RebindStep ==
    ASSUME OutboxInv, NEW c \in Chat, Rebind(c)
    PROVE  OutboxInv'
<1>1. UNCHANGED <<outbox, drawn, feishu, said, told, refused>>
      BY DEF Rebind, results
<1>2. OutboxTypeOK'
      BY DEF Rebind, OutboxInv, OutboxTypeOK, service, feishu, results
<1>3. \A q \in Process : ProcessInv(q)'
      BY DEF Rebind, OutboxInv, ProcessInv, service, feishu
<1>4. QED  BY <1>1, <1>2, <1>3, QuietStays DEF OutboxInv

LEMMA TakeStep ==
    ASSUME OutboxInv, NEW p \in Process, NEW a \in Ask, Take(p, a)
    PROVE  OutboxInv'
<1> DEFINE r == [id |-> drawn + 1, text |-> a.text, channel |-> a.channel, state |-> "pending"]
<1>0. /\ profileLock = p /\ at[p] = "idle" /\ a.key \in Key
      /\ UNCHANGED <<profileLock, call, calls, wire, posts, heard, remembered, age, said, binding,
                     refused, deaths>>
      BY DEF Take, Ask, feishu
<1>1. \A q \in Process : at[q] = "idle"
      BY <1>0, Serving
<1>2. CASE outbox[a.key] = NoRecord /\ drawn < MaxUuids /\ drawn' = drawn + 1 /\ told' = told
           /\ outbox' = [outbox EXCEPT ![a.key] = r]
           /\ (Serves(p, a, r, "loaded") \/ UNCHANGED <<at, ask, held>>)
  <2>1. /\ r \in OutboxRecord /\ r # NoRecord /\ r.id = drawn + 1 /\ r.id \in Uuid /\ r.state = "pending"
        /\ r.text = a.text /\ r.channel = a.channel
        BY <1>2, OutboxAssumption DEF Ask, OutboxRecord, State, Uuid, OutboxInv, OutboxTypeOK
  <2> HIDE DEF r
  <2>2. /\ outbox' \in [Key -> OutboxRecord \cup {NoRecord}] /\ outbox'[a.key] = r
        /\ \A k \in Key : k # a.key => outbox'[k] = outbox[k]
        BY <1>0, <1>2, <2>1 DEF OutboxInv, OutboxTypeOK
  <2>3. \A k \in Key : outbox[k] # NoRecord => k # a.key /\ outbox'[k] = outbox[k]
        BY <1>2, <2>2
  <2>4. drawn \in Nat /\ drawn' = drawn + 1 /\ drawn' \in 0..MaxUuids
        BY <1>2, OutboxAssumption DEF OutboxInv, OutboxTypeOK
  <2>5. age[r.id] = "new" /\ \A k \in Key : outbox[k] # NoRecord => outbox[k].id # r.id
    <3>1. \A k \in Key : outbox[k] # NoRecord => outbox[k].id <= drawn /\ outbox[k].id \in Uuid
          BY DEF OutboxInv, RecordInv, OutboxTypeOK, OutboxRecord
    <3>2. age[r.id] # "new" => r.id <= drawn
          BY <2>1 DEF OutboxInv, RequestInv
    <3>3. QED  BY <2>1, <2>4, <3>1, <3>2 DEF Uuid
  <2>6. OutboxTypeOK'
        BY <1>0, <1>2, <2>1, <2>2, <2>4 DEF Serves, OutboxInv, OutboxTypeOK
  <2>7. Kept
        BY <1>0, <2>3 DEF Kept
  <2>8. RequestInv'
    <3>1. calls' \in Nat /\ calls <= calls'
          BY <1>0 DEF OutboxInv, OutboxTypeOK
    <3>2. \A m \in Request : Faithful(m) => Faithful(m)'
          BY <2>7, <3>1, FaithfulStays
    <3>3. \A i \in Uuid : age'[i] # "new" => i <= drawn'
          BY <1>0, <2>4 DEF OutboxInv, RequestInv, Uuid
    <3>4. QED  BY <1>0, <3>2, <3>3 DEF OutboxInv, OutboxTypeOK, RequestInv
  <2>9. ToldInv'
        BY <1>2, <2>3, ToldStays
  <2>10. AtMostOnce'
        BY <1>0, <2>7, OnceStays
  <2>11. ASSUME NEW k \in Key PROVE RecordInv(k)'
    <3>1. CASE k = a.key
          BY <1>0, <2>1, <2>2, <2>3, <2>4, <2>5, <3>1 DEF RecordInv
    <3>2. CASE k # a.key
      <4>1. outbox'[k] = outbox[k] /\ RecordInv(k)
            BY <2>2, <3>2 DEF OutboxInv
      <4>2. outbox[k] # NoRecord => outbox[k].id <= drawn' /\ outbox[k].id \in Uuid
            BY <2>4, <4>1 DEF OutboxInv, OutboxTypeOK, RecordInv, OutboxRecord, Uuid
      <4>3. \A l \in Key : outbox[k] # NoRecord /\ outbox'[l] # NoRecord
                           /\ outbox'[l].id = outbox[k].id => l = k
            BY <2>1, <2>2, <2>5, <4>1 DEF RecordInv
      <4>4. QED  BY <1>0, <4>1, <4>2, <4>3 DEF RecordInv
    <3>3. QED  BY <3>1, <3>2
  <2>12. ASSUME NEW q \in Process PROVE ProcessInv(q)'
    <3>1. CASE at'[q] = "idle"
          BY <3>1, IdleStays
    <3>2. CASE at'[q] # "idle"
      <4>1. q = p /\ at'[p] = "loaded" /\ ask'[p] = a /\ held'[p] = r
            BY <1>1, <1>2, <3>2 DEF Serves, OutboxInv, OutboxTypeOK
      <4>2. QED  BY <1>0, <2>1, <2>2, <4>1 DEF ProcessInv
    <3>3. QED  BY <3>1, <3>2
  <2>13. QED  BY <2>6, <2>8, <2>9, <2>10, <2>11, <2>12 DEF OutboxInv
<1>3. CASE drawn < MaxUuids /\ drawn' = drawn + 1 /\ told' = told
           /\ UNCHANGED <<outbox, at, ask, held>>
  <2>1. drawn \in Nat /\ drawn' = drawn + 1 /\ drawn' \in 0..MaxUuids
        BY <1>3, OutboxAssumption DEF OutboxInv, OutboxTypeOK
  <2>2. OutboxTypeOK'
        BY <1>0, <1>3, <2>1 DEF OutboxInv, OutboxTypeOK
  <2>3. RequestInv'
        BY <1>0, <1>3, <2>1 DEF OutboxInv, RequestInv, Faithful, Uuid
  <2>4. ToldInv' /\ AtMostOnce'
        BY <1>0, <1>3 DEF OutboxInv, ToldInv, AtMostOnce, PostedOnce, SaidOnce
  <2>5. ASSUME NEW k \in Key PROVE RecordInv(k)'
    <3>1. outbox[k] # NoRecord => outbox[k].id <= drawn'
          BY <2>1 DEF OutboxInv, OutboxTypeOK, RecordInv, OutboxRecord, Uuid
    <3>2. QED  BY <1>0, <1>3, <3>1 DEF OutboxInv, RecordInv
  <2>6. \A q \in Process : ProcessInv(q)'
        BY <1>1, <1>3, IdleStays
  <2>7. QED  BY <2>2, <2>3, <2>4, <2>5, <2>6 DEF OutboxInv
<1>4. CASE /\ outbox[a.key] # NoRecord /\ SameDelivery(outbox[a.key], a)
           /\ IF outbox[a.key].state = "complete"
              THEN told' = told \cup {a} /\ UNCHANGED <<at, ask, held>>
              ELSE Serves(p, a, outbox[a.key], "loaded") /\ UNCHANGED told
           /\ UNCHANGED <<outbox, drawn>>
  <2>1. outbox[a.key] \in OutboxRecord /\ outbox[a.key].text = a.text /\ outbox[a.key].channel = a.channel
        BY <1>0, <1>4 DEF OutboxInv, OutboxTypeOK, SameDelivery
  <2>2. OutboxTypeOK'
        BY <1>0, <1>4, <2>1 DEF Serves, OutboxInv, OutboxTypeOK
  <2>3. ToldInv'
        BY <1>4, <2>1 DEF OutboxInv, ToldInv
  <2>4. RequestInv' /\ AtMostOnce' /\ \A k \in Key : RecordInv(k)'
    <3>1. RequestInv'
          BY <1>0, <1>4 DEF OutboxInv, RequestInv, Faithful
    <3>2. AtMostOnce'
          BY <1>0 DEF OutboxInv, AtMostOnce, PostedOnce, SaidOnce
    <3>3. \A k \in Key : RecordInv(k)'
          BY <1>0, <1>4 DEF OutboxInv, RecordInv
    <3>4. QED  BY <3>1, <3>2, <3>3
  <2>5. ASSUME NEW q \in Process PROVE ProcessInv(q)'
    <3>1. CASE at'[q] = "idle"
          BY <3>1, IdleStays
    <3>2. CASE at'[q] # "idle"
      <4>1. /\ q = p /\ outbox[a.key].state # "complete"
            /\ at'[p] = "loaded" /\ ask'[p] = a /\ held'[p] = outbox[a.key]
            BY <1>1, <1>4, <3>2 DEF Serves, OutboxInv, OutboxTypeOK
      <4>2. QED  BY <1>0, <1>4, <2>1, <4>1 DEF ProcessInv
    <3>3. QED  BY <3>1, <3>2
  <2>6. QED  BY <2>2, <2>3, <2>4, <2>5 DEF OutboxInv
<1>5. QED  BY <1>2, <1>3, <1>4 DEF Take

\* Requests only leave the wire, nothing is posted.
LEMMA RequestStays ==
    ASSUME OutboxInv, Kept, wire' \subseteq wire,
           UNCHANGED <<posts, remembered, heard, calls, drawn>>,
           \A i \in Uuid : age'[i] = age[i] \/ (age'[i] = "tried" /\ i <= drawn)
    PROVE  RequestInv'
<1>1. calls' \in Nat /\ calls <= calls'
      BY DEF OutboxInv, OutboxTypeOK
<1>2. \A m \in Request : Faithful(m) => Faithful(m)'
      BY <1>1, FaithfulStays
<1>3. wire \subseteq Request /\ posts \subseteq Request
      BY DEF OutboxInv, OutboxTypeOK
<1>4. \A m \in wire' : age'[m.id] = "old" => m.id \in refused'
  <2>1. \A m \in wire' : m.id \in Uuid /\ (age[m.id] = "old" => m.id \in refused)
        BY <1>3 DEF OutboxInv, RequestInv, Request
  <2>2. QED  BY <2>1 DEF Kept
<1>5. \A m \in posts' : age'[m.id] # "old" => m.id \in remembered'
  <2>1. \A m \in posts : m.id \in Uuid /\ (age[m.id] # "old" => m.id \in remembered)
        BY <1>3 DEF OutboxInv, RequestInv, Request
  <2>2. QED  BY <2>1 DEF Kept
<1>6. \A i \in Uuid : age'[i] # "new" => i <= drawn'
      BY DEF OutboxInv, RequestInv
<1>7. QED  BY <1>2, <1>3, <1>4, <1>5, <1>6 DEF OutboxInv, RequestInv

\* The record of the delivery that p serves gets a state that its evidence allows.
LEMMA RecordStays ==
    ASSUME OutboxInv, NEW p \in Process, at[p] # "idle", NEW s \in State \ {"pending"},
           SavesRecord(p, [held[p] EXCEPT !.state = s]), drawn' = drawn, posts' = posts,
           said' = said, \A i \in refused : i \in refused',
           \A i \in Uuid : i # held[p].id => age'[i] = age[i],
           s = "failed" => held[p].id \in refused',
           s \in {"sent", "complete"} => \E m \in posts : m.key = ask[p].key,
           s = "complete" => said[held[p].id] > 0
    PROVE  \A k \in Key : RecordInv(k)'
<1> DEFINE j == ask[p].key
<1>1. /\ j \in Key /\ outbox[j] = held[p] /\ outbox[j] # NoRecord
      /\ \A l \in Key : l # j => outbox'[l] = outbox[l]
      /\ outbox'[j] # NoRecord /\ outbox'[j].state = s /\ outbox'[j].id = held[p].id
      /\ \A l \in Key : outbox[l] # NoRecord => outbox'[l] # NoRecord /\ outbox'[l].id = outbox[l].id
      /\ \A l \in Key : outbox'[l] # NoRecord => outbox[l] # NoRecord
      BY SaveStep, Serving
<1> HIDE DEF j
<1> SUFFICES ASSUME NEW k \in Key, outbox'[k] # NoRecord PROVE RecordInv(k)'
    BY DEF RecordInv
<1>2. /\ RecordInv(k) /\ outbox[k] # NoRecord /\ outbox'[k].id = outbox[k].id
      /\ outbox[k].id \in Uuid
      BY <1>1 DEF OutboxInv, OutboxTypeOK, OutboxRecord
<1>3. \A l \in Key : outbox'[l] # NoRecord /\ outbox'[l].id = outbox'[k].id => l = k
      BY <1>1, <1>2 DEF RecordInv
<1>4. CASE k = j
      BY <1>1, <1>2, <1>3, <1>4 DEF RecordInv, j
<1>5. CASE k # j
  <2>1. outbox'[k] = outbox[k] /\ outbox[k].id # held[p].id
        BY <1>1, <1>2, <1>5 DEF RecordInv
  <2>2. age'[outbox[k].id] = age[outbox[k].id]
        BY <1>2, <2>1
  <2>3. QED  BY <1>2, <1>3, <2>1, <2>2 DEF RecordInv
<1>6. QED  BY <1>4, <1>5

\* A step of the delivery that ends with its record as it was.
LEMMA LostStep ==
    ASSUME OutboxInv, NEW p \in Process, at[p] # "idle", outbox' = outbox, Returns(p),
           UNCHANGED <<profileLock, drawn, feishu, said, binding, results, deaths>>
    PROVE  OutboxInv'
<1>1. UNCHANGED <<outbox, drawn, feishu, said, told, refused>>
      BY DEF results
<1>2. OutboxTypeOK'
      BY EndsTypes DEF OutboxInv, OutboxTypeOK, feishu, results
<1>3. \A q \in Process : ProcessInv(q)'
      BY EndsTypes, IdleStays
<1>4. QED  BY <1>1, <1>2, <1>3, QuietStays DEF OutboxInv

\* A step of the delivery that ends with its record in a state that its evidence
\* allows, whether or not the save was reported as a success.
LEMMA LandedStep ==
    ASSUME OutboxInv, NEW p \in Process, at[p] # "idle", NEW s \in State \ {"pending"},
           SavesRecord(p, [held[p] EXCEPT !.state = s]), Returns(p), wire' \subseteq wire,
           UNCHANGED <<profileLock, drawn, calls, posts, heard, remembered, said, binding, told,
                       deaths>>,
           age' \in [Uuid -> {"new", "tried", "old"}],
           \A i \in Uuid : i # held[p].id => age'[i] = age[i],
           \A i \in Uuid : age'[i] = age[i]
                           \/ (age[i] = "new" /\ age'[i] = "tried" /\ i <= drawn),
           refused' = IF s = "failed" THEN refused \cup {held[p].id} ELSE refused,
           s \in {"sent", "complete"} => \E m \in posts : m.key = ask[p].key,
           s = "complete" => said[held[p].id] > 0
    PROVE  OutboxInv'
<1>1. \A q \in Process : ProcessInv(q)'
      BY EndsTypes, IdleStays
<1>2. s \in State /\ held[p].id \in Uuid
      BY Serving
<1>3. OutboxTypeOK'
  <2>1. outbox' \in [Key -> OutboxRecord \cup {NoRecord}]
        BY <1>2, SaveStep
  <2>2. refused' \subseteq Uuid /\ wire' \subseteq Request
        BY <1>2 DEF OutboxInv, OutboxTypeOK
  <2>3. QED  BY <2>1, <2>2, EndsTypes DEF OutboxInv, OutboxTypeOK
<1>4. Kept
  <2>1. \A k \in Key : outbox[k] # NoRecord =>
           /\ outbox'[k] # NoRecord /\ outbox'[k].id = outbox[k].id
           /\ outbox'[k].text = outbox[k].text /\ outbox'[k].channel = outbox[k].channel
        BY <1>2, SaveStep
  <2>2. QED  BY <2>1 DEF Kept
<1>5. RequestInv' /\ AtMostOnce'
      BY <1>4, RequestStays, OnceStays
<1>6. ToldInv'
      BY <1>2, SaveStep, ToldStays
<1>7. \A k \in Key : RecordInv(k)'
      BY RecordStays
<1>8. QED  BY <1>1, <1>3, <1>5, <1>6, <1>7 DEF OutboxInv

\* A delivery that ends as uncertain or failed.
LEMMA EndsAsStep ==
    ASSUME OutboxInv, NEW p \in Process, at[p] # "idle", NEW s \in {"uncertain", "failed"},
           EndsAs(p, s), wire' \subseteq wire
    PROVE  OutboxInv'
<1>0. /\ UNCHANGED <<profileLock, drawn, calls, posts, heard, remembered, age, said, binding, told,
                     deaths>>
      /\ Returns(p) /\ s \in State \ {"pending"} /\ s \notin {"sent", "complete"}
      BY DEF EndsAs, State
<1>1. CASE /\ SavesRecord(p, [held[p] EXCEPT !.state = s])
           /\ refused' = IF s = "failed" THEN refused \cup {held[p].id} ELSE refused
  <2>1. age \in [Uuid -> {"new", "tried", "old"}]
        BY DEF OutboxInv, OutboxTypeOK
  <2>2. QED  BY <1>0, <1>1, <2>1, LandedStep
<1>2. CASE UNCHANGED <<outbox, refused>>
  <2>1. OutboxTypeOK'
    <3>1. wire' \subseteq Request
          BY DEF OutboxInv, OutboxTypeOK
    <3>2. QED  BY <1>0, <1>2, <3>1, EndsTypes DEF OutboxInv, OutboxTypeOK
  <2>2. Kept
        BY <1>0, <1>2 DEF Kept
  <2>3. RequestInv' /\ AtMostOnce'
        BY <1>0, <2>2, RequestStays, OnceStays
  <2>4. ToldInv' /\ \A k \in Key : RecordInv(k)'
        BY <1>0, <1>2 DEF OutboxInv, ToldInv, RecordInv
  <2>5. \A q \in Process : ProcessInv(q)'
        BY <1>0, EndsTypes, IdleStays
  <2>6. QED  BY <2>1, <2>3, <2>4, <2>5 DEF OutboxInv
<1>3. QED  BY <1>0, <1>1, <1>2 DEF EndsAs

LEMMA EndingStep ==
    ASSUME OutboxInv, NEW p \in Process, Withhold(p) \/ Refuse(p) \/ Reject(p) \/ Doubt(p)
    PROVE  OutboxInv'
<1>1. CASE Withhold(p)
      BY <1>1, EndsAsStep DEF Withhold
<1>2. CASE Refuse(p)
      BY <1>2, EndsAsStep DEF Refuse, MaySend
<1>3. CASE Reject(p)
      BY <1>3, EndsAsStep DEF Reject
<1>4. CASE Doubt(p)
      BY <1>4, EndsAsStep DEF Doubt
<1>5. QED  BY <1>1, <1>2, <1>3, <1>4

\* Where p moves on and its record stays as it is on disk, the others stay idle.
LEMMA OthersStay ==
    ASSUME OutboxInv, NEW p \in Process, at[p] # "idle", NEW x, at' = [at EXCEPT ![p] = x],
           ProcessInv(p)'
    PROVE  \A q \in Process : ProcessInv(q)'
<1>1. \A q \in Process : q # p => at'[q] = "idle"
      BY Serving DEF OutboxInv, OutboxTypeOK
<1>2. QED  BY <1>1, IdleStays

\* A request that leaves after the hour can only follow a recorded failure.
LEMMA LaunchStep ==
    ASSUME OutboxInv, NEW p \in Process, Launch(p)
    PROVE  OutboxInv'
<1> DEFINE r == [held[p] EXCEPT !.state = "sending"]
           i == held[p].id
           request == [call |-> calls + 1, key |-> ask[p].key, id |-> i, text |-> held[p].text,
                       channel |-> held[p].channel]
<1>0. /\ at[p] = "loaded" /\ held[p].state # "sent" /\ ~ Expired(held[p]) /\ calls < MaxCalls
      /\ UNCHANGED <<profileLock, drawn, posts, heard, remembered, said, binding, told, refused,
                     deaths>>
      BY DEF Launch, MaySend, results
<1>1. /\ held[p] \in OutboxRecord /\ i \in Uuid /\ ask[p].key \in Key /\ ask[p] \in Ask
      /\ outbox[ask[p].key] = held[p] /\ held[p] # NoRecord
      /\ r.id = i /\ r.text = held[p].text /\ r.channel = held[p].channel
      /\ r \in OutboxRecord /\ "sending" \in State \ {"pending"}
      BY <1>0, Serving, WithState DEF State
<1>2. calls \in Nat /\ calls + 1 \in 0..MaxCalls /\ calls + 1 \in Call
      BY <1>0, OutboxAssumption DEF OutboxInv, OutboxTypeOK, Call
<1>3. PICK m \in Request :
          /\ m = request /\ m.call = calls + 1 /\ m.key = ask[p].key /\ m.id = i
          /\ m.text = held[p].text /\ m.channel = held[p].channel
  <2>1. held[p].text \in Text /\ held[p].channel \in Chat
        BY <1>1 DEF OutboxRecord
  <2>2. request \in Request
        BY <1>1, <1>2, <2>1 DEF Request
  <2>3. /\ request.call = calls + 1 /\ request.key = ask[p].key /\ request.id = i
        /\ request.text = held[p].text /\ request.channel = held[p].channel
        OBVIOUS
  <2> HIDE DEF request
  <2>4. QED  BY <2>2, <2>3
<1> DEFINE tried == [age EXCEPT ![i] = IF @ = "new" THEN "tried" ELSE @]
<1>4. CASE /\ SavesRecord(p, r) /\ Serves(p, ask[p], r, "sending")
           /\ calls' = calls + 1 /\ call' = [call EXCEPT ![p] = calls + 1]
           /\ wire' = wire \cup {m} /\ age' = tried
  <2>1. /\ \A j \in Uuid : j # i => age'[j] = age[j]
        /\ age'[i] # "new" /\ (age'[i] = "old" => age[i] = "old")
        /\ (age[i] = "old" => age'[i] = "old")
        /\ age' \in [Uuid -> {"new", "tried", "old"}]
        BY <1>1, <1>4 DEF OutboxInv, OutboxTypeOK
  <2>2. /\ outbox' \in [Key -> OutboxRecord \cup {NoRecord}]
        /\ outbox'[ask[p].key] = r /\ r.state = "sending" /\ r # NoRecord
        /\ \A k \in Key : outbox[k] # NoRecord =>
              /\ outbox'[k] # NoRecord /\ outbox'[k].id = outbox[k].id
              /\ outbox'[k].text = outbox[k].text /\ outbox'[k].channel = outbox[k].channel
        /\ \A k \in Key : outbox[k] # NoRecord /\ outbox[k].state = "complete" =>
              outbox'[k] = outbox[k]
    <3>1. at[p] # "idle" /\ "sending" \in State
          BY <1>0, <1>1
    <3>2. QED  BY <1>4, <3>1, SaveStep
  <2> HIDE DEF r
  <2>3. age[i] = "old" => i \in refused
    <3>1. RecordInv(ask[p].key) /\ ProcessInv(p)
          BY <1>1 DEF OutboxInv
    <3>2. held[p].state \in State
          BY <1>0, Serving
    <3>3. age[i] = "old" => held[p].state = "failed"
          BY <1>0, <1>1, <3>1, <3>2 DEF Expired, Unconfirmed, State, RecordInv, ProcessInv
    <3>4. QED  BY <1>1, <3>1, <3>3 DEF RecordInv
  <2>4. Kept
        BY <1>0, <1>1, <2>1, <2>2 DEF Kept
  <2>5. \A n \in Request : Faithful(n) => Faithful(n)'
    <3>1. calls' \in Nat /\ calls <= calls'
          BY <1>2, <1>4
    <3>2. QED  BY <2>4, <3>1, FaithfulStays
  <2>6. OutboxTypeOK'
        BY <1>0, <1>1, <1>2, <1>3, <1>4, <2>1, <2>2 DEF Serves, OutboxInv, OutboxTypeOK
  <2>7. RequestInv'
    <3>1. Faithful(m)' /\ (age'[m.id] = "old" => m.id \in refused')
          BY <1>0, <1>1, <1>2, <1>3, <1>4, <2>1, <2>2, <2>3 DEF Faithful
    <3>2. \A n \in wire : Faithful(n)' /\ (age'[n.id] = "old" => n.id \in refused')
          BY <1>0, <1>1, <2>1, <2>5 DEF OutboxInv, OutboxTypeOK, RequestInv, Request
    <3>3. \A n \in posts : Faithful(n)' /\ (age'[n.id] # "old" => n.id \in remembered')
          BY <1>0, <1>1, <2>1, <2>5 DEF OutboxInv, OutboxTypeOK, RequestInv, Request
    <3>4. \A n \in heard' : n <= calls'
          BY <1>0, <1>2, <1>4 DEF OutboxInv, OutboxTypeOK, RequestInv, Call
    <3>5. \A j \in Uuid : age'[j] # "new" => j <= drawn'
          BY <1>0, <1>1, <2>1 DEF OutboxInv, RequestInv, RecordInv
    <3>6. QED  BY <1>0, <1>4, <3>1, <3>2, <3>3, <3>4, <3>5 DEF OutboxInv, RequestInv
  <2>8. ToldInv'
        BY <1>0, <2>2, ToldStays
  <2>9. AtMostOnce'
        BY <1>0, <2>4, OnceStays
  <2>10. \A k \in Key : RecordInv(k)'
        BY <1>0, <1>1, <1>4, <2>1, RecordStays DEF r
  <2>11. ProcessInv(p)'
    <3>1. /\ at'[p] = "sending" /\ ask'[p] = ask[p] /\ held'[p] = r /\ call'[p] = calls + 1
          BY <1>2, <1>4 DEF Serves, OutboxInv, OutboxTypeOK
    <3>2. \A n \in wire' : n.call = calls + 1 => n.key = ask[p].key
          BY <1>2, <1>3, <1>4 DEF OutboxInv, OutboxTypeOK, RequestInv, Faithful, Request, Call
    <3>3. calls + 1 \notin heard'
          BY <1>0, <1>2 DEF OutboxInv, OutboxTypeOK, RequestInv, Call
    <3>4. profileLock' = p /\ held[p].text = ask[p].text /\ held[p].channel = ask[p].channel
          BY <1>0 DEF OutboxInv, ProcessInv
    <3>5. call'[p] <= calls'
          BY <1>2, <1>4, <3>1
    <3>6. QED  BY <1>1, <2>2, <3>1, <3>2, <3>3, <3>4, <3>5 DEF ProcessInv
  <2>12. \A q \in Process : ProcessInv(q)'
        BY <1>0, <1>4, <2>11, OthersStay DEF Serves
  <2>13. QED  BY <2>6, <2>7, <2>8, <2>9, <2>10, <2>12 DEF OutboxInv
<1>5. CASE SavesRecord(p, r) /\ age' = tried /\ Returns(p) /\ UNCHANGED <<calls, wire>>
  <2>1. /\ age' \in [Uuid -> {"new", "tried", "old"}]
        /\ \A j \in Uuid : j # i => age'[j] = age[j]
        /\ age'[i] = age[i] \/ (age[i] = "new" /\ age'[i] = "tried")
        BY <1>1, <1>5 DEF OutboxInv, OutboxTypeOK
  <2>2. i <= drawn
        BY <1>1 DEF OutboxInv, RecordInv
  <2>3. \A j \in Uuid : age'[j] = age[j] \/ (age[j] = "new" /\ age'[j] = "tried" /\ j <= drawn)
        BY <2>1, <2>2
  <2>4. QED  BY <1>0, <1>1, <1>5, <2>1, <2>3, LandedStep
<1>6. CASE UNCHANGED <<outbox, calls, wire, age>> /\ Returns(p)
      BY <1>0, <1>6, LostStep DEF feishu, results
<1>7. QED  BY <1>1, <1>3, <1>4, <1>5, <1>6 DEF Launch

LEMMA AnswerStep ==
    ASSUME OutboxInv, NEW p \in Process, Answer(p)
    PROVE  OutboxInv'
<1> DEFINE r == [held[p] EXCEPT !.state = "sent"]
<1>0. /\ at[p] = "sending" /\ call[p] \in heard
      /\ UNCHANGED <<profileLock, drawn, feishu, said, binding, results, deaths>>
      BY DEF Answer
<1>1. CASE SavesRecord(p, r) /\ Serves(p, ask[p], r, "loaded") /\ call' = [call EXCEPT ![p] = 0]
  <2>1. /\ "sent" \in State \ {"pending"} /\ held[p] \in OutboxRecord /\ r \in OutboxRecord /\ ask[p] \in Ask
        /\ r.text = held[p].text /\ r.channel = held[p].channel /\ r.state = "sent"
        BY <1>0, Serving, WithState DEF State
  <2>2. /\ outbox' \in [Key -> OutboxRecord \cup {NoRecord}]
        /\ outbox'[ask[p].key] = r /\ r # NoRecord
        /\ \A k \in Key : outbox[k] # NoRecord =>
              /\ outbox'[k] # NoRecord /\ outbox'[k].id = outbox[k].id
              /\ outbox'[k].text = outbox[k].text /\ outbox'[k].channel = outbox[k].channel
        /\ \A k \in Key : outbox[k] # NoRecord /\ outbox[k].state = "complete" =>
              outbox'[k] = outbox[k]
    <3>1. at[p] # "idle" /\ "sent" \in State
          BY <1>0, <2>1
    <3>2. QED  BY <1>1, <3>1, SaveStep
  <2>3. \E m \in posts : m.key = ask[p].key
        BY <1>0 DEF OutboxInv, ProcessInv
  <2>4. \A k \in Key : RecordInv(k)'
        BY <1>0, <1>1, <2>1, <2>3, RecordStays DEF feishu, results
  <2> HIDE DEF r
  <2>5. OutboxTypeOK'
        BY <1>0, <1>1, <2>1, <2>2, OutboxAssumption
           DEF Serves, OutboxInv, OutboxTypeOK, feishu, results
  <2>6. Kept
        BY <1>0, <2>2 DEF Kept, feishu, results
  <2>7. RequestInv' /\ AtMostOnce' /\ ToldInv'
        BY <1>0, <2>2, <2>6, RequestStays, OnceStays, ToldStays DEF feishu, results
  <2>8. ProcessInv(p)'
    <3>1. at'[p] = "loaded" /\ ask'[p] = ask[p] /\ held'[p] = r
          BY <1>1 DEF Serves, OutboxInv, OutboxTypeOK
    <3>2. profileLock' = p /\ held[p].text = ask[p].text /\ held[p].channel = ask[p].channel
          BY <1>0 DEF OutboxInv, ProcessInv
    <3>3. QED  BY <2>1, <2>2, <3>1, <3>2 DEF ProcessInv
  <2>9. \A q \in Process : ProcessInv(q)'
        BY <1>0, <1>1, <2>8, OthersStay DEF Serves
  <2>10. QED  BY <2>4, <2>5, <2>7, <2>9 DEF OutboxInv
<1>2. CASE SavesRecord(p, r) /\ Returns(p)
  <2>1. /\ "sent" \in State \ {"pending"} /\ "sent" \notin {"failed", "complete"}
        /\ age \in [Uuid -> {"new", "tried", "old"}]
        /\ \E m \in posts : m.key = ask[p].key
        BY <1>0 DEF State, OutboxInv, OutboxTypeOK, ProcessInv
  <2>2. QED  BY <1>0, <1>2, <2>1, LandedStep DEF feishu, results
<1>3. CASE UNCHANGED outbox /\ Returns(p)
      BY <1>0, <1>3, LostStep
<1>4. QED  BY <1>1, <1>2, <1>3 DEF Answer, SaveFails

LEMMA ReadStep ==
    ASSUME OutboxInv, NEW p \in Process, ReadHistory(p)
    PROVE  OutboxInv'
<1> DEFINE x == IF Known(held[p].id) THEN "said" ELSE "unsaid"
<1>0. /\ at[p] = "loaded" /\ held[p].state = "sent" /\ at' = [at EXCEPT ![p] = x]
      /\ UNCHANGED <<outbox, profileLock, ask, held, call, drawn, feishu, said, binding, told,
                     refused, deaths>>
      BY DEF ReadHistory, results
<1>1. OutboxTypeOK'
      BY <1>0 DEF OutboxInv, OutboxTypeOK, feishu
<1>2. ProcessInv(p)'
  <2>1. at'[p] = x /\ held[p].id \in Uuid
        BY <1>0, Serving DEF OutboxInv, OutboxTypeOK
  <2>2. Known(held[p].id) <=> said[held[p].id] > 0
        BY DEF Known
  <2>3. said[held[p].id] \in Nat
        BY <2>1 DEF OutboxInv, OutboxTypeOK
  <2>4. QED  BY <1>0, <2>1, <2>2, <2>3 DEF OutboxInv, ProcessInv
<1> HIDE DEF x
<1>3. \A q \in Process : ProcessInv(q)'
      BY <1>0, <1>2, OthersStay
<1>4. QED  BY <1>0, <1>1, <1>3, QuietStays DEF OutboxInv

LEMMA AppendStep ==
    ASSUME OutboxInv, NEW p \in Process, AppendHistory(p)
    PROVE  OutboxInv'
<1>0. at[p] = "unsaid" /\ UNCHANGED <<outbox, profileLock, drawn, feishu, binding, results, deaths>>
      BY DEF AppendHistory
<1>1. CASE /\ said' = [said EXCEPT ![held[p].id] = @ + 1]
           /\ at' = [at EXCEPT ![p] = "said"] /\ UNCHANGED <<ask, held, call>>
  <2>1. held[p].id \in Uuid /\ said[held[p].id] = 0
        BY <1>0, Serving DEF OutboxInv, ProcessInv
  <2>2. /\ said' \in [Uuid -> Nat] /\ said'[held[p].id] = 1
        /\ \A i \in Uuid : said'[i] >= said[i] /\ said'[i] <= 1
        BY <1>1, <2>1 DEF OutboxInv, OutboxTypeOK, AtMostOnce, SaidOnce
  <2>3. OutboxTypeOK'
        BY <1>0, <1>1, <2>2 DEF OutboxInv, OutboxTypeOK, feishu, results
  <2>4. RequestInv' /\ ToldInv' /\ AtMostOnce'
        BY <1>0, <2>2 DEF OutboxInv, RequestInv, Faithful, ToldInv, AtMostOnce, PostedOnce,
                          SaidOnce, feishu, results
  <2>5. \A k \in Key : RecordInv(k)'
    <3> SUFFICES ASSUME NEW k \in Key, outbox[k] # NoRecord PROVE RecordInv(k)'
        BY <1>0 DEF RecordInv
    <3>1. outbox[k].id \in Uuid /\ said[outbox[k].id] \in Nat
          BY DEF OutboxInv, OutboxTypeOK, OutboxRecord
    <3>2. said[outbox[k].id] > 0 => said'[outbox[k].id] > 0
          BY <2>2, <3>1 DEF OutboxTypeOK
    <3>3. QED  BY <1>0, <3>2 DEF OutboxInv, RecordInv, feishu, results
  <2>6. ProcessInv(p)'
    <3>1. at'[p] = "said"
          BY <1>1 DEF OutboxInv, OutboxTypeOK
    <3>2. QED  BY <1>0, <1>1, <2>2, <3>1 DEF OutboxInv, ProcessInv
  <2>7. \A q \in Process : ProcessInv(q)'
        BY <1>0, <1>1, <2>6, OthersStay
  <2>8. QED  BY <2>3, <2>4, <2>5, <2>7 DEF OutboxInv
<1>2. CASE UNCHANGED said /\ Returns(p)
      BY <1>0, <1>2, LostStep
<1>3. QED  BY <1>1, <1>2 DEF AppendHistory

\* Whoever is told: the message is posted and in the history.
LEMMA CompleteStep ==
    ASSUME OutboxInv, NEW p \in Process, Complete(p)
    PROVE  OutboxInv'
<1> DEFINE r == [held[p] EXCEPT !.state = "complete"]
<1>0. at[p] = "said" /\ UNCHANGED <<profileLock, drawn, feishu, said, binding, refused, deaths>>
      BY DEF Complete
<1>1. CASE SavesRecord(p, r) /\ told' = told \cup {ask[p]} /\ Returns(p)
  <2>1. /\ "complete" \in State \ {"pending"} /\ "complete" \in State /\ at[p] # "idle"
        /\ ask[p] \in Ask /\ ask[p].key \in Key /\ outbox[ask[p].key] = held[p]
        /\ held[p] # NoRecord
        BY <1>0, Serving DEF State
  <2>2. /\ outbox' \in [Key -> OutboxRecord \cup {NoRecord}]
        /\ outbox'[ask[p].key] # NoRecord /\ outbox'[ask[p].key].state = "complete"
        /\ outbox'[ask[p].key].text = held[p].text
        /\ outbox'[ask[p].key].channel = held[p].channel
        /\ \A k \in Key : outbox[k] # NoRecord =>
              /\ outbox'[k] # NoRecord /\ outbox'[k].id = outbox[k].id
              /\ outbox'[k].text = outbox[k].text /\ outbox'[k].channel = outbox[k].channel
        /\ \A k \in Key : outbox[k] # NoRecord /\ outbox[k].state = "complete" =>
              outbox'[k] = outbox[k]
        BY <1>1, <2>1, SaveStep
  <2>3. /\ held[p].text = ask[p].text /\ held[p].channel = ask[p].channel
        /\ held[p].state = "sent" /\ said[held[p].id] > 0
        /\ \E m \in posts : m.key = ask[p].key
        BY <1>0, <2>1 DEF OutboxInv, ProcessInv, RecordInv
  <2>4. \A k \in Key : RecordInv(k)'
        BY <1>0, <1>1, <2>1, <2>3, RecordStays DEF feishu
  <2>5. OutboxTypeOK'
        BY <1>0, <1>1, <2>1, <2>2, EndsTypes DEF OutboxInv, OutboxTypeOK, feishu
  <2>6. Kept
        BY <1>0, <2>2 DEF Kept, feishu
  <2>7. RequestInv' /\ AtMostOnce'
        BY <1>0, <2>6, RequestStays, OnceStays DEF feishu
  <2>8. ToldInv'
    <3>1. \A a \in told : a.key \in Key
          BY DEF OutboxInv, OutboxTypeOK, Ask
    <3>2. QED  BY <1>1, <2>2, <2>3, <3>1 DEF OutboxInv, ToldInv
  <2>9. \A q \in Process : ProcessInv(q)'
        BY <1>1, <2>1, EndsTypes, IdleStays
  <2>10. QED  BY <2>4, <2>5, <2>7, <2>8, <2>9 DEF OutboxInv
<1>2. CASE SavesRecord(p, r) /\ Returns(p) /\ UNCHANGED told
  <2>1. /\ "complete" \in State \ {"pending"} /\ "complete" # "failed"
        /\ age \in [Uuid -> {"new", "tried", "old"}] /\ said[held[p].id] > 0
        BY <1>0 DEF State, OutboxInv, OutboxTypeOK, ProcessInv
  <2>2. \E m \in posts : m.key = ask[p].key
        BY <1>0, Serving DEF OutboxInv, ProcessInv, RecordInv
  <2>3. QED  BY <1>0, <1>2, <2>1, <2>2, LandedStep DEF feishu
<1>3. CASE UNCHANGED outbox /\ Returns(p) /\ UNCHANGED told
      BY <1>0, <1>3, LostStep DEF results
<1>4. QED  BY <1>1, <1>2, <1>3 DEF Complete, SaveFails

\* A request that lands after the hour follows a recorded failure, one that lands
\* within it is the first, or a duplicate.
LEMMA LandStep ==
    ASSUME OutboxInv, NEW m \in wire, Land(m)
    PROVE  OutboxInv'
<1>0. /\ wire' = wire \ {m}
      /\ posts' = IF m.id \in remembered THEN posts ELSE posts \cup {m}
      /\ remembered' = remembered \cup {m.id} /\ heard' = heard \cup {m.call}
      /\ UNCHANGED <<outbox, profileLock, at, ask, held, call, drawn, calls, age, said, binding, told,
                     refused, deaths>>
      BY DEF Land, service, results
<1>1. /\ m \in Request /\ Faithful(m) /\ (age[m.id] = "old" => m.id \in refused)
      /\ m.id \in Uuid /\ m.key \in Key /\ m.call \in Call /\ calls \in Nat
      BY DEF OutboxInv, OutboxTypeOK, RequestInv, Request
<1>2. \A n \in posts : n \in Request /\ Faithful(n) /\ n.key \in Key /\ n.id \in Uuid
      BY DEF OutboxInv, OutboxTypeOK, RequestInv, Request
<1>3. OutboxTypeOK'
      BY <1>0, <1>1 DEF OutboxInv, OutboxTypeOK
<1>4. \A n \in Request : Faithful(n) => Faithful(n)'
      BY <1>0 DEF Faithful
<1>5. \E n \in posts' : n.key = m.key /\ n.id = m.id
  <2>1. CASE m.id \in remembered
    <3>1. PICK n \in posts : n.id = m.id
          BY <2>1 DEF OutboxInv, RequestInv
    <3>2. n.key = m.key
          BY <1>1, <1>2, <3>1 DEF OutboxInv, Faithful, RecordInv
    <3>3. QED  BY <1>0, <3>1, <3>2
  <2>2. CASE m.id \notin remembered
        BY <1>0, <2>2
  <2>3. QED  BY <2>1, <2>2
<1>6. RequestInv'
  <2>1. \A n \in wire' : Faithful(n)' /\ (age'[n.id] = "old" => n.id \in refused')
        BY <1>0, <1>4 DEF OutboxInv, OutboxTypeOK, RequestInv
  <2>2. \A n \in posts' : Faithful(n)' /\ (age'[n.id] # "old" => n.id \in remembered')
        BY <1>0, <1>1, <1>4 DEF OutboxInv, OutboxTypeOK, RequestInv
  <2>3. \A i \in remembered' : \E n \in posts' : n.id = i
        BY <1>0, <1>5 DEF OutboxInv, RequestInv
  <2>4. \A n \in heard' : n <= calls'
        BY <1>0, <1>1 DEF OutboxInv, RequestInv, Faithful
  <2>5. \A i \in Uuid : age'[i] # "new" => i <= drawn'
        BY <1>0 DEF OutboxInv, RequestInv
  <2>6. QED  BY <2>1, <2>2, <2>3, <2>4, <2>5 DEF RequestInv
<1>7. AtMostOnce'
  <2>1. CASE m.id \in remembered
        BY <1>0, <2>1 DEF OutboxInv, AtMostOnce, PostedOnce, SaidOnce
  <2>2. CASE m.id \notin remembered
    <3>1. ASSUME NEW n \in posts, n.key = m.key
          PROVE  n.id = m.id /\ age[m.id] = "old" /\ m.id \in refused
      <4>1. n.id = m.id
            BY <1>1, <1>2, <3>1 DEF Faithful
      <4>2. age[m.id] # "old" => m.id \in remembered
            BY <4>1 DEF OutboxInv, RequestInv
      <4>3. QED  BY <1>1, <2>2, <4>1, <4>2
    <3>2. \A n, o \in posts' :
              n.key = o.key /\ (age'[n.id] # "old" \/ n.id \notin refused') => n = o
      <4> SUFFICES ASSUME NEW n \in posts', NEW o \in posts', n.key = o.key,
                          age[n.id] # "old" \/ n.id \notin refused
                   PROVE  n = o
          BY <1>0
      <4>1. n \in posts \cup {m} /\ o \in posts \cup {m}
            BY <1>0
      <4>2. CASE n \in posts /\ o \in posts
            BY <4>2 DEF OutboxInv, AtMostOnce, PostedOnce
      <4>3. CASE n = m \/ o = m
            BY <3>1, <4>1, <4>3
      <4>4. QED  BY <4>1, <4>2, <4>3
    <3>3. QED  BY <1>0, <3>2 DEF OutboxInv, AtMostOnce, PostedOnce, SaidOnce
  <2>3. QED  BY <2>1, <2>2
<1>8. ToldInv' /\ \A k \in Key : RecordInv(k)'
      BY <1>0 DEF OutboxInv, ToldInv, RecordInv
<1>9. ASSUME NEW q \in Process PROVE ProcessInv(q)'
  <2>1. ASSUME at[q] = "sending", call[q] \in heard'
        PROVE  \E n \in posts' : n.key = ask[q].key
    <3>1. CASE call[q] = m.call
          BY <1>5, <2>1, <3>1 DEF OutboxInv, ProcessInv
    <3>2. CASE call[q] \in heard
          BY <1>0, <2>1, <3>2 DEF OutboxInv, ProcessInv
    <3>3. QED  BY <1>0, <2>1, <3>1, <3>2
  <2>2. QED  BY <1>0, <2>1 DEF OutboxInv, ProcessInv
<1>10. QED  BY <1>3, <1>6, <1>7, <1>8, <1>9 DEF OutboxInv

LEMMA LoseStep ==
    ASSUME OutboxInv, NEW m \in wire, Lose(m)
    PROVE  OutboxInv'
<1>0. /\ wire' \subseteq wire
      /\ UNCHANGED <<outbox, profileLock, at, ask, held, call, drawn, calls, posts, heard, remembered,
                     age, said, binding, told, refused, deaths>>
      BY DEF Lose, service, results
<1>1. OutboxTypeOK'
      BY <1>0 DEF OutboxInv, OutboxTypeOK
<1>2. Kept
      BY <1>0 DEF Kept
<1>3. RequestInv' /\ AtMostOnce'
      BY <1>0, <1>2, RequestStays, OnceStays
<1>4. ToldInv' /\ \A k \in Key : RecordInv(k)'
      BY <1>0 DEF OutboxInv, ToldInv, RecordInv
<1>5. \A q \in Process : ProcessInv(q)'
      BY <1>0 DEF OutboxInv, ProcessInv
<1>6. QED  BY <1>1, <1>3, <1>4, <1>5 DEF OutboxInv

\* The hour of an id passes when none of its requests is on its way.
LEMMA HourStep ==
    ASSUME OutboxInv, NEW i \in Uuid, Hour(i)
    PROVE  OutboxInv'
<1>0. /\ age[i] # "new" /\ \A m \in wire : m.id # i
      /\ age' = [age EXCEPT ![i] = "old"] /\ remembered' = remembered \ {i}
      /\ UNCHANGED <<outbox, profileLock, at, ask, held, call, drawn, calls, wire, posts, heard, said,
                     binding, told, refused, deaths>>
      BY DEF Hour, service, results
<1>1. age'[i] = "old" /\ \A j \in Uuid : j # i => age'[j] = age[j]
      BY <1>0 DEF OutboxInv, OutboxTypeOK
<1>2. OutboxTypeOK'
      BY <1>0 DEF OutboxInv, OutboxTypeOK
<1>3. Kept
      BY <1>0, <1>1 DEF Kept
<1>4. RequestInv'
  <2>1. calls' \in Nat /\ calls <= calls'
        BY <1>0 DEF OutboxInv, OutboxTypeOK
  <2>2. \A m \in Request : Faithful(m) => Faithful(m)'
        BY <1>3, <2>1, FaithfulStays
  <2>3. \A m \in wire : m \in Request /\ m.id \in Uuid /\ age'[m.id] = age[m.id]
        BY <1>0, <1>1 DEF OutboxInv, OutboxTypeOK, Request
  <2>4. \A m \in posts : m \in Request /\ m.id \in Uuid
        BY DEF OutboxInv, OutboxTypeOK, Request
  <2>5. \A m \in posts : age'[m.id] # "old" => m.id \in remembered'
        BY <1>0, <1>1, <2>4 DEF OutboxInv, RequestInv
  <2>6. \A j \in Uuid : age'[j] # "new" => j <= drawn'
        BY <1>0, <1>1 DEF OutboxInv, RequestInv
  <2>7. QED  BY <1>0, <2>2, <2>3, <2>4, <2>5, <2>6 DEF OutboxInv, RequestInv
<1>5. ToldInv' /\ AtMostOnce'
      BY <1>0, <1>3, OnceStays DEF OutboxInv, ToldInv
<1>6. \A k \in Key : RecordInv(k)'
  <2> SUFFICES ASSUME NEW k \in Key, outbox[k] # NoRecord PROVE RecordInv(k)'
      BY <1>0 DEF RecordInv
  <2>1. RecordInv(k) /\ outbox[k].id \in Uuid
        BY DEF OutboxInv, OutboxTypeOK, OutboxRecord
  <2>2. outbox[k].state = "pending" => age'[outbox[k].id] = "new"
        BY <1>0, <1>1, <2>1 DEF RecordInv
  <2>3. QED  BY <1>0, <2>1, <2>2 DEF RecordInv
<1>7. \A q \in Process : ProcessInv(q)'
      BY <1>0 DEF OutboxInv, ProcessInv
<1>8. QED  BY <1>2, <1>4, <1>5, <1>6, <1>7 DEF OutboxInv

LEMMA OutboxStep == OutboxInv /\ [OutboxNext]_outboxVars => OutboxInv'
<1> SUFFICES ASSUME OutboxInv, [OutboxNext]_outboxVars PROVE OutboxInv'
    OBVIOUS
<1>1. ASSUME NEW p \in Process, Acquire(p) \/ Release(p) \/ ProcessDies(p) PROVE OutboxInv'
      BY <1>1, LockStep
<1>2. ASSUME NEW p \in Process, NEW a \in Ask, Take(p, a) PROVE OutboxInv'
      BY <1>2, TakeStep
<1>3. ASSUME NEW p \in Process, Withhold(p) \/ Refuse(p) \/ Reject(p) \/ Doubt(p)
      PROVE  OutboxInv'
      BY <1>3, EndingStep
<1>4. ASSUME NEW p \in Process, Launch(p) PROVE OutboxInv'
      BY <1>4, LaunchStep
<1>5. ASSUME NEW p \in Process, Answer(p) PROVE OutboxInv'
      BY <1>5, AnswerStep
<1>6. ASSUME NEW p \in Process, ReadHistory(p) PROVE OutboxInv'
      BY <1>6, ReadStep
<1>7. ASSUME NEW p \in Process, AppendHistory(p) PROVE OutboxInv'
      BY <1>7, AppendStep
<1>8. ASSUME NEW p \in Process, Complete(p) PROVE OutboxInv'
      BY <1>8, CompleteStep
<1>9. ASSUME NEW m \in wire, Land(m) PROVE OutboxInv'
      BY <1>9, LandStep
<1>10. ASSUME NEW m \in wire, Lose(m) PROVE OutboxInv'
      BY <1>10, LoseStep
<1>11. ASSUME NEW i \in Uuid, Hour(i) PROVE OutboxInv'
      BY <1>11, HourStep
<1>12. ASSUME NEW c \in Chat, Rebind(c) PROVE OutboxInv'
      BY <1>12, RebindStep
<1>13. CASE UNCHANGED outboxVars
      BY <1>13 DEF outboxVars, OutboxInv, OutboxTypeOK, RequestInv, Faithful, ToldInv, AtMostOnce,
                   PostedOnce, SaidOnce, RecordInv, ProcessInv
<1>14. QED  BY <1>1, <1>2, <1>3, <1>4, <1>5, <1>6, <1>7, <1>8, <1>9, <1>10, <1>11, <1>12, <1>13
            DEF OutboxNext
-----------------------------------------------------------------------------
\* Outbox records, requests and the steps of every process have their types.
THEOREM OutboxTypeCorrect == OutboxSpec => []OutboxTypeOK
<1>1. OutboxInv => OutboxTypeOK
      BY DEF OutboxInv
<1>2. QED  BY <1>1, OutboxInitially, OutboxStep, PTL DEF OutboxSpec

\* DeliveryService::send, through all its retries and crashes: a key makes one
\* message in the chat within Feishu's hour, and after it unless an attempt was
\* recorded as failed; the session history gets the message once.
THEOREM AtMostOnceAlways == OutboxSpec => []AtMostOnce
<1>1. OutboxInv => AtMostOnce
      BY DEF OutboxInv
<1>2. QED  BY <1>1, OutboxInitially, OutboxStep, PTL DEF OutboxSpec

\* A caller of DeliveryService::send that is told "complete" finds its text in
\* the chat it asked for and in the history of the session.
THEOREM CompleteIsTrueAlways == OutboxSpec => []CompleteIsTrue
<1>1. OutboxInv => CompleteIsTrue
  <2> SUFFICES ASSUME OutboxInv, NEW a \in told
               PROVE  /\ \E m \in posts : m.key = a.key /\ m.text = a.text /\ m.channel = a.channel
                      /\ said[outbox[a.key].id] > 0
      BY DEF CompleteIsTrue
  <2>1. a.key \in Key /\ RecordInv(a.key)
        BY DEF OutboxInv, OutboxTypeOK, Ask
  <2>2. /\ outbox[a.key] # NoRecord /\ outbox[a.key].state = "complete"
        /\ outbox[a.key].text = a.text /\ outbox[a.key].channel = a.channel
        BY DEF OutboxInv, ToldInv
  <2>3. PICK m \in posts : m.key = a.key
        BY <2>1, <2>2 DEF RecordInv
  <2>4. m.text = a.text /\ m.channel = a.channel
        BY <2>2, <2>3 DEF OutboxInv, RequestInv, Faithful
  <2>5. QED  BY <2>1, <2>2, <2>3, <2>4 DEF RecordInv
<1>2. QED  BY <1>1, OutboxInitially, OutboxStep, PTL DEF OutboxSpec
=============================================================================
