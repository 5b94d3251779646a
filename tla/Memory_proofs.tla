---------------------------- MODULE Memory_proofs ----------------------------
(***************************************************************************)
(* The thread's memory, for any numbers of turns, viewers, dropped queues, *)
(* clears, messages, summaries and crashes.                                *)
(*                                                                         *)
(* Always holds in every state: the types, which pcs a client has, that a  *)
(* turn or a clear past its start holds the run lock, and that no message  *)
(* is both in the ledger and forgotten.  Quiet holds until two writers of  *)
(* the indices have overlapped (raced): each summary covers what it says   *)
(* it covers, summaries age in their order, the last one of mid_term       *)
(* covers the most, each indexed file exists, the copies of the indices    *)
(* that clients are about to write are what the indices are, and a turn's  *)
(* agent knows every message of the ledger.                                *)
(*                                                                         *)
(* The actions come three times: what a step does to Always (Store for a   *)
(* step that writes, and Keeps), and what it does to Quiet.                *)
(***************************************************************************)
EXTENDS Memory, WellFoundedInduction, FiniteSetTheorems, TLAPS

-----------------------------------------------------------------------------
(* Numbers: the least of some, and induction. *)

Less == OpToRel(<, Nat)

LEMMA LessIsLess == IsWellFoundedOn(Less, Nat) /\ \A x, y \in Nat : <<y, x>> \in Less <=> y < x
<1>1. IsWellFoundedOn(Less, Nat)
  BY NatLessThanWellFounded, Zenon DEF Less
<1>2. \A x, y \in Nat : <<y, x>> \in Less <=> y < x
  BY DEF Less, OpToRel
<1> QED BY <1>1, <1>2

LEMMA OldestOfSome ==
    ASSUME NEW S \in SUBSET Nat, S # {}
    PROVE  Oldest(S) \in S /\ \A y \in S : Oldest(S) <= y
<1>1. PICK x \in S : \A y \in S : ~ (<<y, x>> \in Less)
  BY LessIsLess, WFMin
<1>2. \A y \in S : x <= y
  <2>1. SUFFICES ASSUME NEW y \in S PROVE x <= y OBVIOUS
  <2>2. x \in Nat /\ y \in Nat OBVIOUS
  <2>3. ~ (y < x) BY <1>1, <2>2, LessIsLess
  <2> QED BY <2>2, <2>3
<1> QED BY <1>1, <1>2 DEF Oldest

LEMMA FromZero ==
    ASSUME NEW P, 0 \in P, \A n \in Nat : n \in P => n + 1 \in P
    PROVE  \A n \in Nat : n \in P
<1> DEFINE T == {n \in Nat : n \notin P}
           o == Oldest(T)
<1>1. SUFFICES ASSUME T # {} PROVE FALSE OBVIOUS
<1>2. o \in T /\ \A y \in T : o <= y
  <2>1. T \in SUBSET Nat OBVIOUS
  <2> HIDE DEF T
  <2> QED BY <1>1, <2>1, OldestOfSome
<1> HIDE DEF o
<1>3. o - 1 \in Nat /\ (o - 1) + 1 = o /\ o - 1 \notin T
  BY <1>2
<1> QED BY <1>2, <1>3

LEMMA NewestOfSome ==
    ASSUME NEW n \in Nat, NEW S \in SUBSET (0..n), S # {}
    PROVE  Newest(S) \in S /\ \A y \in S : y <= Newest(S)
<1> DEFINE HasMax(S1) == S1 # {} => \E x \in S1 : \A y \in S1 : y <= x
           P == {m \in Nat : \A S1 \in SUBSET (0..m) : HasMax(S1)}
<1>1. 0 \in P
  <2>1. SUFFICES ASSUME NEW S1 \in SUBSET (0..0) PROVE HasMax(S1) OBVIOUS
  <2>2. \A x, y \in S1 : y <= x BY <2>1
  <2> QED BY <2>2
<1>2. \A m \in Nat : m \in P => m + 1 \in P
  <2>1. SUFFICES ASSUME NEW m \in Nat, m \in P, NEW S1 \in SUBSET (0..(m + 1))
                 PROVE  HasMax(S1)
    OBVIOUS
  <2>2. CASE m + 1 \in S1
    <3>1. \A y \in S1 : y <= m + 1 OBVIOUS
    <3> QED BY <2>2, <3>1
  <2>3. CASE m + 1 \notin S1
    <3>1. S1 \in SUBSET (0..m) BY <2>3
    <3> QED BY <2>1, <3>1
  <2> QED BY <2>2, <2>3
<1>3. n \in P
  <2> HIDE DEF P
  <2> QED BY <1>1, <1>2, FromZero
<1> QED BY <1>3 DEF Newest

IsFrom(from, s, A, n) ==
    from = [i \in 0..n |-> IF i = 0 THEN <<>>
                           ELSE IF s[i].id \in A THEN Append(from[i - 1], s[i]) ELSE from[i - 1]]

LEMMA FromExists ==
    ASSUME NEW s, NEW A, NEW m \in Nat
    PROVE  \E from : IsFrom(from, s, A, m)
<1> DEFINE P == {n \in Nat : \E from : IsFrom(from, s, A, n)}
<1>1. 0 \in P
  <2>1. IsFrom([i \in 0..0 |-> <<>>], s, A, 0) BY DEF IsFrom
  <2> QED BY <2>1
<1>2. \A n \in Nat : n \in P => n + 1 \in P
  <2>1. SUFFICES ASSUME NEW n \in Nat, NEW f, IsFrom(f, s, A, n)
                 PROVE  \E from : IsFrom(from, s, A, n + 1)
    OBVIOUS
  <2> DEFINE g == [i \in 0..(n + 1) |->
                     IF i = n + 1
                     THEN IF s[i].id \in A THEN Append(f[i - 1], s[i]) ELSE f[i - 1]
                     ELSE f[i]]
  <2>2. \A i \in 0..(n + 1) : i # 0 => g[i - 1] = f[i - 1] OBVIOUS
  <2>3. \A i \in 0..n : f[i] = IF i = 0 THEN <<>>
                          ELSE IF s[i].id \in A THEN Append(f[i - 1], s[i]) ELSE f[i - 1]
    BY <2>1 DEF IsFrom
  <2>4. \A i \in 0..(n + 1) : g[i] = IF i = 0 THEN <<>>
                          ELSE IF s[i].id \in A THEN Append(g[i - 1], s[i]) ELSE g[i - 1]
    <3>1. SUFFICES ASSUME NEW i \in 0..(n + 1)
                   PROVE  g[i] = IF i = 0 THEN <<>>
                          ELSE IF s[i].id \in A THEN Append(g[i - 1], s[i]) ELSE g[i - 1]
      OBVIOUS
    <3>2. CASE i = n + 1 BY <2>2, <3>2
    <3>3. CASE i \in 0..n
      <4>1. g[i] = f[i] BY <3>3
      <4> HIDE DEF g
      <4> QED BY <2>2, <2>3, <3>3, <4>1
    <3> QED BY <3>2, <3>3
  <2>5. IsFrom(g, s, A, n + 1)
    <3>1. g = [i \in 0..(n + 1) |-> g[i]] OBVIOUS
    <3> HIDE DEF g
    <3> QED BY <2>4, <3>1 DEF IsFrom
  <2> QED BY <2>5
<1>3. m \in P
  <2> HIDE DEF P
  <2> QED BY <1>1, <1>2, FromZero
<1> QED BY <1>3

Step(f, s, A) ==
    /\ f[0] = <<>>
    /\ \A i \in 1..Len(s) : f[i] = IF s[i].id \in A THEN Append(f[i - 1], s[i]) ELSE f[i - 1]

LEMMA EntriesStepwise ==
    ASSUME NEW s \in Seq(Entry), NEW A
    PROVE  \E f : Step(f, s, A) /\ EntriesIn(s, A) = f[Len(s)]
<1> DEFINE f == CHOOSE from : IsFrom(from, s, A, Len(s))
<1>1. EntriesIn(s, A) = f[Len(s)] BY DEF EntriesIn, IsFrom
<1>2. IsFrom(f, s, A, Len(s))
  <2>1. Len(s) \in Nat OBVIOUS
  <2> QED BY <2>1, FromExists
<1> HIDE DEF f
<1>3. Step(f, s, A)
  <2>1. Len(s) \in Nat OBVIOUS
  <2>2. \A i \in 0..Len(s) : f[i] = IF i = 0 THEN <<>>
                           ELSE IF s[i].id \in A THEN Append(f[i - 1], s[i]) ELSE f[i - 1]
    BY <1>2 DEF IsFrom
  <2> QED BY <2>1, <2>2 DEF Step
<1> QED BY <1>1, <1>3

Increasing(s) == \A i, j \in 1..Len(s) : i < j => s[i].id < s[j].id
NoOther(r, s, A, n) == \A k \in 1..Len(r) : \E j \in 1..n : r[k] = s[j] /\ s[j].id \in A
AllOf(r, s, A, n) == \A j \in 1..n : s[j].id \in A => \E k \in 1..Len(r) : r[k] = s[j]
\* r has the entries of the first n of s that are in A, in their order.
Selects(r, s, A, n) ==
    /\ r \in Seq(Entry)
    /\ NoOther(r, s, A, n) /\ AllOf(r, s, A, n)
    /\ Increasing(s) => Increasing(r)
    /\ n # 0 /\ s[n].id \in A => r # <<>> /\ Last(r) = s[n]

LEMMA SelectsNext ==
    ASSUME NEW s \in Seq(Entry), NEW A, NEW n \in Nat, n + 1 \in 1..Len(s),
           NEW r, Selects(r, s, A, n),
           NEW q, q = IF s[n + 1].id \in A THEN Append(r, s[n + 1]) ELSE r
    PROVE  Selects(q, s, A, n + 1)
<1>1. s[n + 1] \in Entry /\ \A j \in 1..(n + 1) : s[j] \in Entry OBVIOUS
<1>2. r \in Seq(Entry) BY DEF Selects
<1>3. CASE s[n + 1].id \in A
  <2>1. q = Append(r, s[n + 1]) BY <1>3
  <2>2. /\ q \in Seq(Entry) /\ Len(q) = Len(r) + 1 /\ q[Len(q)] = s[n + 1]
        /\ \A k \in 1..Len(r) : q[k] = r[k]
    BY <1>1, <1>2, <2>1
  <2>3. NoOther(q, s, A, n + 1)
    <3>1. SUFFICES ASSUME NEW k \in 1..Len(q)
                   PROVE  \E j \in 1..(n + 1) : q[k] = s[j] /\ s[j].id \in A
      BY DEF NoOther
    <3>2. CASE k = Len(q) BY <1>3, <2>2, <3>2
    <3>3. CASE k \in 1..Len(r)
      <4>1. PICK j \in 1..n : r[k] = s[j] /\ s[j].id \in A BY <3>3 DEF Selects, NoOther, AllOf
      <4> QED BY <2>2, <3>3, <4>1
    <3> QED BY <1>2, <2>2, <3>2, <3>3
  <2>4. AllOf(q, s, A, n + 1)
    <3>1. SUFFICES ASSUME NEW j \in 1..(n + 1), s[j].id \in A
                   PROVE  \E k \in 1..Len(q) : q[k] = s[j]
      BY DEF AllOf
    <3>2. CASE j = n + 1
      <4>1. Len(q) \in 1..Len(q) BY <1>2, <2>2
      <4> QED BY <2>2, <3>2, <4>1
    <3>3. CASE j \in 1..n
      <4>1. PICK k \in 1..Len(r) : r[k] = s[j] BY <3>1, <3>3 DEF Selects, NoOther, AllOf
      <4>2. k \in 1..Len(q) BY <1>2, <2>2
      <4> QED BY <2>2, <4>1, <4>2
    <3> QED BY <3>2, <3>3
  <2>5. Increasing(s) => Increasing(q)
    <3>1. SUFFICES ASSUME Increasing(s), NEW i \in 1..Len(q), NEW k \in 1..Len(q), i < k
                   PROVE  q[i].id < q[k].id
      BY <2>2 DEF Increasing
    <3>2. i \in 1..Len(r) BY <1>2, <2>2, <3>1
    <3>3. CASE k = Len(q)
      <4>1. PICK j \in 1..n : r[i] = s[j] BY <3>2 DEF Selects, NoOther, AllOf
      <4>2. s[j].id < s[n + 1].id
        <5>1. j \in 1..Len(s) /\ j < n + 1 OBVIOUS
        <5> QED BY <3>1, <5>1 DEF Increasing
      <4> QED BY <2>2, <3>2, <3>3, <4>1, <4>2
    <3>4. CASE k \in 1..Len(r)
      <4>1. Increasing(r) BY <3>1 DEF Selects
      <4>2. r[i].id < r[k].id BY <3>1, <3>2, <3>4, <4>1 DEF Increasing
      <4> QED BY <2>2, <3>2, <3>4, <4>2
    <3> QED BY <1>2, <2>2, <3>3, <3>4
  <2>6. q # <<>> /\ Last(q) = s[n + 1]
    <3>1. Len(q) # 0 BY <1>2, <2>2
    <3> QED BY <2>2, <3>1 DEF Last
  <2> QED BY <2>2, <2>3, <2>4, <2>5, <2>6 DEF Selects
<1>4. CASE s[n + 1].id \notin A
  <2>1. q = r BY <1>4
  <2>2. NoOther(r, s, A, n + 1)
    BY DEF Selects, NoOther, AllOf
  <2>3. AllOf(r, s, A, n + 1)
    BY <1>4 DEF Selects, NoOther, AllOf
  <2>4. Increasing(s) => Increasing(r)
    BY DEF Selects
  <2> HIDE DEF Increasing
  <2> QED BY <1>2, <1>4, <2>1, <2>2, <2>3, <2>4 DEF Selects
<1> QED BY <1>3, <1>4

LEMMA EntriesInSelects ==
    ASSUME NEW s \in Seq(Entry), NEW A
    PROVE  Selects(EntriesIn(s, A), s, A, Len(s))
<1>1. PICK f : Step(f, s, A) /\ EntriesIn(s, A) = f[Len(s)] BY EntriesStepwise
<1> DEFINE P == {n \in Nat : n <= Len(s) => Selects(f[n], s, A, n)}
<1>2. 0 \in P
  <2>1. Selects(<<>>, s, A, 0) BY DEF Selects, Increasing, NoOther, AllOf
  <2> QED BY <1>1, <2>1 DEF Step
<1>3. \A n \in Nat : n \in P => n + 1 \in P
  <2>1. SUFFICES ASSUME NEW n \in Nat, n \in P, n + 1 <= Len(s)
                 PROVE  Selects(f[n + 1], s, A, n + 1)
    OBVIOUS
  <2>2. n + 1 \in 1..Len(s) /\ (n + 1) - 1 = n BY <2>1
  <2>3. Selects(f[n], s, A, n) BY <2>1
  <2>4. f[n + 1] = IF s[n + 1].id \in A THEN Append(f[n], s[n + 1]) ELSE f[n]
    BY <1>1, <2>2 DEF Step
  <2> QED BY <2>2, <2>3, <2>4, SelectsNext
<1>4. Len(s) \in P
  <2>1. Len(s) \in Nat OBVIOUS
  <2> HIDE DEF P
  <2> QED BY <1>2, <1>3, <2>1, FromZero
<1> QED BY <1>1, <1>4

-----------------------------------------------------------------------------
(* The parts of the type invariant, and what the operators return. *)

Pc == WantsLock \cup Inside \cup Promoting \cup
        {"idle", "mids", "clean", "index", "text", "ready", "validate", "panicked"}
LoadPcs == Promoting \cup {"mids", "clean", "index", "text"}
Work == [old : Seq(Entry), keep : Seq(Entry), merged : Seq(Entry), shown : Nat]
Of(index) == {index[i] : i \in 1..Len(index)}
Kept == Of(mid) \cup Of(long)

StoreOK ==
    /\ written \in Nat /\ ledger \subseteq 1..written /\ inputs \subseteq ledger
    /\ text \in Seq(SUBSET (1..written))
    /\ mid \in Seq(Entry) /\ long \in Seq(Entry) /\ Len(long) <= 1
    /\ IdsOf(mid) \cup IdsOf(long) \cup midFiles \cup longFiles \cup aged \cup torn \subseteq 1..made
    /\ LastOf(mid) \cup LastOf(long) \subseteq 1..written
    /\ crashes \in 0..MaxCrashes /\ forgotten \subseteq 1..written /\ raced \in BOOLEAN

LocksOK ==
    /\ runLock \in Turn \cup Clearer \cup {Nobody}
    /\ lockMap \in Lock \cup {NoLock} /\ lock \in [Client -> Lock \cup {NoLock}]
PcsOK == pc \in [Client -> Pc]
WorkOK == work \in [Client -> Work]
SeenOK == seen \in [Client -> SUBSET (1..written)]
Draft == [active : SUBSET (1..written), last : 0..written, size : Nat, digest : SUBSET (1..written)]
DraftOK == draft \in [Client -> Draft]
ClientsOK == LocksOK /\ PcsOK /\ WorkOK /\ SeenOK /\ DraftOK

LEMMA TypeParts == MemoryTypeOK <=> StoreOK /\ ClientsOK
<1> HIDE DEF Entry, Lock, IdsOf, LastOf, made
<1> QED
  BY DEF MemoryTypeOK, StoreOK, ClientsOK, LocksOK, PcsOK, WorkOK, SeenOK, DraftOK, Pc, Work,
     Draft

LEMMA OfIsRange ==
    ASSUME NEW s \in Seq(Entry)
    PROVE  /\ IdsOf(s) = {e.id : e \in Of(s)} /\ LastOf(s) = {e.last : e \in Of(s)}
           /\ Of(s) \subseteq Entry
           /\ s # <<>> => Last(s) \in Of(s)
           /\ (s = <<>>) <=> (Of(s) = {})
<1>1. Len(s) \in Nat /\ DOMAIN s = 1..Len(s) /\ \A i \in 1..Len(s) : s[i] \in Entry OBVIOUS
<1>2. s # <<>> => Len(s) \in 1..Len(s) OBVIOUS
<1>3. s # <<>> => Last(s) \in Of(s) BY <1>2 DEF Last, Of
<1>4. s = <<>> => Of(s) = {} BY DEF Of
<1>5. IdsOf(s) = {e.id : e \in Of(s)} /\ LastOf(s) = {e.last : e \in Of(s)}
  BY <1>1 DEF IdsOf, LastOf, Of
<1>6. Of(s) \subseteq Entry BY <1>1 DEF Of
<1> QED BY <1>3, <1>4, <1>5, <1>6

LEMMA OfAppend ==
    ASSUME NEW s \in Seq(Entry), NEW e \in Entry
    PROVE  /\ Append(s, e) \in Seq(Entry) /\ Of(Append(s, e)) = Of(s) \cup {e}
           /\ Append(s, e) # <<>> /\ Last(Append(s, e)) = e
<1>1. Append(s, e) \in Seq(Entry) /\ Len(Append(s, e)) = Len(s) + 1 OBVIOUS
<1>2. \A i \in 1..Len(s) : Append(s, e)[i] = s[i] OBVIOUS
<1>3. Append(s, e)[Len(s) + 1] = e OBVIOUS
<1>4. Of(Append(s, e)) = Of(s) \cup {e}
  <2>1. 1..(Len(s) + 1) = 1..Len(s) \cup {Len(s) + 1} OBVIOUS
  <2> QED BY <1>1, <1>2, <1>3, <2>1 DEF Of
<1> QED BY <1>1, <1>3, <1>4 DEF Last

LEMMA OfOne ==
    ASSUME NEW e \in Entry
    PROVE  <<e>> \in Seq(Entry) /\ Len(<<e>>) = 1 /\ Of(<<e>>) = {e} /\ <<e>> # <<>> /\ Last(<<e>>) = e
BY DEF Of, Last

LEMMA OfNone == <<>> \in Seq(Entry) /\ Of(<<>>) = {} /\ Len(<<>>) = 0
BY DEF Of

LEMMA OfEntriesIn ==
    ASSUME NEW s \in Seq(Entry), NEW A
    PROVE  /\ EntriesIn(s, A) \in Seq(Entry)
           /\ Of(EntriesIn(s, A)) = {e \in Of(s) : e.id \in A}
           /\ Increasing(s) => Increasing(EntriesIn(s, A))
           /\ s # <<>> /\ Last(s).id \in A =>
                EntriesIn(s, A) # <<>> /\ Last(EntriesIn(s, A)) = Last(s)
<1> DEFINE r == EntriesIn(s, A)
<1>1. Selects(r, s, A, Len(s)) BY EntriesInSelects
<1> HIDE DEF r
<1>2. r \in Seq(Entry) /\ (Increasing(s) => Increasing(r)) BY <1>1 DEF Selects
<1>3. Of(r) = {e \in Of(s) : e.id \in A}
  <2>1. SUFFICES ASSUME NEW e PROVE e \in Of(r) <=> e \in Of(s) /\ e.id \in A OBVIOUS
  <2>2. ASSUME e \in Of(r) PROVE e \in Of(s) /\ e.id \in A
    <3>1. PICK k \in 1..Len(r) : e = r[k] BY <2>2 DEF Of
    <3>2. PICK j \in 1..Len(s) : r[k] = s[j] /\ s[j].id \in A
      BY <1>1 DEF Selects, NoOther
    <3> QED BY <3>1, <3>2 DEF Of
  <2>3. ASSUME e \in Of(s), e.id \in A PROVE e \in Of(r)
    <3>1. PICK j \in 1..Len(s) : e = s[j] BY <2>3 DEF Of
    <3>2. PICK k \in 1..Len(r) : r[k] = s[j] BY <1>1, <2>3, <3>1 DEF Selects, AllOf
    <3> QED BY <3>1, <3>2 DEF Of
  <2> QED BY <2>2, <2>3
<1>4. s # <<>> /\ Last(s).id \in A => r # <<>> /\ Last(r) = Last(s)
  BY <1>1 DEF Selects, Last
<1> QED BY <1>2, <1>3, <1>4 DEF r

\* The covered position, for whoever reads the indices.
LEMMA CoveredFacts ==
    ASSUME StoreOK
    PROVE  /\ Covered(ledger, mid, long) \in 0..written
           /\ \A e \in Kept : e.last \in ledger => e.last <= Covered(ledger, mid, long)
           /\ Covered(ledger, mid, long) # 0 =>
                 \E e \in Kept : e.last \in ledger /\ e.last = Covered(ledger, mid, long)
           /\ Uncovered(ledger, mid, long) = {x \in ledger : x > Covered(ledger, mid, long)}
<1> DEFINE found == (LastOf(mid) \cup LastOf(long)) \cap ledger
<1>1. found \in SUBSET (0..written) /\ written \in Nat BY DEF StoreOK
<1>2. found = {e.last : e \in {e \in Kept : e.last \in ledger}}
  <2>1. mid \in Seq(Entry) /\ long \in Seq(Entry) BY DEF StoreOK
  <2> QED BY <2>1, OfIsRange DEF Kept
<1>3. Covered(ledger, mid, long) = IF found = {} THEN 0 ELSE Newest(found) BY DEF Covered
<1>4. found # {} => Newest(found) \in found /\ \A y \in found : y <= Newest(found)
  <2> HIDE DEF found
  <2> QED BY <1>1, NewestOfSome
<1> HIDE DEF found
<1>5. \A e \in Kept : e.last \in ledger => e.last \in found BY <1>2
<1>6. found # {} => \E e \in Kept : e.last \in ledger /\ e.last = Newest(found)
  BY <1>2, <1>4
<1>7. Covered(ledger, mid, long) \in 0..written
  <2>1. CASE found = {} BY <1>1, <1>3, <2>1
  <2>2. CASE found # {} BY <1>1, <1>3, <1>4, <2>2
  <2> QED BY <2>1, <2>2
<1>8. \A e \in Kept : e.last \in ledger => e.last <= Covered(ledger, mid, long)
  BY <1>3, <1>4, <1>5
<1> QED BY <1>3, <1>6, <1>7, <1>8 DEF Uncovered

LEMMA LatestFacts ==
    ASSUME StoreOK
    PROVE  /\ Latest(mid, long) \in 0..made /\ made \in Nat
           /\ Latest(mid, long) = 0 <=> Kept = {}
           /\ mid # <<>> => Latest(mid, long) = Last(mid).id /\ Last(mid) \in Kept
           /\ mid = <<>> /\ long # <<>> =>
                 Latest(mid, long) = Last(long).id /\ Kept = {Last(long)}
           /\ Digest(Latest(mid, long)) \subseteq 1..written
<1>1. /\ mid \in Seq(Entry) /\ long \in Seq(Entry) /\ Len(long) <= 1
      /\ made \in Nat /\ IdsOf(mid) \subseteq 1..made /\ IdsOf(long) \subseteq 1..made
      /\ \A s \in 1..made : text[s] \subseteq 1..written
  <2>1. text \in Seq(SUBSET (1..written)) BY DEF StoreOK
  <2>2. made \in Nat /\ \A s \in 1..made : text[s] \in SUBSET (1..written) BY <2>1 DEF made
  <2> QED BY <2>2 DEF StoreOK
<1>2. mid # <<>> => Last(mid) \in Of(mid) /\ Last(mid).id \in 1..made
  BY <1>1, OfIsRange
<1>3. long # <<>> => Last(long).id \in 1..made /\ Of(long) = {Last(long)}
  <2>0. long \in Seq(Entry) /\ Len(long) <= 1 BY <1>1
  <2>1. long # <<>> => Len(long) = 1
    <3>1. Len(long) \in Nat /\ (Len(long) = 0 => long = <<>>) BY <2>0
    <3>2. \A n \in Nat : n <= 1 /\ n # 0 => n = 1 OBVIOUS
    <3> QED BY <2>0, <3>1, <3>2
  <2>2. long # <<>> => Of(long) = {Last(long)} BY <1>1, <2>1 DEF Of, Last
  <2> QED BY <1>1, <2>2, OfIsRange
<1>4. (mid = <<>> <=> Of(mid) = {}) /\ (long = <<>> <=> Of(long) = {}) BY <1>1, OfIsRange
<1> QED BY <1>1, <1>2, <1>3, <1>4 DEF Latest, Digest, Kept

-----------------------------------------------------------------------------
(* The inductive invariant, by clients. *)

\* Which pcs a client has, and that turns and clears hold the run lock.
Role(c) ==
    /\ c \in Viewer => pc[c] \in LoadPcs \cup {"idle"}
    /\ c \in Saver => pc[c] \in {"idle", "fail"}
    /\ c \in Clearer => pc[c] \in {"idle", "clear", "clear2", "clear3"}
    /\ c \in Turn => pc[c] \notin {"clear", "clear2", "clear3"}
    /\ c \in Turn \cup Clearer /\ pc[c] \notin {"idle", "panicked"} => runLock = c
\* What a client has read names summaries and messages that there are.
Copy(c) ==
    /\ IdsOf(work[c].old) \cup IdsOf(work[c].keep) \cup IdsOf(work[c].merged) \subseteq 1..made
    /\ LastOf(work[c].old) \cup LastOf(work[c].keep) \subseteq 1..written
    /\ pc[c] \in {"longs", "compress", "wlong"} => work[c].old # <<>>
\* A turn has a draft from its preparation to its end, and then only.
Drafted(c) ==
    /\ c \in Turn /\ pc[c] \in {"idle", "ready", "prepare", "agent", "agent3", "save", "fail"} =>
          draft[c] = NoDraft
    /\ c \in Turn /\ pc[c] \in {"commit", "commit2", "agent2"} => draft[c].last # 0
\* What a clear is about to forget is not in the ledger.
Clearing(c) == c \in Clearer /\ pc[c] \in {"clear2", "clear3"} => seen[c] \cap ledger = {}
Sound(c) == Role(c) /\ Copy(c) /\ Drafted(c) /\ Clearing(c)

Always ==
    /\ StoreOK /\ ClientsOK
    /\ \A c \in Client : Sound(c)
    /\ ledger \cap forgotten = {}

\* A step of client c changes what is c's own, and the run lock if c has or
\* may take it.
OnlyOwn(c) ==
    /\ \A d \in Client \ {c} : /\ pc'[d] = pc[d] /\ work'[d] = work[d] /\ lock'[d] = lock[d]
                               /\ seen'[d] = seen[d] /\ draft'[d] = draft[d]
    /\ runLock' = runLock \/ runLock \in {Nobody, c}

\* What is stored only grows but for the ledger, which gets new messages.
Grows ==
    /\ made \in Nat /\ made' \in Nat /\ made <= made'
    /\ written \in Nat /\ written' \in Nat /\ written <= written'
    /\ ledger' \subseteq ledger \cup {written + 1}

LEMMA ClientKinds ==
    ASSUME NEW c \in Client
    PROVE  /\ c # Nobody
           /\ c \in Turn => c \notin Viewer \cup Saver \cup Clearer
           /\ c \in Viewer => c \notin Turn \cup Saver \cup Clearer
           /\ c \in Saver => c \notin Turn \cup Viewer \cup Clearer
           /\ c \in Clearer => c \notin Turn \cup Viewer \cup Saver
BY MemoryAssumption DEF Client

LEMMA SoundOthers ==
    ASSUME StoreOK, ClientsOK, NEW c \in Client, NEW d \in Client, d # c, Sound(d),
           OnlyOwn(c), Grows
    PROVE  Sound(d)'
<1>1. /\ pc'[d] = pc[d] /\ work'[d] = work[d] /\ seen'[d] = seen[d] /\ draft'[d] = draft[d]
  BY DEF OnlyOwn
<1>2. Role(d)' BY <1>1, ClientKinds DEF Sound, Role, OnlyOwn
<1>3. Copy(d)'
  <2>1. 1..made \subseteq 1..made' /\ 1..written \subseteq 1..written'
    BY DEF Grows
  <2> HIDE DEF made, Grows, StoreOK
  <2> QED BY <1>1, <2>1 DEF Sound, Copy, IdsOf, LastOf
<1>4. Drafted(d)' BY <1>1 DEF Sound, Drafted
<1>5. Clearing(d)'
  <2>1. written \in Nat /\ seen[d] \subseteq 1..written BY DEF StoreOK, ClientsOK, SeenOK
  <2>2. (written + 1) \notin seen[d] BY <2>1
  <2> QED BY <1>1, <2>2 DEF Sound, Clearing, Grows
<1> QED BY <1>2, <1>3, <1>4, <1>5 DEF Sound

\* A step that writes nothing.
Still == UNCHANGED <<disk, history, raced>>

LEMMA StillStore ==
    ASSUME StoreOK, Still
    PROVE  /\ StoreOK' /\ Grows /\ made' = made
           /\ written' = written /\ ledger' = ledger /\ inputs' = inputs /\ forgotten' = forgotten
           /\ mid' = mid /\ long' = long /\ text' = text /\ aged' = aged
           /\ midFiles' = midFiles /\ longFiles' = longFiles /\ raced' = raced /\ torn' = torn
<1>1. /\ written' = written /\ ledger' = ledger /\ inputs' = inputs /\ forgotten' = forgotten
      /\ mid' = mid /\ long' = long /\ text' = text /\ aged' = aged /\ made' = made
      /\ midFiles' = midFiles /\ longFiles' = longFiles /\ raced' = raced
      /\ crashes' = crashes /\ torn' = torn
  BY DEF Still, disk, history, made
<1>2. StoreOK' BY <1>1 DEF StoreOK, IdsOf, LastOf
<1>3. made \in Nat /\ written \in Nat BY DEF StoreOK, made
<1> QED BY <1>1, <1>2, <1>3 DEF Grows

\* Every step of c keeps the types and its own part of the invariant.
Keeps(c) == ClientsOK' /\ OnlyOwn(c) /\ Sound(c)'

LEMMA StillAlways ==
    ASSUME Always, NEW c \in Client, Still, Keeps(c)
    PROVE  Always'
<1>1. StoreOK' /\ Grows /\ (ledger \cap forgotten = {})' BY StillStore DEF Always
<1>2. \A d \in Client : Sound(d)' BY <1>1, SoundOthers DEF Always, Keeps
<1> QED BY <1>1, <1>2 DEF Always, Keeps

-----------------------------------------------------------------------------
(* The steps that write nothing: each keeps the types and its client's part. *)

LEMMA MidSplit ==
    ASSUME StoreOK
    PROVE  LET old == EntriesIn(mid, aged)
               keep == EntriesIn(mid, IdsOf(mid) \ aged)
           IN /\ old \in Seq(Entry) /\ keep \in Seq(Entry)
              /\ IdsOf(old) \cup IdsOf(keep) \subseteq 1..made
              /\ LastOf(old) \cup LastOf(keep) \subseteq 1..written
              /\ Of(mid) = Of(old) \cup Of(keep) /\ IdsOf(old) \cap IdsOf(keep) = {}
<1> DEFINE old == EntriesIn(mid, aged)
           keep == EntriesIn(mid, IdsOf(mid) \ aged)
<1>1. mid \in Seq(Entry) /\ IdsOf(mid) \subseteq 1..made /\ LastOf(mid) \subseteq 1..written
  BY DEF StoreOK
<1>2. /\ old \in Seq(Entry) /\ Of(old) = {e \in Of(mid) : e.id \in aged}
      /\ keep \in Seq(Entry) /\ Of(keep) = {e \in Of(mid) : e.id \in IdsOf(mid) \ aged}
  BY <1>1, OfEntriesIn
<1>3. IdsOf(mid) = {e.id : e \in Of(mid)} /\ LastOf(mid) = {e.last : e \in Of(mid)}
  BY <1>1, OfIsRange
<1> HIDE DEF old, keep
<1>4. /\ IdsOf(old) = {e.id : e \in Of(old)} /\ LastOf(old) = {e.last : e \in Of(old)}
      /\ IdsOf(keep) = {e.id : e \in Of(keep)} /\ LastOf(keep) = {e.last : e \in Of(keep)}
  BY <1>2, OfIsRange
<1>5. Of(mid) = Of(old) \cup Of(keep) BY <1>2, <1>3
<1>6. IdsOf(old) \cup IdsOf(keep) \subseteq 1..made BY <1>1, <1>3, <1>4, <1>5
<1>7. LastOf(old) \cup LastOf(keep) \subseteq 1..written BY <1>1, <1>3, <1>4, <1>5
<1>8. IdsOf(old) \cap IdsOf(keep) = {} BY <1>2, <1>4
<1> QED BY <1>2, <1>5, <1>6, <1>7, <1>8 DEF old, keep

LEMMA FetchLockKeeps == ASSUME Always, NEW c \in Client, FetchLock(c) PROVE Still /\ Keeps(c)
<1>1. LocksOK /\ PcsOK /\ WorkOK /\ SeenOK /\ DraftOK /\ StoreOK /\ Sound(c)
  BY DEF Always, ClientsOK
<1>2. Still BY DEF FetchLock, Still, locks
<1>3. /\ made' = made /\ written' = written /\ ledger' = ledger /\ made \in Nat /\ written \in Nat
  BY <1>1, <1>2, StillStore DEF Grows
<1> HIDE DEF Entry, Lock, made
<1>4. LocksOK' BY <1>1, ClientKinds DEF FetchLock, locks, LocksOK, NoLock
<1>5. PcsOK' BY <1>1 DEF FetchLock, Goto, PcsOK, Pc, LoadPcs, WantsLock, Inside, Promoting
<1>6. WorkOK' BY <1>1 DEF FetchLock, WorkOK, Work, NoWork
<1>7. SeenOK' BY <1>1, <1>3 DEF FetchLock, SeenOK
<1>8. DraftOK' BY <1>1, <1>3 DEF FetchLock, DraftOK, Draft, NoDraft
<1>9. OnlyOwn(c)
  BY <1>1 DEF FetchLock, locks, Goto, OnlyOwn, LocksOK, PcsOK, WorkOK, SeenOK, DraftOK
<1>10. Role(c)'
  BY <1>1, <1>9, ClientKinds DEF FetchLock, locks, Sound, Role, Goto, PcsOK, Pc, LoadPcs,
     WantsLock, Inside, Promoting
<1>11. Copy(c)' BY <1>1, <1>3 DEF FetchLock, Sound, Copy, WorkOK, Goto, PcsOK
<1>12. Drafted(c)' BY <1>1 DEF FetchLock, Sound, Drafted, DraftOK, Goto, PcsOK
<1>13. Clearing(c)'
  BY <1>1, <1>3, ClientKinds DEF FetchLock, Sound, Clearing, SeenOK, Goto, PcsOK
<1> QED BY <1>2, <1>4, <1>5, <1>6, <1>7, <1>8, <1>9, <1>10, <1>11, <1>12, <1>13
           DEF ClientsOK, Keeps, Sound

LEMMA StartTurnKeeps == ASSUME Always, NEW c \in Client, StartTurn(c) PROVE Still /\ Keeps(c)
<1>1. LocksOK /\ PcsOK /\ WorkOK /\ SeenOK /\ DraftOK /\ StoreOK /\ Sound(c)
  BY DEF Always, ClientsOK
<1>2. Still BY DEF StartTurn, RunLockFree, Still, locks
<1>3. /\ made' = made /\ written' = written /\ ledger' = ledger /\ made \in Nat /\ written \in Nat
  BY <1>1, <1>2, StillStore DEF Grows
<1> HIDE DEF Entry, Lock, made
<1>4. LocksOK' BY <1>1, ClientKinds DEF StartTurn, RunLockFree, locks, LocksOK, NoLock
<1>5. PcsOK'
  BY <1>1 DEF StartTurn, RunLockFree, Goto, PcsOK, Pc, LoadPcs, WantsLock, Inside, Promoting
<1>6. WorkOK' BY <1>1 DEF StartTurn, RunLockFree, WorkOK, Work, NoWork
<1>7. SeenOK' BY <1>1, <1>3 DEF StartTurn, RunLockFree, SeenOK
<1>8. DraftOK' BY <1>1, <1>3 DEF StartTurn, RunLockFree, DraftOK, Draft, NoDraft
<1>9. OnlyOwn(c)
  BY <1>1 DEF StartTurn, RunLockFree, locks, Goto, OnlyOwn, LocksOK, PcsOK, WorkOK, SeenOK,
     DraftOK
<1>10. Role(c)'
  BY <1>1, <1>9, ClientKinds DEF StartTurn, RunLockFree, locks, Sound, Role, Goto, PcsOK, Pc,
     LoadPcs, WantsLock, Inside, Promoting
<1>11. Copy(c)' BY <1>1, <1>3 DEF StartTurn, RunLockFree, Sound, Copy, WorkOK, Goto, PcsOK
<1>12. Drafted(c)' BY <1>1 DEF StartTurn, RunLockFree, Sound, Drafted, DraftOK, Goto, PcsOK
<1>13. Clearing(c)'
  BY <1>1, <1>3, ClientKinds DEF StartTurn, RunLockFree, Sound, Clearing, SeenOK, Goto, PcsOK
<1> QED BY <1>2, <1>4, <1>5, <1>6, <1>7, <1>8, <1>9, <1>10, <1>11, <1>12, <1>13
           DEF ClientsOK, Keeps, Sound

LEMMA StartViewKeeps == ASSUME Always, NEW c \in Client, StartView(c) PROVE Still /\ Keeps(c)
<1>1. LocksOK /\ PcsOK /\ WorkOK /\ SeenOK /\ DraftOK /\ StoreOK /\ Sound(c)
  BY DEF Always, ClientsOK
<1>2. Still BY DEF StartView, Still, locks
<1>3. /\ made' = made /\ written' = written /\ ledger' = ledger /\ made \in Nat /\ written \in Nat
  BY <1>1, <1>2, StillStore DEF Grows
<1> HIDE DEF Entry, Lock, made
<1>4. LocksOK' BY <1>1, ClientKinds DEF StartView, locks, LocksOK, NoLock
<1>5. PcsOK' BY <1>1 DEF StartView, Goto, PcsOK, Pc, LoadPcs, WantsLock, Inside, Promoting
<1>6. WorkOK' BY <1>1 DEF StartView, WorkOK, Work, NoWork
<1>7. SeenOK' BY <1>1, <1>3 DEF StartView, SeenOK
<1>8. DraftOK' BY <1>1, <1>3 DEF StartView, DraftOK, Draft, NoDraft
<1>9. OnlyOwn(c)
  BY <1>1 DEF StartView, locks, Goto, OnlyOwn, LocksOK, PcsOK, WorkOK, SeenOK, DraftOK
<1>10. Role(c)'
  BY <1>1, <1>9, ClientKinds DEF StartView, locks, Sound, Role, Goto, PcsOK, Pc, LoadPcs,
     WantsLock, Inside, Promoting
<1>11. Copy(c)' BY <1>1, <1>3 DEF StartView, Sound, Copy, WorkOK, Goto, PcsOK
<1>12. Drafted(c)' BY <1>1 DEF StartView, Sound, Drafted, DraftOK, Goto, PcsOK
<1>13. Clearing(c)'
  BY <1>1, <1>3, ClientKinds DEF StartView, Sound, Clearing, SeenOK, Goto, PcsOK
<1> QED BY <1>2, <1>4, <1>5, <1>6, <1>7, <1>8, <1>9, <1>10, <1>11, <1>12, <1>13
           DEF ClientsOK, Keeps, Sound

LEMMA PromoteReadMidKeeps ==
    ASSUME Always, NEW c \in Client, PromoteReadMid(c)
    PROVE  Still /\ Keeps(c)
<1>1. LocksOK /\ PcsOK /\ WorkOK /\ SeenOK /\ DraftOK /\ StoreOK /\ Sound(c)
  BY DEF Always, ClientsOK
<1>2. Still BY DEF PromoteReadMid, Still, locks
<1>3. /\ made' = made /\ written' = written /\ ledger' = ledger /\ made \in Nat /\ written \in Nat
  BY <1>1, <1>2, StillStore DEF Grows
<1> HIDE DEF Entry, Lock, made
<1> DEFINE old == EntriesIn(mid, aged)
           keep == EntriesIn(mid, IdsOf(mid) \ aged)
<1>20. old \in Seq(Entry) /\ keep \in Seq(Entry) /\ IdsOf(old) \cup IdsOf(keep) \subseteq 1..made
       /\ LastOf(old) \cup LastOf(keep) \subseteq 1..written
  BY <1>1, MidSplit
<1>21. \/ work' = work /\ pc' = [pc EXCEPT ![c] = "index"]
       \/ /\ old # <<>> /\ pc' = [pc EXCEPT ![c] = "longs"]
          /\ work' = [work EXCEPT ![c] = [work[c] EXCEPT !.old = old, !.keep = keep]]
  BY <1>1 DEF PromoteReadMid, Goto, WorkOK
<1>22. [work[c] EXCEPT !.old = old, !.keep = keep] \in Work /\ work[c] \in Work
  BY <1>1, <1>20 DEF WorkOK, Work
<1>25. pc[c] = "mids" BY DEF PromoteReadMid
<1> HIDE DEF old, keep
<1>4. LocksOK' BY <1>1, ClientKinds DEF PromoteReadMid, locks, LocksOK, NoLock
<1>5. PcsOK' BY <1>1, <1>21 DEF PcsOK, Pc, Promoting
<1>6. WorkOK' BY <1>1, <1>21, <1>22 DEF WorkOK
<1>7. SeenOK' BY <1>1, <1>3 DEF PromoteReadMid, SeenOK
<1>8. DraftOK' BY <1>1, <1>3 DEF PromoteReadMid, DraftOK, Draft, NoDraft
<1>9. OnlyOwn(c)
  BY <1>1 DEF PromoteReadMid, locks, Goto, OnlyOwn, LocksOK, PcsOK, WorkOK, SeenOK, DraftOK
<1>10. Role(c)'
  BY <1>1, <1>9, <1>21, <1>25, ClientKinds DEF PromoteReadMid, locks, Sound, Role, PcsOK,
     LoadPcs, Promoting
<1>11. Copy(c)' 
  <2>1. CASE work' = work /\ pc' = [pc EXCEPT ![c] = "index"]
    BY <1>1, <1>3, <2>1 DEF Sound, Copy, PcsOK
  <2>2. CASE old # <<>> /\ work' = [work EXCEPT ![c] = [work[c] EXCEPT !.old = old, !.keep = keep]]
    <3>1. work'[c].old = old /\ work'[c].keep = keep /\ work'[c].merged = work[c].merged
      BY <1>1, <1>22, <2>2 DEF WorkOK, Work
    <3> QED BY <1>1, <1>3, <1>20, <2>2, <3>1 DEF Sound, Copy
  <2> QED BY <1>21, <2>1, <2>2
<1>12. Drafted(c)' BY <1>1, <1>21, <1>25 DEF PromoteReadMid, Sound, Drafted, DraftOK, PcsOK
<1>13. Clearing(c)'
  BY <1>1, <1>3, ClientKinds DEF PromoteReadMid, Sound, Clearing, SeenOK, Goto, PcsOK
<1> QED BY <1>2, <1>4, <1>5, <1>6, <1>7, <1>8, <1>9, <1>10, <1>11, <1>12, <1>13
           DEF ClientsOK, Keeps, Sound

LEMMA PromoteReadLongKeeps ==
    ASSUME Always, NEW c \in Client, PromoteReadLong(c)
    PROVE  Still /\ Keeps(c)
<1>1. LocksOK /\ PcsOK /\ WorkOK /\ SeenOK /\ DraftOK /\ StoreOK /\ Sound(c)
  BY DEF Always, ClientsOK
<1>2. Still BY DEF PromoteReadLong, Still, locks
<1>3. /\ made' = made /\ written' = written /\ ledger' = ledger /\ made \in Nat /\ written \in Nat
  BY <1>1, <1>2, StillStore DEF Grows
<1> HIDE DEF Entry, Lock, made
<1>20. long \in Seq(Entry) /\ IdsOf(long) \subseteq 1..made BY <1>1 DEF StoreOK
<1>21. \/ /\ pc' = [pc EXCEPT ![c] = "compress"]
          /\ work' = [work EXCEPT ![c] = [work[c] EXCEPT !.merged = long]]
       \/ pc' = [pc EXCEPT ![c] = "index"] /\ work' = [work EXCEPT ![c] = NoWork]
  BY <1>1 DEF PromoteReadLong, Goto, WorkOK
<1>22. [work[c] EXCEPT !.merged = long] \in Work /\ NoWork \in Work
  <2>1. [work[c] EXCEPT !.merged = long] \in Work BY <1>1, <1>20 DEF WorkOK, Work
  <2>2. NoWork \in Work BY DEF Work, NoWork
  <2> QED BY <2>1, <2>2
<1>25. pc[c] = "longs" BY DEF PromoteReadLong
<1>4. LocksOK' BY <1>1, ClientKinds DEF PromoteReadLong, locks, LocksOK, NoLock
<1>5. PcsOK' BY <1>1, <1>21 DEF PcsOK, Pc, Promoting
<1>6. WorkOK' BY <1>1, <1>21, <1>22 DEF WorkOK
<1>7. SeenOK' BY <1>1, <1>3 DEF PromoteReadLong, SeenOK
<1>8. DraftOK' BY <1>1, <1>3 DEF PromoteReadLong, DraftOK, Draft, NoDraft
<1>9. OnlyOwn(c)
  BY <1>1 DEF PromoteReadLong, locks, Goto, OnlyOwn, LocksOK, PcsOK, WorkOK, SeenOK, DraftOK
<1>10. Role(c)'
  BY <1>1, <1>9, <1>21, <1>25, ClientKinds DEF PromoteReadLong, locks, Sound, Role, PcsOK,
     LoadPcs, Promoting
<1>11. Copy(c)' 
  <2>1. CASE work' = [work EXCEPT ![c] = NoWork] /\ pc' = [pc EXCEPT ![c] = "index"]
    BY <1>1, <1>3, <2>1 DEF Sound, Copy, PcsOK, WorkOK, NoWork, IdsOf, LastOf
  <2>2. CASE work' = [work EXCEPT ![c] = [work[c] EXCEPT !.merged = long]]
    <3>1. work'[c].old = work[c].old /\ work'[c].keep = work[c].keep /\ work'[c].merged = long
      BY <1>1, <1>22, <2>2 DEF WorkOK, Work
    <3> QED BY <1>1, <1>3, <1>20, <1>25, <2>2, <3>1 DEF Sound, Copy
  <2> QED BY <1>21, <2>1, <2>2
<1>12. Drafted(c)' BY <1>1, <1>21, <1>25 DEF PromoteReadLong, Sound, Drafted, DraftOK, PcsOK
<1>13. Clearing(c)'
  BY <1>1, <1>3, ClientKinds DEF PromoteReadLong, Sound, Clearing, SeenOK, Goto, PcsOK
<1> QED BY <1>2, <1>4, <1>5, <1>6, <1>7, <1>8, <1>9, <1>10, <1>11, <1>12, <1>13
           DEF ClientsOK, Keeps, Sound

LEMMA PromoteCompressKeeps ==
    ASSUME Always, NEW c \in Client, PromoteCompress(c)
    PROVE  Still /\ Keeps(c)
<1>1. LocksOK /\ PcsOK /\ WorkOK /\ SeenOK /\ DraftOK /\ StoreOK /\ Sound(c)
  BY DEF Always, ClientsOK
<1>2. Still BY DEF PromoteCompress, Still, locks
<1>3. /\ made' = made /\ written' = written /\ ledger' = ledger /\ made \in Nat /\ written \in Nat
  BY <1>1, <1>2, StillStore DEF Grows
<1> HIDE DEF Entry, Lock, made
<1>21. \/ pc' = [pc EXCEPT ![c] = "wlong"] /\ work' = work
       \/ pc' = [pc EXCEPT ![c] = "index"] /\ work' = [work EXCEPT ![c] = NoWork]
  BY <1>1 DEF PromoteCompress, Goto, WorkOK
<1>22. NoWork \in Work BY DEF Work, NoWork
<1>25. pc[c] = "compress" BY DEF PromoteCompress
<1>4. LocksOK' BY <1>1, ClientKinds DEF PromoteCompress, locks, LocksOK, NoLock
<1>5. PcsOK' BY <1>1, <1>21 DEF PcsOK, Pc, Promoting
<1>6. WorkOK' BY <1>1, <1>21, <1>22 DEF WorkOK
<1>7. SeenOK' BY <1>1, <1>3 DEF PromoteCompress, SeenOK
<1>8. DraftOK' BY <1>1, <1>3 DEF PromoteCompress, DraftOK, Draft, NoDraft
<1>9. OnlyOwn(c)
  BY <1>1 DEF PromoteCompress, locks, Goto, OnlyOwn, LocksOK, PcsOK, WorkOK, SeenOK, DraftOK
<1>10. Role(c)'
  BY <1>1, <1>9, <1>21, <1>25, ClientKinds DEF PromoteCompress, locks, Sound, Role, PcsOK,
     LoadPcs, Promoting
<1>11. Copy(c)' 
  <2>1. CASE work' = [work EXCEPT ![c] = NoWork] /\ pc' = [pc EXCEPT ![c] = "index"]
    BY <1>1, <1>3, <2>1 DEF Sound, Copy, PcsOK, WorkOK, NoWork, IdsOf, LastOf
  <2>2. CASE work' = work
    BY <1>1, <1>3, <1>25, <2>2 DEF Sound, Copy
  <2> QED BY <1>21, <2>1, <2>2
<1>12. Drafted(c)' BY <1>1, <1>21, <1>25 DEF PromoteCompress, Sound, Drafted, DraftOK, PcsOK
<1>13. Clearing(c)'
  BY <1>1, <1>3, ClientKinds DEF PromoteCompress, Sound, Clearing, SeenOK, Goto, PcsOK
<1> QED BY <1>2, <1>4, <1>5, <1>6, <1>7, <1>8, <1>9, <1>10, <1>11, <1>12, <1>13
           DEF ClientsOK, Keeps, Sound

LEMMA LoadIndexKeeps == ASSUME Always, NEW c \in Client, LoadIndex(c) PROVE Still /\ Keeps(c)
<1>1. LocksOK /\ PcsOK /\ WorkOK /\ SeenOK /\ DraftOK /\ StoreOK /\ Sound(c)
  BY DEF Always, ClientsOK
<1>2. Still BY DEF LoadIndex, Still, locks
<1>3. /\ made' = made /\ written' = written /\ ledger' = ledger /\ made \in Nat /\ written \in Nat
  BY <1>1, <1>2, StillStore DEF Grows
<1> HIDE DEF Entry, Lock, made
<1>20. /\ Latest(mid, long) \in Nat /\ Digest(Latest(mid, long)) \subseteq 1..written
       /\ Uncovered(ledger, mid, long) \subseteq 1..written /\ inputs \cap ledger \subseteq 1..written
  <2>1. ledger \subseteq 1..written BY <1>1 DEF StoreOK
  <2>2. Latest(mid, long) \in Nat /\ Digest(Latest(mid, long)) \subseteq 1..written
    BY <1>1, LatestFacts
  <2>3. Uncovered(ledger, mid, long) \subseteq ledger BY <1>1, CoveredFacts
  <2> QED BY <2>1, <2>2, <2>3
<1> HIDE DEF Latest, Digest, Uncovered
<1>21. work' = [work EXCEPT ![c] = [work[c] EXCEPT !.shown = Latest(mid, long)]]
  BY <1>1 DEF LoadIndex, WorkOK
<1>22. [work[c] EXCEPT !.shown = Latest(mid, long)] \in Work BY <1>1, <1>20 DEF WorkOK, Work
<1>4. LocksOK' BY <1>1, ClientKinds DEF LoadIndex, locks, LocksOK, NoLock
<1>5. PcsOK' BY <1>1 DEF LoadIndex, Goto, PcsOK, Pc, LoadPcs, WantsLock, Inside, Promoting
<1>6. WorkOK' BY <1>1, <1>21, <1>22 DEF WorkOK
<1>7. SeenOK' 
  <2>1. \/ seen' = seen
        \/ \E S \in SUBSET (1..written) : seen' = [seen EXCEPT ![c] = S]
    BY <1>20 DEF LoadIndex
  <2> QED BY <1>1, <1>3, <2>1 DEF SeenOK
<1>8. DraftOK' BY <1>1, <1>3 DEF LoadIndex, DraftOK, Draft, NoDraft
<1>9. OnlyOwn(c)
  BY <1>1 DEF LoadIndex, locks, Goto, OnlyOwn, LocksOK, PcsOK, WorkOK, SeenOK, DraftOK
<1>10. Role(c)'
  BY <1>1, <1>9, ClientKinds DEF LoadIndex, locks, Sound, Role, Goto, PcsOK, Pc, LoadPcs,
     WantsLock, Inside, Promoting
<1>11. Copy(c)' BY <1>1, <1>3 DEF LoadIndex, Sound, Copy, WorkOK, Goto, PcsOK
<1>12. Drafted(c)' BY <1>1 DEF LoadIndex, Sound, Drafted, DraftOK, Goto, PcsOK
<1>13. Clearing(c)'
  BY <1>1, <1>3, ClientKinds DEF LoadIndex, Sound, Clearing, SeenOK, Goto, PcsOK
<1> QED BY <1>2, <1>4, <1>5, <1>6, <1>7, <1>8, <1>9, <1>10, <1>11, <1>12, <1>13
           DEF ClientsOK, Keeps, Sound

LEMMA LoadTextKeeps == ASSUME Always, NEW c \in Client, LoadText(c) PROVE Still /\ Keeps(c)
<1>1. LocksOK /\ PcsOK /\ WorkOK /\ SeenOK /\ DraftOK /\ StoreOK /\ Sound(c)
  BY DEF Always, ClientsOK
<1>2. Still BY DEF LoadText, Still, locks
<1>3. /\ made' = made /\ written' = written /\ ledger' = ledger /\ made \in Nat /\ written \in Nat
  BY <1>1, <1>2, StillStore DEF Grows
<1> HIDE DEF Entry, Lock, made
<1>21. draft' = draft \/ draft' = [draft EXCEPT ![c] = NoDraft] BY DEF LoadText
<1>22. NoDraft \in Draft BY <1>3 DEF Draft, NoDraft
<1>26. Draft' = Draft BY <1>3 DEF Draft
<1>23. work' = [work EXCEPT ![c] = NoWork] /\ pc[c] = "text" BY DEF LoadText
<1>24. \/ /\ c \in Viewer /\ pc' = [pc EXCEPT ![c] = "idle"]
          /\ draft' = draft /\ seen' = seen /\ runLock' = runLock
       \/ /\ c \notin Viewer /\ c \in Turn /\ draft[c] = NoDraft /\ draft' = draft
          /\ \/ pc' = [pc EXCEPT ![c] = "ready"] /\ runLock' = runLock
             \/ pc' = [pc EXCEPT ![c] = "idle"] /\ runLock' = Nobody
       \/ /\ c \notin Viewer /\ ~ (c \in Turn /\ draft[c] = NoDraft) /\ runLock' = runLock
          /\ \/ pc' = [pc EXCEPT ![c] = "validate"] /\ draft' = draft
             \/ pc' = [pc EXCEPT ![c] = "fail"] /\ draft' = [draft EXCEPT ![c] = NoDraft]
  BY <1>1, ClientKinds DEF LoadText, Goto
<1>25. c \in Turn \cup Viewer BY <1>1, <1>23, ClientKinds DEF Sound, Role, Client
<1>4. LocksOK' BY <1>1, ClientKinds DEF LoadText, locks, LocksOK, NoLock
<1>5. PcsOK' BY <1>1 DEF LoadText, Goto, PcsOK, Pc, LoadPcs, WantsLock, Inside, Promoting
<1>6. WorkOK' BY <1>1 DEF LoadText, WorkOK, Work, NoWork
<1>7. SeenOK' BY <1>1, <1>3 DEF LoadText, SeenOK
<1>8. DraftOK' BY <1>1, <1>21, <1>22, <1>26 DEF DraftOK
<1>9. OnlyOwn(c) 
  <2>1. seen' = seen \/ seen' = [seen EXCEPT ![c] = {}] BY DEF LoadText
  <2>2. runLock' = runLock \/ runLock = c BY <1>1, <1>23, <1>24 DEF Sound, Role
  <2>3. lock' = lock BY DEF LoadText
  <2>4. pc' = [pc EXCEPT ![c] = pc'[c]] BY <1>1, <1>24 DEF PcsOK
  <2> QED BY <1>1, <1>21, <1>23, <2>1, <2>2, <2>3, <2>4
          DEF OnlyOwn, LocksOK, PcsOK, WorkOK, SeenOK, DraftOK
<1>10. Role(c)'
  BY <1>1, <1>23, <1>24, <1>25, ClientKinds DEF Sound, Role, PcsOK, LoadPcs, Promoting
<1>11. Copy(c)' BY <1>1, <1>23, <1>24 DEF WorkOK, NoWork, PcsOK, Copy, IdsOf, LastOf
<1>12. Drafted(c)' 
  <2>1. CASE c \in Viewer BY <2>1, ClientKinds DEF Drafted
  <2>2. CASE c \notin Viewer /\ draft[c] = NoDraft
    BY <1>1, <1>21, <1>24, <2>2 DEF Drafted, PcsOK, DraftOK
  <2>3. CASE c \notin Viewer /\ draft[c] # NoDraft
    BY <1>1, <1>24, <2>3 DEF Drafted, PcsOK, DraftOK
  <2> QED BY <2>1, <2>2, <2>3
<1>13. Clearing(c)'
  BY <1>1, <1>3, ClientKinds DEF LoadText, Sound, Clearing, SeenOK, Goto, PcsOK
<1> QED BY <1>2, <1>4, <1>5, <1>6, <1>7, <1>8, <1>9, <1>10, <1>11, <1>12, <1>13
           DEF ClientsOK, Keeps, Sound

LEMMA TurnDecidesKeeps ==
    ASSUME Always, NEW c \in Client, TurnDecides(c)
    PROVE  Still /\ Keeps(c)
<1>1. LocksOK /\ PcsOK /\ WorkOK /\ SeenOK /\ DraftOK /\ StoreOK /\ Sound(c)
  BY DEF Always, ClientsOK
<1>2. Still BY DEF TurnDecides, Still, locks
<1>3. /\ made' = made /\ written' = written /\ ledger' = ledger /\ made \in Nat /\ written \in Nat
  BY <1>1, <1>2, StillStore DEF Grows
<1> HIDE DEF Entry, Lock, made
<1>4. LocksOK' BY <1>1, ClientKinds DEF TurnDecides, locks, LocksOK, NoLock
<1>5. PcsOK' BY <1>1 DEF TurnDecides, Goto, PcsOK, Pc, LoadPcs, WantsLock, Inside, Promoting
<1>6. WorkOK' BY <1>1 DEF TurnDecides, WorkOK, Work, NoWork
<1>7. SeenOK' BY <1>1, <1>3 DEF TurnDecides, SeenOK
<1>8. DraftOK' BY <1>1, <1>3 DEF TurnDecides, DraftOK, Draft, NoDraft
<1>9. OnlyOwn(c)
  BY <1>1 DEF TurnDecides, locks, Goto, OnlyOwn, LocksOK, PcsOK, WorkOK, SeenOK, DraftOK
<1>10. Role(c)'
  BY <1>1, <1>9, ClientKinds DEF TurnDecides, locks, Sound, Role, Goto, PcsOK, Pc, LoadPcs,
     WantsLock, Inside, Promoting
<1>11. Copy(c)' BY <1>1, <1>3 DEF TurnDecides, Sound, Copy, WorkOK, Goto, PcsOK
<1>12. Drafted(c)' BY <1>1 DEF TurnDecides, Sound, Drafted, DraftOK, Goto, PcsOK
<1>13. Clearing(c)'
  BY <1>1, <1>3, ClientKinds DEF TurnDecides, Sound, Clearing, SeenOK, Goto, PcsOK
<1> QED BY <1>2, <1>4, <1>5, <1>6, <1>7, <1>8, <1>9, <1>10, <1>11, <1>12, <1>13
           DEF ClientsOK, Keeps, Sound

LEMMA PrepareKeeps == ASSUME Always, NEW c \in Client, Prepare(c) PROVE Still /\ Keeps(c)
<1>1. LocksOK /\ PcsOK /\ WorkOK /\ SeenOK /\ DraftOK /\ StoreOK /\ Sound(c)
  BY DEF Always, ClientsOK
<1>2. Still BY DEF Prepare, Unlock, Still, locks
<1>3. /\ made' = made /\ written' = written /\ ledger' = ledger /\ made \in Nat /\ written \in Nat
  BY <1>1, <1>2, StillStore DEF Grows
<1> HIDE DEF Entry, Lock, made
<1> DEFINE active == Uncovered(ledger, mid, long)
           previous == Latest(mid, long)
           last == IF active = {} THEN Covered(ledger, mid, long) ELSE Newest(active)
           new == [active |-> active, last |-> last, size |-> Cardinality(ledger),
                   digest |-> Folded(previous, active)]
<1>20. new \in Draft
  <2>1. active \subseteq 1..written /\ last \in 0..written /\ written \in Nat
    <3>1. Covered(ledger, mid, long) \in 0..written /\ active \in SUBSET (0..written)
          /\ active \subseteq 1..written
      <4>1. Covered(ledger, mid, long) \in 0..written /\ active \subseteq ledger
        BY <1>1, CoveredFacts
      <4>2. ledger \subseteq 1..written BY <1>1 DEF StoreOK
      <4> HIDE DEF active
      <4> QED BY <1>3, <4>1, <4>2
    <3>2. active # {} => Newest(active) \in active
      <4> HIDE DEF active
      <4> QED BY <1>3, <3>1, NewestOfSome
    <3> HIDE DEF active
    <3> QED BY <1>3, <3>1, <3>2
  <2>2. Cardinality(ledger) \in Nat
    <3>1. IsFiniteSet(1..written) BY <1>3, FS_Interval
    <3> QED BY <1>1, <3>1, FS_Subset, FS_CardinalityType DEF StoreOK
  <2>3. Folded(previous, active) \subseteq 1..written
    BY <1>1, <2>1, LatestFacts DEF Folded
  <2> HIDE DEF active, last, previous
  <2> QED BY <2>1, <2>2, <2>3 DEF Draft
<1>21. draft' = draft \/ draft' = [draft EXCEPT ![c] = new] BY DEF Prepare
<1> HIDE DEF new
<1>4. LocksOK' BY <1>1, ClientKinds DEF Prepare, Unlock, locks, LocksOK, NoLock
<1>5. PcsOK' BY <1>1 DEF Prepare, Unlock, Goto, PcsOK, Pc, LoadPcs, WantsLock, Inside, Promoting
<1>6. WorkOK' BY <1>1 DEF Prepare, Unlock, WorkOK, Work, NoWork
<1>7. SeenOK' BY <1>1, <1>3 DEF Prepare, Unlock, SeenOK
<1>8. DraftOK' BY <1>1, <1>3, <1>20, <1>21 DEF DraftOK, Draft
<1>9. OnlyOwn(c)
  BY <1>1 DEF Prepare, Unlock, locks, Goto, OnlyOwn, LocksOK, PcsOK, WorkOK, SeenOK, DraftOK
<1>10. Role(c)'
  BY <1>1, <1>9, ClientKinds DEF Prepare, Unlock, locks, Sound, Role, Goto, PcsOK, Pc,
     LoadPcs, WantsLock, Inside, Promoting
<1>11. Copy(c)' BY <1>1, <1>3 DEF Prepare, Unlock, Sound, Copy, WorkOK, Goto, PcsOK
<1>12. Drafted(c)' BY <1>1 DEF Prepare, Unlock, Sound, Drafted, DraftOK, Goto, PcsOK
<1>13. Clearing(c)'
  BY <1>1, <1>3, ClientKinds DEF Prepare, Unlock, Sound, Clearing, SeenOK, Goto, PcsOK
<1> QED BY <1>2, <1>4, <1>5, <1>6, <1>7, <1>8, <1>9, <1>10, <1>11, <1>12, <1>13
           DEF ClientsOK, Keeps, Sound

LEMMA FoldKeeps == ASSUME Always, NEW c \in Client, Fold(c) PROVE Still /\ Keeps(c)
<1>1. LocksOK /\ PcsOK /\ WorkOK /\ SeenOK /\ DraftOK /\ StoreOK /\ Sound(c)
  BY DEF Always, ClientsOK
<1>2. Still BY DEF Fold, Unlock, Still, locks
<1>3. /\ made' = made /\ written' = written /\ ledger' = ledger /\ made \in Nat /\ written \in Nat
  BY <1>1, <1>2, StillStore DEF Grows
<1> HIDE DEF Entry, Lock, made
<1>21. draft' = draft \/ draft' = [draft EXCEPT ![c] = NoDraft] BY DEF Fold
<1>22. NoDraft \in Draft BY <1>3 DEF Draft, NoDraft
<1>26. Draft' = Draft BY <1>3 DEF Draft
<1>4. LocksOK' BY <1>1, ClientKinds DEF Fold, Unlock, locks, LocksOK, NoLock
<1>5. PcsOK' BY <1>1 DEF Fold, Unlock, Goto, PcsOK, Pc, LoadPcs, WantsLock, Inside, Promoting
<1>6. WorkOK' BY <1>1 DEF Fold, Unlock, WorkOK, Work, NoWork
<1>7. SeenOK' BY <1>1, <1>3 DEF Fold, Unlock, SeenOK
<1>8. DraftOK' BY <1>1, <1>21, <1>22, <1>26 DEF DraftOK
<1>9. OnlyOwn(c)
  BY <1>1, ClientKinds DEF Fold, Unlock, Sound, Role, locks, Goto, OnlyOwn, LocksOK, PcsOK,
     WorkOK, SeenOK, DraftOK
<1>10. Role(c)'
  BY <1>1, <1>9, ClientKinds DEF Fold, Unlock, locks, Sound, Role, Goto, PcsOK, Pc, LoadPcs,
     WantsLock, Inside, Promoting
<1>11. Copy(c)' BY <1>1, <1>3 DEF Fold, Unlock, Sound, Copy, WorkOK, Goto, PcsOK
<1>12. Drafted(c)' BY <1>1 DEF Fold, Unlock, Sound, Drafted, DraftOK, Goto, PcsOK
<1>13. Clearing(c)'
  BY <1>1, <1>3, ClientKinds DEF Fold, Unlock, Sound, Clearing, SeenOK, Goto, PcsOK
<1> QED BY <1>2, <1>4, <1>5, <1>6, <1>7, <1>8, <1>9, <1>10, <1>11, <1>12, <1>13
           DEF ClientsOK, Keeps, Sound

LEMMA ValidateKeeps == ASSUME Always, NEW c \in Client, Validate(c) PROVE Still /\ Keeps(c)
<1>1. LocksOK /\ PcsOK /\ WorkOK /\ SeenOK /\ DraftOK /\ StoreOK /\ Sound(c)
  BY DEF Always, ClientsOK
<1>2. Still BY DEF Validate, Still, locks
<1>3. /\ made' = made /\ written' = written /\ ledger' = ledger /\ made \in Nat /\ written \in Nat
  BY <1>1, <1>2, StillStore DEF Grows
<1> HIDE DEF Entry, Lock, made
<1>20. /\ draft[c] \in Draft /\ ledger \subseteq 1..written
       /\ draft[c].digest \subseteq 1..written /\ draft[c].last \in Nat
  BY <1>1, <1>3 DEF DraftOK, Draft, StoreOK
<1>21. \/ draft' = draft \/ draft' = [draft EXCEPT ![c] = NoDraft] BY DEF Validate
<1>22. NoDraft \in Draft BY <1>3 DEF Draft, NoDraft
<1>26. Draft' = Draft BY <1>3 DEF Draft
<1>23. \/ /\ pc' = [pc EXCEPT ![c] = "commit"] /\ draft' = draft /\ draft[c].last \in ledger
       \/ /\ draft' = [draft EXCEPT ![c] = NoDraft]
          /\ pc' = [pc EXCEPT ![c] = "fail"] \/ pc' = [pc EXCEPT ![c] = "ready"]
  BY DEF Validate, Goto
<1>4. LocksOK' BY <1>1, ClientKinds DEF Validate, locks, LocksOK, NoLock
<1>5. PcsOK' BY <1>1 DEF Validate, Goto, PcsOK, Pc, LoadPcs, WantsLock, Inside, Promoting
<1>6. WorkOK' BY <1>1 DEF Validate, WorkOK, Work, NoWork
<1>7. SeenOK' 
  <2>1. \/ seen' = seen
        \/ \E S \in SUBSET (1..written) : seen' = [seen EXCEPT ![c] = S]
    BY <1>20 DEF Validate
  <2> QED BY <1>1, <1>3, <2>1 DEF SeenOK
<1>8. DraftOK' BY <1>1, <1>21, <1>22, <1>26 DEF DraftOK
<1>9. OnlyOwn(c)
  BY <1>1 DEF Validate, locks, Goto, OnlyOwn, LocksOK, PcsOK, WorkOK, SeenOK, DraftOK
<1>10. Role(c)'
  BY <1>1, <1>9, ClientKinds DEF Validate, locks, Sound, Role, Goto, PcsOK, Pc, LoadPcs,
     WantsLock, Inside, Promoting
<1>11. Copy(c)' BY <1>1, <1>3 DEF Validate, Sound, Copy, WorkOK, Goto, PcsOK
<1>12. Drafted(c)' 
  <2>1. 0 \notin ledger BY <1>3, <1>20
  <2> QED BY <1>1, <1>23, <2>1 DEF Drafted, PcsOK, DraftOK
<1>13. Clearing(c)'
  BY <1>1, <1>3, ClientKinds DEF Validate, Sound, Clearing, SeenOK, Goto, PcsOK
<1> QED BY <1>2, <1>4, <1>5, <1>6, <1>7, <1>8, <1>9, <1>10, <1>11, <1>12, <1>13
           DEF ClientsOK, Keeps, Sound

LEMMA CommitCheckKeeps ==
    ASSUME Always, NEW c \in Client, CommitCheck(c)
    PROVE  Still /\ Keeps(c)
<1>1. LocksOK /\ PcsOK /\ WorkOK /\ SeenOK /\ DraftOK /\ StoreOK /\ Sound(c)
  BY DEF Always, ClientsOK
<1>2. Still BY DEF CommitCheck, Unlock, Still, locks
<1>3. /\ made' = made /\ written' = written /\ ledger' = ledger /\ made \in Nat /\ written \in Nat
  BY <1>1, <1>2, StillStore DEF Grows
<1> HIDE DEF Entry, Lock, made
<1>20. mid \in Seq(Entry) /\ IdsOf(mid) \subseteq 1..made /\ LastOf(mid) \subseteq 1..written
  BY <1>1 DEF StoreOK
<1>21. \/ /\ pc' = [pc EXCEPT ![c] = "commit2"] /\ draft' = draft
          /\ work' = [work EXCEPT ![c] = [work[c] EXCEPT !.keep = mid]]
       \/ /\ pc' = [pc EXCEPT ![c] = "fail"] /\ work' = work
          /\ draft' = [draft EXCEPT ![c] = NoDraft]
  BY <1>1 DEF CommitCheck, Goto, WorkOK
<1>22. [work[c] EXCEPT !.keep = mid] \in Work
  BY <1>1, <1>20 DEF WorkOK, Work
<1>25. pc[c] = "commit" /\ c \in Turn BY DEF CommitCheck
<1>4. LocksOK' BY <1>1, ClientKinds DEF CommitCheck, Unlock, locks, LocksOK, NoLock
<1>5. PcsOK' BY <1>1, <1>21 DEF PcsOK, Pc, Inside, WantsLock
<1>6. WorkOK' BY <1>1, <1>21, <1>22 DEF WorkOK
<1>7. SeenOK' BY <1>1, <1>3 DEF CommitCheck, Unlock, SeenOK
<1>8. DraftOK' BY <1>1, <1>3 DEF CommitCheck, Unlock, DraftOK, Draft, NoDraft
<1>9. OnlyOwn(c)
  BY <1>1 DEF CommitCheck, Unlock, locks, Goto, OnlyOwn, LocksOK, PcsOK, WorkOK, SeenOK, DraftOK
<1>10. Role(c)' BY <1>1, <1>9, <1>21, <1>25, ClientKinds DEF CommitCheck, Sound, Role, PcsOK
<1>11. Copy(c)' 
  <2>1. CASE pc' = [pc EXCEPT ![c] = "fail"] /\ work' = work
    BY <1>1, <1>3, <2>1 DEF Sound, Copy, PcsOK
  <2>2. CASE /\ work' = [work EXCEPT ![c] = [work[c] EXCEPT !.keep = mid]]
             /\ pc' = [pc EXCEPT ![c] = "commit2"]
    <3>1. work'[c].old = work[c].old /\ work'[c].keep = mid /\ work'[c].merged = work[c].merged
      BY <1>1, <1>22, <2>2 DEF WorkOK, Work
    <3>2. pc'[c] = "commit2" BY <1>1, <2>2 DEF PcsOK
    <3> QED BY <1>1, <1>3, <1>20, <3>1, <3>2 DEF Sound, Copy
  <2> QED BY <1>21, <2>1, <2>2
<1>12. Drafted(c)' BY <1>1 DEF CommitCheck, Unlock, Sound, Drafted, DraftOK, Goto, PcsOK
<1>13. Clearing(c)'
  BY <1>1, <1>3, ClientKinds DEF CommitCheck, Unlock, Sound, Clearing, SeenOK, Goto, PcsOK
<1> QED BY <1>2, <1>4, <1>5, <1>6, <1>7, <1>8, <1>9, <1>10, <1>11, <1>12, <1>13
           DEF ClientsOK, Keeps, Sound

LEMMA AgentReadKeeps == ASSUME Always, NEW c \in Client, AgentRead(c) PROVE Still /\ Keeps(c)
<1>1. LocksOK /\ PcsOK /\ WorkOK /\ SeenOK /\ DraftOK /\ StoreOK /\ Sound(c)
  BY DEF Always, ClientsOK
<1>2. Still BY DEF AgentRead, Unlock, Still, locks
<1>3. /\ made' = made /\ written' = written /\ ledger' = ledger /\ made \in Nat /\ written \in Nat
  BY <1>1, <1>2, StillStore DEF Grows
<1> HIDE DEF Entry, Lock, made
<1> DEFINE Redraft(d, n, S) == [d EXCEPT !.last = n, !.digest = S]
           new == Redraft(draft[c], Newest(ledger), seen[c])
<1>20. mid \in Seq(Entry) /\ IdsOf(mid) \subseteq 1..made /\ LastOf(mid) \subseteq 1..written
  BY <1>1 DEF StoreOK
<1>21. \/ pc' = [pc EXCEPT ![c] = "ready"] /\ work' = work /\ draft' = draft
       \/ /\ pc' = [pc EXCEPT ![c] = "agent2"] /\ draft' = [draft EXCEPT ![c] = new]
          /\ work' = [work EXCEPT ![c] = [work[c] EXCEPT !.old = mid]] /\ ledger # {}
  BY <1>1 DEF AgentRead, Goto, WorkOK, DraftOK
<1>22. [work[c] EXCEPT !.old = mid] \in Work
  BY <1>1, <1>20 DEF WorkOK, Work
<1>23. ledger # {} => new \in Draft /\ new.last # 0
  <2>1. ledger \in SUBSET (0..written) /\ ledger \subseteq 1..written BY <1>1, <1>3 DEF StoreOK
  <2>2. ledger # {} => Newest(ledger) \in 1..written BY <1>3, <2>1, NewestOfSome
  <2>3. draft[c] \in Draft /\ seen[c] \subseteq 1..written BY <1>1 DEF DraftOK, SeenOK
  <2>4. \A d \in Draft, n \in 0..written, S \in SUBSET (1..written) :
          Redraft(d, n, S) \in Draft /\ Redraft(d, n, S).last = n
    BY DEF Draft
  <2>5. ledger # {} => Newest(ledger) \in 0..written /\ Newest(ledger) # 0 BY <1>3, <2>2
  <2>6. seen[c] \in SUBSET (1..written) BY <2>3
  <2>7. ASSUME ledger # {} PROVE new \in Draft /\ new.last = Newest(ledger)
    <3> HIDE DEF Draft, Redraft
    <3> QED BY <2>3, <2>4, <2>5, <2>6, <2>7
  <2> QED BY <2>5, <2>7
<1>25. pc[c] = "agent" /\ c \in Turn BY DEF AgentRead
<1> HIDE DEF new
<1>4. LocksOK' BY <1>1, ClientKinds DEF AgentRead, Unlock, locks, LocksOK, NoLock
<1>5. PcsOK' BY <1>1, <1>21 DEF PcsOK, Pc, Inside, WantsLock
<1>6. WorkOK' BY <1>1, <1>21, <1>22 DEF WorkOK
<1>7. SeenOK' BY <1>1, <1>3 DEF AgentRead, Unlock, SeenOK
<1>8. DraftOK' BY <1>1, <1>3, <1>21, <1>23 DEF DraftOK, Draft
<1>9. OnlyOwn(c)
  BY <1>1 DEF AgentRead, Unlock, locks, Goto, OnlyOwn, LocksOK, PcsOK, WorkOK, SeenOK, DraftOK
<1>10. Role(c)' BY <1>1, <1>9, <1>21, <1>25, ClientKinds DEF AgentRead, Sound, Role, PcsOK
<1>11. Copy(c)' 
  <2>1. CASE pc' = [pc EXCEPT ![c] = "ready"] /\ work' = work
    BY <1>1, <1>3, <2>1 DEF Sound, Copy, PcsOK
  <2>2. CASE /\ work' = [work EXCEPT ![c] = [work[c] EXCEPT !.old = mid]]
             /\ pc' = [pc EXCEPT ![c] = "agent2"]
    <3>1. work'[c].old = mid /\ work'[c].keep = work[c].keep /\ work'[c].merged = work[c].merged
      BY <1>1, <1>22, <2>2 DEF WorkOK, Work
    <3>2. pc'[c] = "agent2" BY <1>1, <2>2 DEF PcsOK
    <3> QED BY <1>1, <1>3, <1>20, <3>1, <3>2 DEF Sound, Copy
  <2> QED BY <1>21, <2>1, <2>2
<1>12. Drafted(c)' BY <1>1, <1>21, <1>23, <1>25 DEF Sound, Drafted, PcsOK, DraftOK
<1>13. Clearing(c)'
  BY <1>1, <1>3, ClientKinds DEF AgentRead, Unlock, Sound, Clearing, SeenOK, Goto, PcsOK
<1> QED BY <1>2, <1>4, <1>5, <1>6, <1>7, <1>8, <1>9, <1>10, <1>11, <1>12, <1>13
           DEF ClientsOK, Keeps, Sound

LEMMA StartSaveKeeps == ASSUME Always, NEW c \in Client, StartSave(c) PROVE Still /\ Keeps(c)
<1>1. LocksOK /\ PcsOK /\ WorkOK /\ SeenOK /\ DraftOK /\ StoreOK /\ Sound(c)
  BY DEF Always, ClientsOK
<1>2. Still BY DEF StartSave, Still, locks
<1>3. /\ made' = made /\ written' = written /\ ledger' = ledger /\ made \in Nat /\ written \in Nat
  BY <1>1, <1>2, StillStore DEF Grows
<1> HIDE DEF Entry, Lock, made
<1>4. LocksOK' BY <1>1, ClientKinds DEF StartSave, locks, LocksOK, NoLock
<1>5. PcsOK' BY <1>1 DEF StartSave, Goto, PcsOK, Pc, LoadPcs, WantsLock, Inside, Promoting
<1>6. WorkOK' BY <1>1 DEF StartSave, WorkOK, Work, NoWork
<1>7. SeenOK' BY <1>1, <1>3 DEF StartSave, SeenOK
<1>8. DraftOK' BY <1>1, <1>3 DEF StartSave, DraftOK, Draft, NoDraft
<1>9. OnlyOwn(c)
  BY <1>1 DEF StartSave, locks, Goto, OnlyOwn, LocksOK, PcsOK, WorkOK, SeenOK, DraftOK
<1>10. Role(c)'
  BY <1>1, <1>9, ClientKinds DEF StartSave, locks, Sound, Role, Goto, PcsOK, Pc, LoadPcs,
     WantsLock, Inside, Promoting
<1>11. Copy(c)' BY <1>1, <1>3 DEF StartSave, Sound, Copy, WorkOK, Goto, PcsOK
<1>12. Drafted(c)' BY <1>1 DEF StartSave, Sound, Drafted, DraftOK, Goto, PcsOK
<1>13. Clearing(c)'
  BY <1>1, <1>3, ClientKinds DEF StartSave, Sound, Clearing, SeenOK, Goto, PcsOK
<1> QED BY <1>2, <1>4, <1>5, <1>6, <1>7, <1>8, <1>9, <1>10, <1>11, <1>12, <1>13
           DEF ClientsOK, Keeps, Sound

LEMMA StartClearKeeps == ASSUME Always, NEW c \in Client, StartClear(c) PROVE Still /\ Keeps(c)
<1>1. LocksOK /\ PcsOK /\ WorkOK /\ SeenOK /\ DraftOK /\ StoreOK /\ Sound(c)
  BY DEF Always, ClientsOK
<1>2. Still BY DEF StartClear, RunLockFree, Still, locks
<1>3. /\ made' = made /\ written' = written /\ ledger' = ledger /\ made \in Nat /\ written \in Nat
  BY <1>1, <1>2, StillStore DEF Grows
<1> HIDE DEF Entry, Lock, made
<1>4. LocksOK' BY <1>1, ClientKinds DEF StartClear, RunLockFree, locks, LocksOK, NoLock
<1>5. PcsOK'
  BY <1>1 DEF StartClear, RunLockFree, Goto, PcsOK, Pc, LoadPcs, WantsLock, Inside, Promoting
<1>6. WorkOK' BY <1>1 DEF StartClear, RunLockFree, WorkOK, Work, NoWork
<1>7. SeenOK' BY <1>1, <1>3 DEF StartClear, RunLockFree, SeenOK
<1>8. DraftOK' BY <1>1, <1>3 DEF StartClear, RunLockFree, DraftOK, Draft, NoDraft
<1>9. OnlyOwn(c)
  BY <1>1 DEF StartClear, RunLockFree, locks, Goto, OnlyOwn, LocksOK, PcsOK, WorkOK, SeenOK,
     DraftOK
<1>10. Role(c)'
  BY <1>1, <1>9, ClientKinds DEF StartClear, RunLockFree, locks, Sound, Role, Goto, PcsOK,
     Pc, LoadPcs, WantsLock, Inside, Promoting
<1>11. Copy(c)' BY <1>1, <1>3 DEF StartClear, RunLockFree, Sound, Copy, WorkOK, Goto, PcsOK
<1>12. Drafted(c)' BY <1>1 DEF StartClear, RunLockFree, Sound, Drafted, DraftOK, Goto, PcsOK
<1>13. Clearing(c)'
  BY <1>1, <1>3, ClientKinds DEF StartClear, RunLockFree, Sound, Clearing, SeenOK, Goto, PcsOK
<1> QED BY <1>2, <1>4, <1>5, <1>6, <1>7, <1>8, <1>9, <1>10, <1>11, <1>12, <1>13
           DEF ClientsOK, Keeps, Sound

LEMMA ClearMidKeeps == ASSUME Always, NEW c \in Client, ClearMid(c) PROVE Still /\ Keeps(c)
<1>1. LocksOK /\ PcsOK /\ WorkOK /\ SeenOK /\ DraftOK /\ StoreOK /\ Sound(c)
  BY DEF Always, ClientsOK
<1>2. Still BY DEF ClearMid, Still, locks
<1>3. /\ made' = made /\ written' = written /\ ledger' = ledger /\ made \in Nat /\ written \in Nat
  BY <1>1, <1>2, StillStore DEF Grows
<1> HIDE DEF Entry, Lock, made
<1>4. LocksOK' BY <1>1, ClientKinds DEF ClearMid, locks, LocksOK, NoLock
<1>5. PcsOK'
  BY <1>1 DEF ClearMid, Goto, PcsOK, Pc, LoadPcs, WantsLock, Inside, Promoting
<1>6. WorkOK' BY <1>1 DEF ClearMid, WorkOK, Work, NoWork
<1>7. SeenOK' BY <1>1, <1>3 DEF ClearMid, SeenOK
<1>8. DraftOK' BY <1>1, <1>3 DEF ClearMid, DraftOK, Draft, NoDraft
<1>9. OnlyOwn(c)
  BY <1>1 DEF ClearMid, locks, Goto, OnlyOwn, LocksOK, PcsOK, WorkOK, SeenOK,
     DraftOK
<1>10. Role(c)'
  BY <1>1, <1>9, ClientKinds DEF ClearMid, locks, Sound, Role, Goto, PcsOK,
     Pc, LoadPcs, WantsLock, Inside, Promoting
<1>11. Copy(c)' BY <1>1, <1>3 DEF ClearMid, Sound, Copy, WorkOK, Goto, PcsOK
<1>12. Drafted(c)' BY <1>1 DEF ClearMid, Sound, Drafted, DraftOK, Goto, PcsOK
<1>13. Clearing(c)'
  BY <1>1, <1>3, ClientKinds DEF ClearMid, Sound, Clearing, SeenOK, Goto, PcsOK
<1> QED BY <1>2, <1>4, <1>5, <1>6, <1>7, <1>8, <1>9, <1>10, <1>11, <1>12, <1>13
           DEF ClientsOK, Keeps, Sound

LEMMA ClearFailsKeeps == ASSUME Always, NEW c \in Client, ClearFails(c) PROVE Still /\ Keeps(c)
<1>1. LocksOK /\ PcsOK /\ WorkOK /\ SeenOK /\ DraftOK /\ StoreOK /\ Sound(c)
  BY DEF Always, ClientsOK
<1>2. Still BY DEF ClearFails, Unlock, Still, locks
<1>3. /\ made' = made /\ written' = written /\ ledger' = ledger /\ made \in Nat /\ written \in Nat
  BY <1>1, <1>2, StillStore DEF Grows
<1> HIDE DEF Entry, Lock, made
<1>4. LocksOK' BY <1>1, ClientKinds DEF ClearFails, Unlock, locks, LocksOK, NoLock
<1>5. PcsOK'
  BY <1>1 DEF ClearFails, Unlock, Goto, PcsOK, Pc, LoadPcs, WantsLock, Inside, Promoting
<1>6. WorkOK' BY <1>1 DEF ClearFails, Unlock, WorkOK, Work, NoWork
<1>7. SeenOK' BY <1>1, <1>3 DEF ClearFails, Unlock, SeenOK
<1>8. DraftOK' BY <1>1, <1>3 DEF ClearFails, Unlock, DraftOK, Draft, NoDraft
<1>9. OnlyOwn(c)
  BY <1>1, ClientKinds DEF ClearFails, Unlock, Sound, Role, locks, Goto, OnlyOwn, LocksOK, PcsOK, WorkOK, SeenOK,
     DraftOK
<1>10. Role(c)'
  BY <1>1, <1>9, ClientKinds DEF ClearFails, Unlock, locks, Sound, Role, Goto, PcsOK,
     Pc, LoadPcs, WantsLock, Inside, Promoting
<1>11. Copy(c)' BY <1>1, <1>3 DEF ClearFails, Unlock, Sound, Copy, WorkOK, Goto, PcsOK
<1>12. Drafted(c)'
  BY <1>1, ClientKinds DEF ClearFails, Unlock, Sound, Drafted, DraftOK, Goto, PcsOK
<1>13. Clearing(c)'
  BY <1>1, <1>3, ClientKinds DEF ClearFails, Unlock, Sound, Clearing, SeenOK, Goto, PcsOK
<1> QED BY <1>2, <1>4, <1>5, <1>6, <1>7, <1>8, <1>9, <1>10, <1>11, <1>12, <1>13
           DEF ClientsOK, Keeps, Sound

-----------------------------------------------------------------------------
(* The steps that write. *)

LEMMA NewText ==
    ASSUME StoreOK, NEW S \in SUBSET (1..written), text' = Append(text, S)
    PROVE  /\ made' = made + 1 /\ text' \in Seq(SUBSET (1..written))
           /\ \A s \in 1..made : text'[s] = text[s]
           /\ text'[made + 1] = S
<1>1. text \in Seq(SUBSET (1..written)) BY DEF StoreOK
<1> QED BY <1>1 DEF made

\* What the store has, and what it can widen to.
LEMMA StoreFacts ==
    ASSUME StoreOK
    PROVE  /\ made \in Nat /\ written \in Nat
           /\ \A s \in 1..made : text[s] \subseteq 1..written
           /\ 1..made \subseteq 1..(made + 1) /\ 1..written \subseteq 1..(written + 1)
           /\ made + 1 \in 1..(made + 1) /\ written + 1 \in 1..(written + 1)
<1>1. text \in Seq(SUBSET (1..written)) /\ written \in Nat BY DEF StoreOK
<1>2. made \in Nat /\ \A s \in 1..made : text[s] \in SUBSET (1..written) BY <1>1 DEF made
<1> QED BY <1>1, <1>2

LEMMA WriteAlways ==
    ASSUME Always, NEW c \in Client, StoreOK', Grows, (ledger \cap forgotten = {})', Keeps(c)
    PROVE  Always'
<1>1. \A d \in Client : Sound(d)' BY SoundOthers DEF Always, Keeps
<1> QED BY <1>1 DEF Always, Keeps

LEMMA PromoteWriteLongStore == ASSUME Always, NEW c \in Client, PromoteWriteLong(c)
    PROVE StoreOK' /\ Grows /\ (ledger \cap forgotten = {})'
<1> DEFINE new == [id |-> made + 1, last |-> Last(work[c].old).last]
<1>1. LocksOK /\ PcsOK /\ WorkOK /\ SeenOK /\ DraftOK /\ StoreOK /\ Sound(c)
      /\ ledger \cap forgotten = {}
  BY DEF Always, ClientsOK
<1>2. /\ made \in Nat /\ written \in Nat
      /\ \A s \in 1..made : text[s] \subseteq 1..written
      /\ 1..made \subseteq 1..(made + 1) /\ 1..written \subseteq 1..(written + 1)
      /\ made + 1 \in 1..(made + 1) /\ written + 1 \in 1..(written + 1)
  BY <1>1, StoreFacts
<1>10. work[c].old \in Seq(Entry) /\ work[c].old # <<>>
  BY <1>1 DEF PromoteWriteLong, WorkOK, Work, Sound, Copy
<1>11. PromotedDigest(work[c]) \subseteq 1..written
  <2>1. IdsOf(work[c].old) \cup IdsOf(work[c].merged) \subseteq 1..made BY <1>1 DEF Sound, Copy
  <2> QED BY <1>2, <2>1 DEF PromotedDigest
<1>12. /\ text' = Append(text, PromotedDigest(work[c])) /\ long' = <<new>>
       /\ longFiles' = longFiles \cup {made + 1}
       /\ written' = written /\ ledger' = ledger /\ inputs' = inputs /\ mid' = mid
       /\ midFiles' = midFiles /\ aged' = aged /\ crashes' = crashes
       /\ torn' = torn /\ forgotten' = forgotten
  BY DEF PromoteWriteLong, NewSummary, Promoted, history
<1>13. new \in Entry /\ new.id = made + 1 /\ new.last \in 1..written
  <2>1. Last(work[c].old) \in Of(work[c].old) /\ LastOf(work[c].old) \subseteq 1..written
        /\ LastOf(work[c].old) = {e.last : e \in Of(work[c].old)} /\ made \in Nat
    BY <1>1, <1>2, <1>10, OfIsRange DEF Sound, Copy
  <2> QED BY <2>1 DEF Entry, new
<1> HIDE DEF new, made, Entry
<1>14. made' = made + 1 /\ text' \in Seq(SUBSET (1..written))
  <2>1. PromotedDigest(work[c]) \in SUBSET (1..written) BY <1>11
  <2> HIDE DEF PromotedDigest
  <2> QED BY <1>1, <1>12, <2>1, NewText
<1>15. long' \in Seq(Entry) /\ Len(long') <= 1 /\ IdsOf(long') \subseteq 1..made' /\ LastOf(long') \subseteq 1..written
  <2>1. <<new>> \in Seq(Entry) /\ Len(<<new>>) = 1 /\ Of(<<new>>) = {new} BY <1>13, OfOne
  <2>2. IdsOf(<<new>>) = {new.id} /\ LastOf(<<new>>) = {new.last} BY <2>1, OfIsRange
  <2> QED BY <1>2, <1>12, <1>13, <1>14, <2>1, <2>2
<1>16. mid' \in Seq(Entry) /\ IdsOf(mid') \subseteq 1..made' /\ LastOf(mid') \subseteq 1..written
  BY <1>1, <1>2, <1>12, <1>14 DEF StoreOK
<1>17. raced' \in BOOLEAN BY <1>1 DEF StoreOK, PromoteWriteLong, Raced
<1>18. midFiles' \cup longFiles' \cup aged' \cup torn' \subseteq 1..made'
  BY <1>1, <1>2, <1>12, <1>14 DEF StoreOK
<1>19. Grows BY <1>2, <1>12, <1>14 DEF Grows
<1>20. StoreOK' BY <1>1, <1>2, <1>12, <1>14, <1>15, <1>16, <1>17, <1>18 DEF StoreOK
<1> QED BY <1>1, <1>12, <1>19, <1>20

LEMMA PromoteWriteLongKeeps ==
    ASSUME Always, NEW c \in Client, PromoteWriteLong(c)
    PROVE  Keeps(c) /\ StoreOK' /\ Grows /\ (ledger \cap forgotten = {})'
<1>1. LocksOK /\ PcsOK /\ WorkOK /\ SeenOK /\ DraftOK /\ StoreOK /\ Sound(c)
  BY DEF Always, ClientsOK
<1>2. StoreOK' /\ Grows /\ (ledger \cap forgotten = {})' BY PromoteWriteLongStore
<1>3. 1..made \subseteq 1..made' /\ 1..written \subseteq 1..written' BY <1>2 DEF Grows
<1> HIDE DEF Entry, Lock, made
<1>22. NoWork \in Work BY DEF Work, NoWork
<1>23. NoDraft \in Draft' /\ Draft \subseteq Draft'
  <2>1. written \in Nat /\ written' \in Nat /\ written <= written' BY <1>2 DEF Grows
  <2>2. NoDraft \in Draft' BY <2>1 DEF Draft, NoDraft
  <2>3. 0..written \subseteq 0..written' BY <2>1
  <2>4. Draft \subseteq Draft' BY <1>3, <2>3 DEF Draft
  <2> QED BY <2>2, <2>4
<1>4. LocksOK' BY <1>1, ClientKinds DEF PromoteWriteLong, locks, LocksOK, NoLock
<1>5. PcsOK'
  BY <1>1 DEF PromoteWriteLong, Goto, PcsOK, Pc, LoadPcs, WantsLock, Inside, Promoting
<1>6. WorkOK' BY <1>1, <1>22 DEF PromoteWriteLong, WorkOK
<1>7. SeenOK' BY <1>1, <1>3 DEF PromoteWriteLong, SeenOK
<1>8. DraftOK' BY <1>1, <1>23 DEF PromoteWriteLong, DraftOK
<1>9. OnlyOwn(c)
  BY <1>1, ClientKinds DEF PromoteWriteLong, locks, Goto, OnlyOwn, Sound, Role, LocksOK,
     PcsOK, WorkOK, SeenOK, DraftOK
<1>10. Role(c)'
  BY <1>1, <1>9, ClientKinds DEF PromoteWriteLong, locks, Sound, Role, Goto, PcsOK, Pc,
     LoadPcs, WantsLock, Inside, Promoting
<1>11. Copy(c)' 
  <2>1. work' = work \/ work' = [work EXCEPT ![c] = NoWork] BY DEF PromoteWriteLong
  <2>2. pc'[c] \notin {"longs", "compress", "wlong"} BY <1>1 DEF PromoteWriteLong, Goto, PcsOK
  <2>3. CASE work' = work BY <1>1, <1>3, <2>2, <2>3 DEF Sound, Copy
  <2>4. CASE work' = [work EXCEPT ![c] = NoWork]
    BY <1>1, <2>2, <2>4 DEF Copy, WorkOK, NoWork, IdsOf, LastOf
  <2> QED BY <2>1, <2>3, <2>4
<1>12. Drafted(c)'
  BY <1>1, ClientKinds DEF PromoteWriteLong, Sound, Drafted, DraftOK, Goto, PcsOK
<1>13. Clearing(c)'
  BY <1>1, <1>3, ClientKinds DEF PromoteWriteLong, Sound, Clearing, SeenOK, Goto, PcsOK
<1> QED BY <1>2, <1>4, <1>5, <1>6, <1>7, <1>8, <1>9, <1>10, <1>11, <1>12, <1>13
           DEF ClientsOK, Keeps, Sound

LEMMA PromoteWriteMidStore == ASSUME Always, NEW c \in Client, PromoteWriteMid(c)
    PROVE StoreOK' /\ Grows /\ (ledger \cap forgotten = {})'
<1>1. LocksOK /\ PcsOK /\ WorkOK /\ SeenOK /\ DraftOK /\ StoreOK /\ Sound(c)
      /\ ledger \cap forgotten = {}
  BY DEF Always, ClientsOK
<1>2. /\ made \in Nat /\ written \in Nat
      /\ \A s \in 1..made : text[s] \subseteq 1..written
      /\ 1..made \subseteq 1..(made + 1) /\ 1..written \subseteq 1..(written + 1)
      /\ made + 1 \in 1..(made + 1) /\ written + 1 \in 1..(written + 1)
  BY <1>1, StoreFacts
<1>10. work[c].keep \in Seq(Entry) /\ IdsOf(work[c].keep) \subseteq 1..made /\ LastOf(work[c].keep) \subseteq 1..written
  BY <1>1 DEF Sound, Copy, WorkOK, Work
<1>11. mid' = work[c].keep BY DEF PromoteWriteMid, KeptIndex
<1>12. /\ written' = written /\ ledger' = ledger /\ inputs' = inputs /\ long' = long /\ text' = text
       /\ midFiles' = midFiles /\ longFiles' = longFiles /\ aged' = aged /\ crashes' = crashes
       /\ torn' = torn
       /\ forgotten' = forgotten /\ made' = made
  BY DEF PromoteWriteMid, history, made
<1>13. raced' \in BOOLEAN BY <1>1 DEF StoreOK, PromoteWriteMid, Raced
<1>14. Grows BY <1>2, <1>12 DEF Grows
<1> HIDE DEF made, Entry
<1>15. StoreOK' BY <1>1, <1>10, <1>11, <1>12, <1>13 DEF StoreOK, IdsOf, LastOf
<1> QED BY <1>1, <1>12, <1>14, <1>15

LEMMA PromoteWriteMidKeeps ==
    ASSUME Always, NEW c \in Client, PromoteWriteMid(c)
    PROVE  Keeps(c) /\ StoreOK' /\ Grows /\ (ledger \cap forgotten = {})'
<1>1. LocksOK /\ PcsOK /\ WorkOK /\ SeenOK /\ DraftOK /\ StoreOK /\ Sound(c)
  BY DEF Always, ClientsOK
<1>2. StoreOK' /\ Grows /\ (ledger \cap forgotten = {})' BY PromoteWriteMidStore
<1>3. 1..made \subseteq 1..made' /\ 1..written \subseteq 1..written' BY <1>2 DEF Grows
<1> HIDE DEF Entry, Lock, made
<1>22. NoWork \in Work BY DEF Work, NoWork
<1>23. NoDraft \in Draft' /\ Draft \subseteq Draft'
  <2>1. written \in Nat /\ written' \in Nat /\ written <= written' BY <1>2 DEF Grows
  <2>2. NoDraft \in Draft' BY <2>1 DEF Draft, NoDraft
  <2>3. 0..written \subseteq 0..written' BY <2>1
  <2>4. Draft \subseteq Draft' BY <1>3, <2>3 DEF Draft
  <2> QED BY <2>2, <2>4
<1>4. LocksOK' BY <1>1, ClientKinds DEF PromoteWriteMid, locks, LocksOK, NoLock
<1>5. PcsOK' BY <1>1 DEF PromoteWriteMid, Goto, PcsOK, Pc, LoadPcs, WantsLock, Inside, Promoting
<1>6. WorkOK' BY <1>1, <1>22 DEF PromoteWriteMid, WorkOK
<1>7. SeenOK' BY <1>1, <1>3 DEF PromoteWriteMid, SeenOK
<1>8. DraftOK' BY <1>1, <1>23 DEF PromoteWriteMid, DraftOK
<1>9. OnlyOwn(c)
  BY <1>1, ClientKinds DEF PromoteWriteMid, locks, Goto, OnlyOwn, Sound, Role, LocksOK,
     PcsOK, WorkOK, SeenOK, DraftOK
<1>10. Role(c)'
  BY <1>1, <1>9, ClientKinds DEF PromoteWriteMid, locks, Sound, Role, Goto, PcsOK, Pc,
     LoadPcs, WantsLock, Inside, Promoting
<1>11. Copy(c)' 
  <2>1. work' = work \/ work' = [work EXCEPT ![c] = NoWork] BY DEF PromoteWriteMid
  <2>2. pc'[c] \notin {"longs", "compress", "wlong"} BY <1>1 DEF PromoteWriteMid, Goto, PcsOK
  <2>3. CASE work' = work BY <1>1, <1>3, <2>2, <2>3 DEF Sound, Copy
  <2>4. CASE work' = [work EXCEPT ![c] = NoWork]
    BY <1>1, <2>2, <2>4 DEF Copy, WorkOK, NoWork, IdsOf, LastOf
  <2> QED BY <2>1, <2>3, <2>4
<1>12. Drafted(c)'
  BY <1>1, ClientKinds DEF PromoteWriteMid, Sound, Drafted, DraftOK, Goto, PcsOK
<1>13. Clearing(c)'
  BY <1>1, <1>3, ClientKinds DEF PromoteWriteMid, Sound, Clearing, SeenOK, Goto, PcsOK
<1> QED BY <1>2, <1>4, <1>5, <1>6, <1>7, <1>8, <1>9, <1>10, <1>11, <1>12, <1>13
           DEF ClientsOK, Keeps, Sound

LEMMA PromoteCleanStore == ASSUME Always, NEW c \in Client, PromoteClean(c)
    PROVE StoreOK' /\ Grows /\ (ledger \cap forgotten = {})'
<1>1. LocksOK /\ PcsOK /\ WorkOK /\ SeenOK /\ DraftOK /\ StoreOK /\ Sound(c)
      /\ ledger \cap forgotten = {}
  BY DEF Always, ClientsOK
<1>2. /\ made \in Nat /\ written \in Nat
      /\ \A s \in 1..made : text[s] \subseteq 1..written
      /\ 1..made \subseteq 1..(made + 1) /\ 1..written \subseteq 1..(written + 1)
      /\ made + 1 \in 1..(made + 1) /\ written + 1 \in 1..(written + 1)
  BY <1>1, StoreFacts
<1>12. /\ written' = written /\ ledger' = ledger /\ inputs' = inputs /\ mid' = mid /\ long' = long
       /\ text' = text /\ aged' = aged /\ crashes' = crashes
       /\ torn' = torn /\ forgotten' = forgotten
       /\ made' = made /\ raced' = raced /\ midFiles' \subseteq midFiles /\ longFiles' \subseteq longFiles
  BY DEF PromoteClean, history, made
<1>14. Grows BY <1>2, <1>12 DEF Grows
<1> HIDE DEF made, Entry
<1>15. StoreOK' BY <1>1, <1>12 DEF StoreOK, IdsOf, LastOf
<1> QED BY <1>1, <1>12, <1>14, <1>15

LEMMA PromoteCleanKeeps ==
    ASSUME Always, NEW c \in Client, PromoteClean(c)
    PROVE  Keeps(c) /\ StoreOK' /\ Grows /\ (ledger \cap forgotten = {})'
<1>1. LocksOK /\ PcsOK /\ WorkOK /\ SeenOK /\ DraftOK /\ StoreOK /\ Sound(c)
  BY DEF Always, ClientsOK
<1>2. StoreOK' /\ Grows /\ (ledger \cap forgotten = {})' BY PromoteCleanStore
<1>3. 1..made \subseteq 1..made' /\ 1..written \subseteq 1..written' BY <1>2 DEF Grows
<1> HIDE DEF Entry, Lock, made
<1>22. NoWork \in Work BY DEF Work, NoWork
<1>23. NoDraft \in Draft' /\ Draft \subseteq Draft'
  <2>1. written \in Nat /\ written' \in Nat /\ written <= written' BY <1>2 DEF Grows
  <2>2. NoDraft \in Draft' BY <2>1 DEF Draft, NoDraft
  <2>3. 0..written \subseteq 0..written' BY <2>1
  <2>4. Draft \subseteq Draft' BY <1>3, <2>3 DEF Draft
  <2> QED BY <2>2, <2>4
<1>4. LocksOK' BY <1>1, ClientKinds DEF PromoteClean, locks, LocksOK, NoLock
<1>5. PcsOK' BY <1>1 DEF PromoteClean, Goto, PcsOK, Pc, LoadPcs, WantsLock, Inside, Promoting
<1>6. WorkOK' BY <1>1, <1>22 DEF PromoteClean, WorkOK
<1>7. SeenOK' BY <1>1, <1>3 DEF PromoteClean, SeenOK
<1>8. DraftOK' BY <1>1, <1>23 DEF PromoteClean, DraftOK
<1>9. OnlyOwn(c)
  BY <1>1, ClientKinds DEF PromoteClean, locks, Goto, OnlyOwn, Sound, Role, LocksOK, PcsOK,
     WorkOK, SeenOK, DraftOK
<1>10. Role(c)'
  BY <1>1, <1>9, ClientKinds DEF PromoteClean, locks, Sound, Role, Goto, PcsOK, Pc, LoadPcs,
     WantsLock, Inside, Promoting
<1>11. Copy(c)' 
  <2>1. work' = work \/ work' = [work EXCEPT ![c] = NoWork] BY DEF PromoteClean
  <2>2. pc'[c] \notin {"longs", "compress", "wlong"} BY <1>1 DEF PromoteClean, Goto, PcsOK
  <2>3. CASE work' = work BY <1>1, <1>3, <2>2, <2>3 DEF Sound, Copy
  <2>4. CASE work' = [work EXCEPT ![c] = NoWork]
    BY <1>1, <2>2, <2>4 DEF Copy, WorkOK, NoWork, IdsOf, LastOf
  <2> QED BY <2>1, <2>3, <2>4
<1>12. Drafted(c)' BY <1>1, ClientKinds DEF PromoteClean, Sound, Drafted, DraftOK, Goto, PcsOK
<1>13. Clearing(c)'
  BY <1>1, <1>3, ClientKinds DEF PromoteClean, Sound, Clearing, SeenOK, Goto, PcsOK
<1> QED BY <1>2, <1>4, <1>5, <1>6, <1>7, <1>8, <1>9, <1>10, <1>11, <1>12, <1>13
           DEF ClientsOK, Keeps, Sound

LEMMA CommitWriteStore == ASSUME Always, NEW c \in Client, CommitWrite(c)
    PROVE StoreOK' /\ Grows /\ (ledger \cap forgotten = {})'
<1> DEFINE new == [id |-> made + 1, last |-> draft[c].last]
<1>1. LocksOK /\ PcsOK /\ WorkOK /\ SeenOK /\ DraftOK /\ StoreOK /\ Sound(c)
      /\ ledger \cap forgotten = {}
  BY DEF Always, ClientsOK
<1>2. /\ made \in Nat /\ written \in Nat
      /\ \A s \in 1..made : text[s] \subseteq 1..written
      /\ 1..made \subseteq 1..(made + 1) /\ 1..written \subseteq 1..(written + 1)
      /\ made + 1 \in 1..(made + 1) /\ written + 1 \in 1..(written + 1)
  BY <1>1, StoreFacts
<1>10. c \in Turn /\ work[c].keep \in Seq(Entry) /\ draft[c].digest \subseteq 1..written
       /\ draft[c].last \in 1..written
  <2>1. c \in Turn /\ pc[c] = "commit2" BY DEF CommitWrite
  <2>2. draft[c] \in Draft /\ work[c] \in Work /\ draft[c].last # 0
    BY <1>1, <2>1 DEF Sound, Drafted, DraftOK, WorkOK
  <2> QED BY <1>2, <2>1, <2>2 DEF Draft, Work
<1>12. /\ text' = Append(text, draft[c].digest) /\ mid' = Append(work[c].keep, new)
       /\ midFiles' = midFiles \cup {made + 1}
       /\ written' = written /\ ledger' = ledger /\ inputs' = inputs /\ long' = long
       /\ longFiles' = longFiles /\ aged' = aged /\ crashes' = crashes
       /\ torn' = torn /\ forgotten' = forgotten
  BY DEF CommitWrite, NewSummary, history
<1>13. new \in Entry /\ new.id = made + 1 /\ new.last \in 1..written
  BY <1>2, <1>10 DEF Entry, new
<1> HIDE DEF new, made, Entry
<1>14. made' = made + 1 /\ text' \in Seq(SUBSET (1..written))
  <2>1. draft[c].digest \in SUBSET (1..written) BY <1>10
  <2> HIDE DEF PromotedDigest
  <2> QED BY <1>1, <1>12, <2>1, NewText
<1>15. mid' \in Seq(Entry) /\ IdsOf(mid') \subseteq 1..made' /\ LastOf(mid') \subseteq 1..written
  <2>1. mid' \in Seq(Entry) /\ Of(mid') = Of(work[c].keep) \cup {new}
    BY <1>10, <1>12, <1>13, OfAppend
  <2>2. IdsOf(work[c].keep) = {e.id : e \in Of(work[c].keep)} /\ LastOf(work[c].keep) = {e.last : e \in Of(work[c].keep)}
    BY <1>10, OfIsRange
  <2>3. IdsOf(work[c].keep) \subseteq 1..made /\ LastOf(work[c].keep) \subseteq 1..written
    BY <1>1 DEF Sound, Copy
  <2>4. IdsOf(mid') = {e.id : e \in Of(mid')} /\ LastOf(mid') = {e.last : e \in Of(mid')}
    BY <2>1, OfIsRange
  <2>5. IdsOf(mid') = IdsOf(work[c].keep) \cup {new.id} /\ LastOf(mid') = LastOf(work[c].keep) \cup {new.last}
    BY <2>1, <2>2, <2>4
  <2> QED BY <1>2, <1>13, <1>14, <2>1, <2>3, <2>5
<1>16. long' \in Seq(Entry) /\ Len(long') <= 1 /\ IdsOf(long') \subseteq 1..made' /\ LastOf(long') \subseteq 1..written
  BY <1>1, <1>2, <1>12, <1>14 DEF StoreOK
<1>17. raced' \in BOOLEAN BY <1>1 DEF StoreOK, CommitWrite, Raced
<1>18. midFiles' \cup longFiles' \cup aged' \cup torn' \subseteq 1..made'
  BY <1>1, <1>2, <1>12, <1>14 DEF StoreOK
<1>19. Grows BY <1>2, <1>12, <1>14 DEF Grows
<1>20. StoreOK' BY <1>1, <1>2, <1>12, <1>14, <1>15, <1>16, <1>17, <1>18 DEF StoreOK
<1> QED BY <1>1, <1>12, <1>19, <1>20

LEMMA CommitWriteKeeps ==
    ASSUME Always, NEW c \in Client, CommitWrite(c)
    PROVE  Keeps(c) /\ StoreOK' /\ Grows /\ (ledger \cap forgotten = {})'
<1>1. LocksOK /\ PcsOK /\ WorkOK /\ SeenOK /\ DraftOK /\ StoreOK /\ Sound(c)
  BY DEF Always, ClientsOK
<1>2. StoreOK' /\ Grows /\ (ledger \cap forgotten = {})' BY CommitWriteStore
<1>3. 1..made \subseteq 1..made' /\ 1..written \subseteq 1..written' BY <1>2 DEF Grows
<1> HIDE DEF Entry, Lock, made
<1>22. NoWork \in Work BY DEF Work, NoWork
<1>23. NoDraft \in Draft' /\ Draft \subseteq Draft'
  <2>1. written \in Nat /\ written' \in Nat /\ written <= written' BY <1>2 DEF Grows
  <2>2. NoDraft \in Draft' BY <2>1 DEF Draft, NoDraft
  <2>3. 0..written \subseteq 0..written' BY <2>1
  <2>4. Draft \subseteq Draft' BY <1>3, <2>3 DEF Draft
  <2> QED BY <2>2, <2>4
<1>4. LocksOK' BY <1>1, ClientKinds DEF CommitWrite, ForgetLock, Unlock, locks, LocksOK, NoLock
<1>5. PcsOK'
  BY <1>1 DEF CommitWrite, ForgetLock, Unlock, Goto, PcsOK, Pc, LoadPcs, WantsLock, Inside,
     Promoting
<1>6. WorkOK' BY <1>1, <1>22 DEF CommitWrite, ForgetLock, Unlock, WorkOK
<1>7. SeenOK' BY <1>1, <1>3 DEF CommitWrite, ForgetLock, Unlock, SeenOK
<1>8. DraftOK' BY <1>1, <1>23 DEF CommitWrite, ForgetLock, Unlock, DraftOK
<1>9. OnlyOwn(c)
  BY <1>1, ClientKinds DEF CommitWrite, ForgetLock, Unlock, locks, Goto, OnlyOwn, Sound,
     Role, LocksOK, PcsOK, WorkOK, SeenOK, DraftOK
<1>10. Role(c)'
  BY <1>1, <1>9, ClientKinds DEF CommitWrite, ForgetLock, Unlock, locks, Sound, Role, Goto,
     PcsOK, Pc, LoadPcs, WantsLock, Inside, Promoting
<1>11. Copy(c)' 
  <2>1. work' = work \/ work' = [work EXCEPT ![c] = NoWork]
    BY DEF CommitWrite, ForgetLock, Unlock
  <2>2. pc'[c] \notin {"longs", "compress", "wlong"}
    BY <1>1 DEF CommitWrite, ForgetLock, Unlock, Goto, PcsOK
  <2>3. CASE work' = work BY <1>1, <1>3, <2>2, <2>3 DEF Sound, Copy
  <2>4. CASE work' = [work EXCEPT ![c] = NoWork]
    BY <1>1, <2>2, <2>4 DEF Copy, WorkOK, NoWork, IdsOf, LastOf
  <2> QED BY <2>1, <2>3, <2>4
<1>12. Drafted(c)'
  BY <1>1, ClientKinds DEF CommitWrite, ForgetLock, Unlock, Sound, Drafted, DraftOK, Goto, PcsOK
<1>13. Clearing(c)'
  BY <1>1, <1>3, ClientKinds DEF CommitWrite, ForgetLock, Unlock, Sound, Clearing, SeenOK,
     Goto, PcsOK
<1> QED BY <1>2, <1>4, <1>5, <1>6, <1>7, <1>8, <1>9, <1>10, <1>11, <1>12, <1>13
           DEF ClientsOK, Keeps, Sound

LEMMA AgentWriteStore == ASSUME Always, NEW c \in Client, AgentWrite(c)
    PROVE StoreOK' /\ Grows /\ (ledger \cap forgotten = {})'
<1> DEFINE new == [id |-> made + 1, last |-> draft[c].last]
<1>1. LocksOK /\ PcsOK /\ WorkOK /\ SeenOK /\ DraftOK /\ StoreOK /\ Sound(c)
      /\ ledger \cap forgotten = {}
  BY DEF Always, ClientsOK
<1>2. /\ made \in Nat /\ written \in Nat
      /\ \A s \in 1..made : text[s] \subseteq 1..written
      /\ 1..made \subseteq 1..(made + 1) /\ 1..written \subseteq 1..(written + 1)
      /\ made + 1 \in 1..(made + 1) /\ written + 1 \in 1..(written + 1)
  BY <1>1, StoreFacts
<1>10. c \in Turn /\ draft[c].digest \subseteq 1..written
       /\ draft[c].last \in 1..written
  <2>1. c \in Turn /\ pc[c] = "agent2" BY DEF AgentWrite
  <2>2. draft[c] \in Draft /\ work[c] \in Work /\ draft[c].last # 0
    BY <1>1, <2>1 DEF Sound, Drafted, DraftOK, WorkOK
  <2> QED BY <1>2, <2>1, <2>2 DEF Draft, Work
<1>12. /\ text' = Append(text, draft[c].digest) /\ mid' = <<new>>
       /\ midFiles' = midFiles \cup {made + 1}
       /\ written' = written /\ ledger' = ledger /\ inputs' = inputs /\ long' = long
       /\ longFiles' = longFiles /\ aged' = aged /\ crashes' = crashes
       /\ torn' = torn /\ forgotten' = forgotten
  BY DEF AgentWrite, NewSummary, history
<1>13. new \in Entry /\ new.id = made + 1 /\ new.last \in 1..written
  BY <1>2, <1>10 DEF Entry, new
<1> HIDE DEF new, made, Entry
<1>14. made' = made + 1 /\ text' \in Seq(SUBSET (1..written))
  <2>1. draft[c].digest \in SUBSET (1..written) BY <1>10
  <2> HIDE DEF PromotedDigest
  <2> QED BY <1>1, <1>12, <2>1, NewText
<1>15. mid' \in Seq(Entry) /\ IdsOf(mid') \subseteq 1..made' /\ LastOf(mid') \subseteq 1..written
  <2>1. <<new>> \in Seq(Entry) /\ Of(<<new>>) = {new} BY <1>13, OfOne
  <2>2. IdsOf(<<new>>) = {new.id} /\ LastOf(<<new>>) = {new.last} BY <2>1, OfIsRange
  <2> QED BY <1>2, <1>12, <1>13, <1>14, <2>1, <2>2
<1>16. long' \in Seq(Entry) /\ Len(long') <= 1 /\ IdsOf(long') \subseteq 1..made' /\ LastOf(long') \subseteq 1..written
  BY <1>1, <1>2, <1>12, <1>14 DEF StoreOK
<1>17. raced' \in BOOLEAN BY <1>1 DEF StoreOK, AgentWrite, Raced
<1>18. midFiles' \cup longFiles' \cup aged' \cup torn' \subseteq 1..made'
  BY <1>1, <1>2, <1>12, <1>14 DEF StoreOK
<1>19. Grows BY <1>2, <1>12, <1>14 DEF Grows
<1>20. StoreOK' BY <1>1, <1>2, <1>12, <1>14, <1>15, <1>16, <1>17, <1>18 DEF StoreOK
<1> QED BY <1>1, <1>12, <1>19, <1>20

LEMMA AgentWriteKeeps ==
    ASSUME Always, NEW c \in Client, AgentWrite(c)
    PROVE  Keeps(c) /\ StoreOK' /\ Grows /\ (ledger \cap forgotten = {})'
<1>1. LocksOK /\ PcsOK /\ WorkOK /\ SeenOK /\ DraftOK /\ StoreOK /\ Sound(c)
  BY DEF Always, ClientsOK
<1>2. StoreOK' /\ Grows /\ (ledger \cap forgotten = {})' BY AgentWriteStore
<1>3. 1..made \subseteq 1..made' /\ 1..written \subseteq 1..written' BY <1>2 DEF Grows
<1> HIDE DEF Entry, Lock, made
<1>22. NoWork \in Work BY DEF Work, NoWork
<1>23. NoDraft \in Draft' /\ Draft \subseteq Draft'
  <2>1. written \in Nat /\ written' \in Nat /\ written <= written' BY <1>2 DEF Grows
  <2>2. NoDraft \in Draft' BY <2>1 DEF Draft, NoDraft
  <2>3. 0..written \subseteq 0..written' BY <2>1
  <2>4. Draft \subseteq Draft' BY <1>3, <2>3 DEF Draft
  <2> QED BY <2>2, <2>4
<1>4. LocksOK' BY <1>1, ClientKinds DEF AgentWrite, locks, LocksOK, NoLock
<1>5. PcsOK' BY <1>1 DEF AgentWrite, Goto, PcsOK, Pc, LoadPcs, WantsLock, Inside, Promoting
<1>6. WorkOK' BY <1>1, <1>22 DEF AgentWrite, WorkOK
<1>7. SeenOK' BY <1>1, <1>3 DEF AgentWrite, SeenOK
<1>8. DraftOK' BY <1>1, <1>23 DEF AgentWrite, DraftOK
<1>9. OnlyOwn(c)
  BY <1>1, ClientKinds DEF AgentWrite, locks, Goto, OnlyOwn, Sound, Role, LocksOK, PcsOK,
     WorkOK, SeenOK, DraftOK
<1>10. Role(c)'
  BY <1>1, <1>9, ClientKinds DEF AgentWrite, locks, Sound, Role, Goto, PcsOK, Pc, LoadPcs,
     WantsLock, Inside, Promoting
<1>11. Copy(c)' 
  <2>1. work' = work \/ work' = [work EXCEPT ![c] = NoWork] BY DEF AgentWrite
  <2>2. pc'[c] \notin {"longs", "compress", "wlong"} BY <1>1 DEF AgentWrite, Goto, PcsOK
  <2>3. CASE work' = work BY <1>1, <1>3, <2>2, <2>3 DEF Sound, Copy
  <2>4. CASE work' = [work EXCEPT ![c] = NoWork]
    BY <1>1, <2>2, <2>4 DEF Copy, WorkOK, NoWork, IdsOf, LastOf
  <2> QED BY <2>1, <2>3, <2>4
<1>12. Drafted(c)' BY <1>1, ClientKinds DEF AgentWrite, Sound, Drafted, DraftOK, Goto, PcsOK
<1>13. Clearing(c)'
  BY <1>1, <1>3, ClientKinds DEF AgentWrite, Sound, Clearing, SeenOK, Goto, PcsOK
<1> QED BY <1>2, <1>4, <1>5, <1>6, <1>7, <1>8, <1>9, <1>10, <1>11, <1>12, <1>13
           DEF ClientsOK, Keeps, Sound

LEMMA AgentCleanStore == ASSUME Always, NEW c \in Client, AgentClean(c)
    PROVE StoreOK' /\ Grows /\ (ledger \cap forgotten = {})'
<1>1. LocksOK /\ PcsOK /\ WorkOK /\ SeenOK /\ DraftOK /\ StoreOK /\ Sound(c)
      /\ ledger \cap forgotten = {}
  BY DEF Always, ClientsOK
<1>2. /\ made \in Nat /\ written \in Nat
      /\ \A s \in 1..made : text[s] \subseteq 1..written
      /\ 1..made \subseteq 1..(made + 1) /\ 1..written \subseteq 1..(written + 1)
      /\ made + 1 \in 1..(made + 1) /\ written + 1 \in 1..(written + 1)
  BY <1>1, StoreFacts
<1>12. /\ written' = written /\ ledger' = ledger /\ inputs' = inputs /\ mid' = mid /\ long' = long
       /\ text' = text /\ aged' = aged /\ crashes' = crashes
       /\ torn' = torn /\ forgotten' = forgotten
       /\ made' = made /\ raced' = raced /\ midFiles' \subseteq midFiles /\ longFiles' \subseteq longFiles
  BY DEF AgentClean, history, made
<1>14. Grows BY <1>2, <1>12 DEF Grows
<1> HIDE DEF made, Entry
<1>15. StoreOK' BY <1>1, <1>12 DEF StoreOK, IdsOf, LastOf
<1> QED BY <1>1, <1>12, <1>14, <1>15

LEMMA AgentCleanKeeps ==
    ASSUME Always, NEW c \in Client, AgentClean(c)
    PROVE  Keeps(c) /\ StoreOK' /\ Grows /\ (ledger \cap forgotten = {})'
<1>1. LocksOK /\ PcsOK /\ WorkOK /\ SeenOK /\ DraftOK /\ StoreOK /\ Sound(c)
  BY DEF Always, ClientsOK
<1>2. StoreOK' /\ Grows /\ (ledger \cap forgotten = {})' BY AgentCleanStore
<1>3. 1..made \subseteq 1..made' /\ 1..written \subseteq 1..written' BY <1>2 DEF Grows
<1> HIDE DEF Entry, Lock, made
<1>22. NoWork \in Work BY DEF Work, NoWork
<1>23. NoDraft \in Draft' /\ Draft \subseteq Draft'
  <2>1. written \in Nat /\ written' \in Nat /\ written <= written' BY <1>2 DEF Grows
  <2>2. NoDraft \in Draft' BY <2>1 DEF Draft, NoDraft
  <2>3. 0..written \subseteq 0..written' BY <2>1
  <2>4. Draft \subseteq Draft' BY <1>3, <2>3 DEF Draft
  <2> QED BY <2>2, <2>4
<1>4. LocksOK' BY <1>1, ClientKinds DEF AgentClean, ForgetLock, Unlock, locks, LocksOK, NoLock
<1>5. PcsOK'
  BY <1>1 DEF AgentClean, ForgetLock, Unlock, Goto, PcsOK, Pc, LoadPcs, WantsLock, Inside,
     Promoting
<1>6. WorkOK' BY <1>1, <1>22 DEF AgentClean, ForgetLock, Unlock, WorkOK
<1>7. SeenOK' BY <1>1, <1>3 DEF AgentClean, ForgetLock, Unlock, SeenOK
<1>8. DraftOK' BY <1>1, <1>23 DEF AgentClean, ForgetLock, Unlock, DraftOK
<1>9. OnlyOwn(c)
  BY <1>1, ClientKinds DEF AgentClean, ForgetLock, Unlock, locks, Goto, OnlyOwn, Sound, Role,
     LocksOK, PcsOK, WorkOK, SeenOK, DraftOK
<1>10. Role(c)'
  BY <1>1, <1>9, ClientKinds DEF AgentClean, ForgetLock, Unlock, locks, Sound, Role, Goto,
     PcsOK, Pc, LoadPcs, WantsLock, Inside, Promoting
<1>11. Copy(c)' 
  <2>1. work' = work \/ work' = [work EXCEPT ![c] = NoWork]
    BY DEF AgentClean, ForgetLock, Unlock
  <2>2. pc'[c] \notin {"longs", "compress", "wlong"}
    BY <1>1 DEF AgentClean, ForgetLock, Unlock, Goto, PcsOK
  <2>3. CASE work' = work BY <1>1, <1>3, <2>2, <2>3 DEF Sound, Copy
  <2>4. CASE work' = [work EXCEPT ![c] = NoWork]
    BY <1>1, <2>2, <2>4 DEF Copy, WorkOK, NoWork, IdsOf, LastOf
  <2> QED BY <2>1, <2>3, <2>4
<1>12. Drafted(c)'
  BY <1>1, ClientKinds DEF AgentClean, ForgetLock, Unlock, Sound, Drafted, DraftOK, Goto, PcsOK
<1>13. Clearing(c)'
  BY <1>1, <1>3, ClientKinds DEF AgentClean, ForgetLock, Unlock, Sound, Clearing, SeenOK,
     Goto, PcsOK
<1> QED BY <1>2, <1>4, <1>5, <1>6, <1>7, <1>8, <1>9, <1>10, <1>11, <1>12, <1>13
           DEF ClientsOK, Keeps, Sound

LEMMA EndTurnStore == ASSUME Always, NEW c \in Client, EndTurn(c)
    PROVE StoreOK' /\ Grows /\ (ledger \cap forgotten = {})'
<1>1. LocksOK /\ PcsOK /\ WorkOK /\ SeenOK /\ DraftOK /\ StoreOK /\ Sound(c)
      /\ ledger \cap forgotten = {}
  BY DEF Always, ClientsOK
<1>2. /\ made \in Nat /\ written \in Nat
      /\ \A s \in 1..made : text[s] \subseteq 1..written
      /\ 1..made \subseteq 1..(made + 1) /\ 1..written \subseteq 1..(written + 1)
      /\ made + 1 \in 1..(made + 1) /\ written + 1 \in 1..(written + 1)
  BY <1>1, StoreFacts
<1>12. /\ written' = written + 1 /\ ledger' = ledger \cup {written + 1}
       /\ inputs' = inputs \/ inputs' = inputs \cup {written + 1}
       /\ mid' = mid /\ long' = long
       /\ text' = text /\ aged' = aged /\ crashes' = crashes
       /\ torn' = torn /\ forgotten' = forgotten
       /\ made' = made /\ raced' = raced /\ midFiles' = midFiles /\ longFiles' = longFiles
  BY DEF EndTurn, AppendMessage, history, made
<1>14. Grows BY <1>2, <1>12 DEF Grows
<1>15. /\ ledger' \subseteq 1..written' /\ inputs' \subseteq ledger' /\ forgotten' \subseteq 1..written'
       /\ (ledger \cap forgotten = {})'
  <2>1. ledger \subseteq 1..written /\ inputs \subseteq ledger /\ forgotten \subseteq 1..written
    BY <1>1 DEF StoreOK
  <2>2. (written + 1) \notin 1..written BY <1>2
  <2> QED BY <1>1, <1>2, <1>12, <2>1, <2>2
<1>16. text' \in Seq(SUBSET (1..written'))
  <2>1. text \in Seq(SUBSET (1..written)) BY <1>1 DEF StoreOK
  <2>2. SUBSET (1..written) \subseteq SUBSET (1..(written + 1)) BY <1>2
  <2>3. \A s \in Seq(SUBSET (1..written)) : s \in Seq(SUBSET (1..(written + 1))) BY <2>2
  <2> QED BY <1>12, <2>1, <2>3
<1> HIDE DEF made, Entry
<1>17. /\ mid' \in Seq(Entry) /\ long' \in Seq(Entry) /\ Len(long') <= 1 /\ crashes' \in 0..MaxCrashes
       /\ IdsOf(mid') \cup IdsOf(long') \cup midFiles' \cup longFiles' \cup aged' \cup torn' \subseteq 1..made'
       /\ LastOf(mid') \cup LastOf(long') \subseteq 1..written' /\ raced' \in BOOLEAN
  BY <1>1, <1>2, <1>12 DEF StoreOK
<1>18. StoreOK' BY <1>2, <1>12, <1>15, <1>16, <1>17 DEF StoreOK
<1> QED BY <1>14, <1>15, <1>18

LEMMA EndTurnKeeps ==
    ASSUME Always, NEW c \in Client, EndTurn(c)
    PROVE  Keeps(c) /\ StoreOK' /\ Grows /\ (ledger \cap forgotten = {})'
<1>1. LocksOK /\ PcsOK /\ WorkOK /\ SeenOK /\ DraftOK /\ StoreOK /\ Sound(c)
  BY DEF Always, ClientsOK
<1>2. StoreOK' /\ Grows /\ (ledger \cap forgotten = {})' BY EndTurnStore
<1>3. 1..made \subseteq 1..made' /\ 1..written \subseteq 1..written' BY <1>2 DEF Grows
<1> HIDE DEF Entry, Lock, made
<1>22. NoWork \in Work BY DEF Work, NoWork
<1>23. NoDraft \in Draft' /\ Draft \subseteq Draft'
  <2>1. written \in Nat /\ written' \in Nat /\ written <= written' BY <1>2 DEF Grows
  <2>2. NoDraft \in Draft' BY <2>1 DEF Draft, NoDraft
  <2>3. 0..written \subseteq 0..written' BY <2>1
  <2>4. Draft \subseteq Draft' BY <1>3, <2>3 DEF Draft
  <2> QED BY <2>2, <2>4
<1>4. LocksOK'
  BY <1>1, ClientKinds DEF EndTurn, ForgetLock, Unlock, AppendMessage, locks, LocksOK, NoLock
<1>5. PcsOK'
  BY <1>1 DEF EndTurn, ForgetLock, Unlock, AppendMessage, Goto, PcsOK, Pc, LoadPcs,
     WantsLock, Inside, Promoting
<1>6. WorkOK' BY <1>1, <1>22 DEF EndTurn, ForgetLock, Unlock, AppendMessage, WorkOK
<1>7. SeenOK' BY <1>1, <1>3 DEF EndTurn, ForgetLock, Unlock, AppendMessage, SeenOK
<1>8. DraftOK' BY <1>1, <1>23 DEF EndTurn, ForgetLock, Unlock, AppendMessage, DraftOK
<1>9. OnlyOwn(c)
  BY <1>1, ClientKinds DEF EndTurn, ForgetLock, Unlock, AppendMessage, locks, Goto, OnlyOwn,
     Sound, Role, LocksOK, PcsOK, WorkOK, SeenOK, DraftOK
<1>10. Role(c)'
  BY <1>1, <1>9, ClientKinds DEF EndTurn, ForgetLock, Unlock, AppendMessage, locks, Sound,
     Role, Goto, PcsOK, Pc, LoadPcs, WantsLock, Inside, Promoting
<1>11. Copy(c)' 
  <2>1. work' = work \/ work' = [work EXCEPT ![c] = NoWork]
    BY DEF EndTurn, ForgetLock, Unlock, AppendMessage
  <2>2. pc'[c] \notin {"longs", "compress", "wlong"}
    BY <1>1 DEF EndTurn, ForgetLock, Unlock, AppendMessage, Goto, PcsOK
  <2>3. CASE work' = work BY <1>1, <1>3, <2>2, <2>3 DEF Sound, Copy
  <2>4. CASE work' = [work EXCEPT ![c] = NoWork]
    BY <1>1, <2>2, <2>4 DEF Copy, WorkOK, NoWork, IdsOf, LastOf
  <2> QED BY <2>1, <2>3, <2>4
<1>12. Drafted(c)'
  BY <1>1, ClientKinds DEF EndTurn, ForgetLock, Unlock, AppendMessage, Sound, Drafted,
     DraftOK, Goto, PcsOK
<1>13. Clearing(c)'
  BY <1>1, <1>3, ClientKinds DEF EndTurn, ForgetLock, Unlock, AppendMessage, Sound, Clearing,
     SeenOK, Goto, PcsOK
<1> QED BY <1>2, <1>4, <1>5, <1>6, <1>7, <1>8, <1>9, <1>10, <1>11, <1>12, <1>13
           DEF ClientsOK, Keeps, Sound

LEMMA PreserveInputsStore == ASSUME Always, NEW c \in Client, PreserveInputs(c)
    PROVE StoreOK' /\ Grows /\ (ledger \cap forgotten = {})'
<1>1. LocksOK /\ PcsOK /\ WorkOK /\ SeenOK /\ DraftOK /\ StoreOK /\ Sound(c)
      /\ ledger \cap forgotten = {}
  BY DEF Always, ClientsOK
<1>2. /\ made \in Nat /\ written \in Nat
      /\ \A s \in 1..made : text[s] \subseteq 1..written
      /\ 1..made \subseteq 1..(made + 1) /\ 1..written \subseteq 1..(written + 1)
      /\ made + 1 \in 1..(made + 1) /\ written + 1 \in 1..(written + 1)
  BY <1>1, StoreFacts
<1>12. /\ written' = written + 1 /\ ledger' = ledger \cup {written + 1}
       /\ inputs' = inputs \/ inputs' = inputs \cup {written + 1}
       /\ mid' = mid /\ long' = long
       /\ text' = text /\ aged' = aged /\ crashes' = crashes
       /\ torn' = torn /\ forgotten' = forgotten
       /\ made' = made /\ raced' = raced /\ midFiles' = midFiles /\ longFiles' = longFiles
  BY DEF PreserveInputs, AppendMessage, history, made
<1>14. Grows BY <1>2, <1>12 DEF Grows
<1>15. /\ ledger' \subseteq 1..written' /\ inputs' \subseteq ledger' /\ forgotten' \subseteq 1..written'
       /\ (ledger \cap forgotten = {})'
  <2>1. ledger \subseteq 1..written /\ inputs \subseteq ledger /\ forgotten \subseteq 1..written
    BY <1>1 DEF StoreOK
  <2>2. (written + 1) \notin 1..written BY <1>2
  <2> QED BY <1>1, <1>2, <1>12, <2>1, <2>2
<1>16. text' \in Seq(SUBSET (1..written'))
  <2>1. text \in Seq(SUBSET (1..written)) BY <1>1 DEF StoreOK
  <2>2. SUBSET (1..written) \subseteq SUBSET (1..(written + 1)) BY <1>2
  <2>3. \A s \in Seq(SUBSET (1..written)) : s \in Seq(SUBSET (1..(written + 1))) BY <2>2
  <2> QED BY <1>12, <2>1, <2>3
<1> HIDE DEF made, Entry
<1>17. /\ mid' \in Seq(Entry) /\ long' \in Seq(Entry) /\ Len(long') <= 1 /\ crashes' \in 0..MaxCrashes
       /\ IdsOf(mid') \cup IdsOf(long') \cup midFiles' \cup longFiles' \cup aged' \cup torn' \subseteq 1..made'
       /\ LastOf(mid') \cup LastOf(long') \subseteq 1..written' /\ raced' \in BOOLEAN
  BY <1>1, <1>2, <1>12 DEF StoreOK
<1>18. StoreOK' BY <1>2, <1>12, <1>15, <1>16, <1>17 DEF StoreOK
<1> QED BY <1>14, <1>15, <1>18

LEMMA PreserveInputsKeeps ==
    ASSUME Always, NEW c \in Client, PreserveInputs(c)
    PROVE  Keeps(c) /\ StoreOK' /\ Grows /\ (ledger \cap forgotten = {})'
<1>1. LocksOK /\ PcsOK /\ WorkOK /\ SeenOK /\ DraftOK /\ StoreOK /\ Sound(c)
  BY DEF Always, ClientsOK
<1>2. StoreOK' /\ Grows /\ (ledger \cap forgotten = {})' BY PreserveInputsStore
<1>3. 1..made \subseteq 1..made' /\ 1..written \subseteq 1..written' BY <1>2 DEF Grows
<1> HIDE DEF Entry, Lock, made
<1>22. NoWork \in Work BY DEF Work, NoWork
<1>23. NoDraft \in Draft' /\ Draft \subseteq Draft'
  <2>1. written \in Nat /\ written' \in Nat /\ written <= written' BY <1>2 DEF Grows
  <2>2. NoDraft \in Draft' BY <2>1 DEF Draft, NoDraft
  <2>3. 0..written \subseteq 0..written' BY <2>1
  <2>4. Draft \subseteq Draft' BY <1>3, <2>3 DEF Draft
  <2> QED BY <2>2, <2>4
<1>4. LocksOK'
  BY <1>1, ClientKinds DEF PreserveInputs, ForgetLock, Unlock, AppendMessage, locks, LocksOK,
     NoLock
<1>5. PcsOK'
  BY <1>1 DEF PreserveInputs, ForgetLock, Unlock, AppendMessage, Goto, PcsOK, Pc, LoadPcs,
     WantsLock, Inside, Promoting
<1>6. WorkOK' BY <1>1, <1>22 DEF PreserveInputs, ForgetLock, Unlock, AppendMessage, WorkOK
<1>7. SeenOK' BY <1>1, <1>3 DEF PreserveInputs, ForgetLock, Unlock, AppendMessage, SeenOK
<1>8. DraftOK' BY <1>1, <1>23 DEF PreserveInputs, ForgetLock, Unlock, AppendMessage, DraftOK
<1>9. OnlyOwn(c)
  BY <1>1, ClientKinds DEF PreserveInputs, ForgetLock, Unlock, AppendMessage, locks, Goto,
     OnlyOwn, Sound, Role, LocksOK, PcsOK, WorkOK, SeenOK, DraftOK
<1>10. Role(c)'
  BY <1>1, <1>9, ClientKinds DEF PreserveInputs, ForgetLock, Unlock, AppendMessage, locks,
     Sound, Role, Goto, PcsOK, Pc, LoadPcs, WantsLock, Inside, Promoting
<1>11. Copy(c)' 
  <2>1. work' = work \/ work' = [work EXCEPT ![c] = NoWork]
    BY DEF PreserveInputs, ForgetLock, Unlock, AppendMessage
  <2>2. pc'[c] \notin {"longs", "compress", "wlong"}
    BY <1>1 DEF PreserveInputs, ForgetLock, Unlock, AppendMessage, Goto, PcsOK
  <2>3. CASE work' = work BY <1>1, <1>3, <2>2, <2>3 DEF Sound, Copy
  <2>4. CASE work' = [work EXCEPT ![c] = NoWork]
    BY <1>1, <2>2, <2>4 DEF Copy, WorkOK, NoWork, IdsOf, LastOf
  <2> QED BY <2>1, <2>3, <2>4
<1>12. Drafted(c)'
  BY <1>1, ClientKinds DEF PreserveInputs, ForgetLock, Unlock, AppendMessage, Sound, Drafted,
     DraftOK, Goto, PcsOK
<1>13. Clearing(c)'
  BY <1>1, <1>3, ClientKinds DEF PreserveInputs, ForgetLock, Unlock, AppendMessage, Sound,
     Clearing, SeenOK, Goto, PcsOK
<1> QED BY <1>2, <1>4, <1>5, <1>6, <1>7, <1>8, <1>9, <1>10, <1>11, <1>12, <1>13
           DEF ClientsOK, Keeps, Sound

LEMMA ClearLedgerStore == ASSUME Always, NEW c \in Client, ClearLedger(c)
    PROVE StoreOK' /\ Grows /\ (ledger \cap forgotten = {})'
<1>1. LocksOK /\ PcsOK /\ WorkOK /\ SeenOK /\ DraftOK /\ StoreOK /\ Sound(c)
      /\ ledger \cap forgotten = {}
  BY DEF Always, ClientsOK
<1>2. /\ made \in Nat /\ written \in Nat
      /\ \A s \in 1..made : text[s] \subseteq 1..written
      /\ 1..made \subseteq 1..(made + 1) /\ 1..written \subseteq 1..(written + 1)
      /\ made + 1 \in 1..(made + 1) /\ written + 1 \in 1..(written + 1)
  BY <1>1, StoreFacts
<1>12. /\ written' = written /\ ledger' \subseteq ledger /\ inputs' \subseteq ledger'
       /\ mid' \in {mid, <<>>} /\ long' \in {long, <<>>}
       /\ text' = text /\ aged' = aged /\ crashes' = crashes /\ torn' = torn
       /\ made' = made /\ midFiles' \subseteq midFiles /\ longFiles' \subseteq longFiles
  BY <1>1 DEF ClearLedger, history, made, StoreOK
<1>13. raced' \in BOOLEAN BY <1>1 DEF StoreOK, ClearLedger, Raced
<1>14. Grows BY <1>2, <1>12 DEF Grows
<1>15. forgotten' \subseteq 1..written /\ ledger' \cap forgotten' = {}
  BY <1>1, <1>12 DEF ClearLedger, history, StoreOK
<1> HIDE DEF made, Entry
<1>16. /\ mid' \in Seq(Entry) /\ IdsOf(mid') \subseteq 1..made /\ LastOf(mid') \subseteq 1..written
       /\ long' \in Seq(Entry) /\ Len(long') <= 1 /\ IdsOf(long') \subseteq 1..made /\ LastOf(long') \subseteq 1..written
  <2>1. <<>> \in Seq(Entry) /\ IdsOf(<<>>) = {} /\ LastOf(<<>>) = {} /\ Len(<<>>) = 0
    BY OfNone, OfIsRange
  <2>2. CASE mid' = mid /\ long' = long BY <1>1, <2>2 DEF StoreOK
  <2>3. CASE mid' = <<>> /\ long' = long BY <1>1, <2>1, <2>3 DEF StoreOK
  <2>4. CASE mid' = mid /\ long' = <<>> BY <1>1, <2>1, <2>4 DEF StoreOK
  <2>5. CASE mid' = <<>> /\ long' = <<>> BY <2>1, <2>5
  <2> QED BY <1>12, <2>2, <2>3, <2>4, <2>5
<1>17. StoreOK' BY <1>1, <1>12, <1>13, <1>15, <1>16 DEF StoreOK
<1> QED BY <1>14, <1>15, <1>17

LEMMA ClearLedgerKeeps ==
    ASSUME Always, NEW c \in Client, ClearLedger(c)
    PROVE  Keeps(c) /\ StoreOK' /\ Grows /\ (ledger \cap forgotten = {})'
<1>1. LocksOK /\ PcsOK /\ WorkOK /\ SeenOK /\ DraftOK /\ StoreOK /\ Sound(c)
  BY DEF Always, ClientsOK
<1>2. StoreOK' /\ Grows /\ (ledger \cap forgotten = {})' BY ClearLedgerStore
<1>3. 1..made \subseteq 1..made' /\ 1..written \subseteq 1..written' BY <1>2 DEF Grows
<1> HIDE DEF Entry, Lock, made
<1>22. NoWork \in Work BY DEF Work, NoWork
<1>23. NoDraft \in Draft' /\ Draft \subseteq Draft'
  <2>1. written \in Nat /\ written' \in Nat /\ written <= written' BY <1>2 DEF Grows
  <2>2. NoDraft \in Draft' BY <2>1 DEF Draft, NoDraft
  <2>3. 0..written \subseteq 0..written' BY <2>1
  <2>4. Draft \subseteq Draft' BY <1>3, <2>3 DEF Draft
  <2> QED BY <2>2, <2>4
<1>4. LocksOK' BY <1>1, ClientKinds DEF ClearLedger, locks, LocksOK, NoLock
<1>5. PcsOK' BY <1>1 DEF ClearLedger, Goto, PcsOK, Pc, LoadPcs, WantsLock, Inside, Promoting
<1>6. WorkOK' BY <1>1, <1>22 DEF ClearLedger, WorkOK
<1>7. SeenOK' BY <1>1, <1>3 DEF ClearLedger, SeenOK, StoreOK
<1>8. DraftOK' BY <1>1, <1>23 DEF ClearLedger, DraftOK
<1>9. OnlyOwn(c)
  BY <1>1, ClientKinds DEF ClearLedger, locks, Goto, OnlyOwn, Sound, Role, LocksOK, PcsOK,
     WorkOK, SeenOK, DraftOK
<1>10. Role(c)'
  BY <1>1, <1>9, ClientKinds DEF ClearLedger, locks, Sound, Role, Goto, PcsOK, Pc, LoadPcs,
     WantsLock, Inside, Promoting
<1>11. Copy(c)' 
  <2>1. work' = work \/ work' = [work EXCEPT ![c] = NoWork] BY DEF ClearLedger
  <2>2. pc'[c] \notin {"longs", "compress", "wlong"} BY <1>1 DEF ClearLedger, Goto, PcsOK
  <2>3. CASE work' = work BY <1>1, <1>3, <2>2, <2>3 DEF Sound, Copy
  <2>4. CASE work' = [work EXCEPT ![c] = NoWork]
    BY <1>1, <2>2, <2>4 DEF Copy, WorkOK, NoWork, IdsOf, LastOf
  <2> QED BY <2>1, <2>3, <2>4
<1>12. Drafted(c)' BY <1>1, ClientKinds DEF ClearLedger, Sound, Drafted, DraftOK, Goto, PcsOK
<1>13. Clearing(c)'
  BY <1>1, <1>3, ClientKinds DEF ClearLedger, Sound, Clearing, SeenOK, Goto, PcsOK
<1> QED BY <1>2, <1>4, <1>5, <1>6, <1>7, <1>8, <1>9, <1>10, <1>11, <1>12, <1>13
           DEF ClientsOK, Keeps, Sound

LEMMA RemoveMidStore == ASSUME Always, NEW c \in Client, RemoveMid(c)
    PROVE StoreOK' /\ Grows /\ (ledger \cap forgotten = {})'
<1>1. LocksOK /\ PcsOK /\ WorkOK /\ SeenOK /\ DraftOK /\ StoreOK /\ Sound(c)
      /\ ledger \cap forgotten = {}
  BY DEF Always, ClientsOK
<1>2. /\ made \in Nat /\ written \in Nat
      /\ \A s \in 1..made : text[s] \subseteq 1..written
      /\ 1..made \subseteq 1..(made + 1) /\ 1..written \subseteq 1..(written + 1)
      /\ made + 1 \in 1..(made + 1) /\ written + 1 \in 1..(written + 1)
  BY <1>1, StoreFacts
<1>12. /\ written' = written /\ ledger' \subseteq ledger /\ inputs' \subseteq ledger'
       /\ mid' \in {mid, <<>>} /\ long' \in {long, <<>>}
       /\ text' = text /\ aged' = aged /\ crashes' = crashes
       /\ made' = made /\ midFiles' \subseteq midFiles /\ longFiles' \subseteq longFiles
       /\ torn' \subseteq torn \cup midFiles \cup longFiles
  BY <1>1 DEF RemoveMid, made, StoreOK
<1>13. raced' \in BOOLEAN BY <1>1 DEF StoreOK, RemoveMid, Raced
<1>14. Grows BY <1>2, <1>12 DEF Grows
<1>15. forgotten' \subseteq 1..written /\ ledger' \cap forgotten' = {}
  BY <1>1, <1>12 DEF RemoveMid, StoreOK
<1> HIDE DEF made, Entry
<1>16. /\ mid' \in Seq(Entry) /\ IdsOf(mid') \subseteq 1..made /\ LastOf(mid') \subseteq 1..written
       /\ long' \in Seq(Entry) /\ Len(long') <= 1 /\ IdsOf(long') \subseteq 1..made /\ LastOf(long') \subseteq 1..written
  <2>1. <<>> \in Seq(Entry) /\ IdsOf(<<>>) = {} /\ LastOf(<<>>) = {} /\ Len(<<>>) = 0
    BY OfNone, OfIsRange
  <2>2. CASE mid' = mid /\ long' = long BY <1>1, <2>2 DEF StoreOK
  <2>3. CASE mid' = <<>> /\ long' = long BY <1>1, <2>1, <2>3 DEF StoreOK
  <2>4. CASE mid' = mid /\ long' = <<>> BY <1>1, <2>1, <2>4 DEF StoreOK
  <2>5. CASE mid' = <<>> /\ long' = <<>> BY <2>1, <2>5
  <2> QED BY <1>12, <2>2, <2>3, <2>4, <2>5
<1>17. StoreOK' BY <1>1, <1>12, <1>13, <1>15, <1>16 DEF StoreOK
<1> QED BY <1>14, <1>15, <1>17

LEMMA RemoveMidKeeps ==
    ASSUME Always, NEW c \in Client, RemoveMid(c)
    PROVE  Keeps(c) /\ StoreOK' /\ Grows /\ (ledger \cap forgotten = {})'
<1>1. LocksOK /\ PcsOK /\ WorkOK /\ SeenOK /\ DraftOK /\ StoreOK /\ Sound(c)
  BY DEF Always, ClientsOK
<1>2. StoreOK' /\ Grows /\ (ledger \cap forgotten = {})' BY RemoveMidStore
<1>3. 1..made \subseteq 1..made' /\ 1..written \subseteq 1..written' BY <1>2 DEF Grows
<1> HIDE DEF Entry, Lock, made
<1>22. NoWork \in Work BY DEF Work, NoWork
<1>23. NoDraft \in Draft' /\ Draft \subseteq Draft'
  <2>1. written \in Nat /\ written' \in Nat /\ written <= written' BY <1>2 DEF Grows
  <2>2. NoDraft \in Draft' BY <2>1 DEF Draft, NoDraft
  <2>3. 0..written \subseteq 0..written' BY <2>1
  <2>4. Draft \subseteq Draft' BY <1>3, <2>3 DEF Draft
  <2> QED BY <2>2, <2>4
<1>4. LocksOK' BY <1>1, ClientKinds DEF RemoveMid, locks, LocksOK, NoLock
<1>5. PcsOK' BY <1>1 DEF RemoveMid, PcsOK, Pc, LoadPcs, WantsLock, Inside, Promoting
<1>6. WorkOK' BY <1>1, <1>22 DEF RemoveMid, WorkOK
<1>7. SeenOK' BY <1>1, <1>3 DEF RemoveMid, SeenOK
<1>8. DraftOK' BY <1>1, <1>23 DEF RemoveMid, DraftOK
<1>9. OnlyOwn(c)
  BY <1>1, ClientKinds DEF RemoveMid, locks, Goto, OnlyOwn, Sound, Role, LocksOK, PcsOK,
     WorkOK, SeenOK, DraftOK
<1>10. Role(c)'
  BY <1>1, <1>9, ClientKinds DEF RemoveMid, locks, Sound, Role, Goto, PcsOK, Pc, LoadPcs,
     WantsLock, Inside, Promoting
<1>11. Copy(c)' 
  <2>1. work' = work \/ work' = [work EXCEPT ![c] = NoWork] BY DEF RemoveMid
  <2>2. pc'[c] \notin {"longs", "compress", "wlong"} BY <1>1 DEF RemoveMid, PcsOK
  <2>3. CASE work' = work BY <1>1, <1>3, <2>2, <2>3 DEF Sound, Copy
  <2>4. CASE work' = [work EXCEPT ![c] = NoWork]
    BY <1>1, <2>2, <2>4 DEF Copy, WorkOK, NoWork, IdsOf, LastOf
  <2> QED BY <2>1, <2>3, <2>4
<1>12. Drafted(c)' BY <1>1, ClientKinds DEF RemoveMid, Sound, Drafted, DraftOK, Goto, PcsOK
<1>13. Clearing(c)'
  BY <1>1, <1>3, ClientKinds DEF RemoveMid, Sound, Clearing, SeenOK, Goto, PcsOK
<1> QED BY <1>2, <1>4, <1>5, <1>6, <1>7, <1>8, <1>9, <1>10, <1>11, <1>12, <1>13
           DEF ClientsOK, Keeps, Sound

LEMMA RemoveLongStore == ASSUME Always, NEW c \in Client, RemoveLong(c)
    PROVE StoreOK' /\ Grows /\ (ledger \cap forgotten = {})'
<1>1. LocksOK /\ PcsOK /\ WorkOK /\ SeenOK /\ DraftOK /\ StoreOK /\ Sound(c)
      /\ ledger \cap forgotten = {}
  BY DEF Always, ClientsOK
<1>2. /\ made \in Nat /\ written \in Nat
      /\ \A s \in 1..made : text[s] \subseteq 1..written
      /\ 1..made \subseteq 1..(made + 1) /\ 1..written \subseteq 1..(written + 1)
      /\ made + 1 \in 1..(made + 1) /\ written + 1 \in 1..(written + 1)
  BY <1>1, StoreFacts
<1>12. /\ written' = written /\ ledger' \subseteq ledger /\ inputs' \subseteq ledger'
       /\ mid' \in {mid, <<>>} /\ long' \in {long, <<>>}
       /\ text' = text /\ aged' = aged /\ crashes' = crashes
       /\ made' = made /\ midFiles' \subseteq midFiles /\ longFiles' \subseteq longFiles
       /\ torn' \subseteq torn \cup midFiles \cup longFiles
  BY <1>1 DEF RemoveLong, made, StoreOK
<1>13. raced' \in BOOLEAN BY <1>1 DEF StoreOK, RemoveLong, Raced
<1>14. Grows BY <1>2, <1>12 DEF Grows
<1>15. forgotten' \subseteq 1..written /\ ledger' \cap forgotten' = {}
  BY <1>1, <1>12 DEF RemoveLong, StoreOK
<1> HIDE DEF made, Entry
<1>16. /\ mid' \in Seq(Entry) /\ IdsOf(mid') \subseteq 1..made /\ LastOf(mid') \subseteq 1..written
       /\ long' \in Seq(Entry) /\ Len(long') <= 1 /\ IdsOf(long') \subseteq 1..made /\ LastOf(long') \subseteq 1..written
  <2>1. <<>> \in Seq(Entry) /\ IdsOf(<<>>) = {} /\ LastOf(<<>>) = {} /\ Len(<<>>) = 0
    BY OfNone, OfIsRange
  <2>2. CASE mid' = mid /\ long' = long BY <1>1, <2>2 DEF StoreOK
  <2>3. CASE mid' = <<>> /\ long' = long BY <1>1, <2>1, <2>3 DEF StoreOK
  <2>4. CASE mid' = mid /\ long' = <<>> BY <1>1, <2>1, <2>4 DEF StoreOK
  <2>5. CASE mid' = <<>> /\ long' = <<>> BY <2>1, <2>5
  <2> QED BY <1>12, <2>2, <2>3, <2>4, <2>5
<1>17. StoreOK' BY <1>1, <1>12, <1>13, <1>15, <1>16 DEF StoreOK
<1> QED BY <1>14, <1>15, <1>17

LEMMA RemoveLongKeeps ==
    ASSUME Always, NEW c \in Client, RemoveLong(c)
    PROVE  Keeps(c) /\ StoreOK' /\ Grows /\ (ledger \cap forgotten = {})'
<1>1. LocksOK /\ PcsOK /\ WorkOK /\ SeenOK /\ DraftOK /\ StoreOK /\ Sound(c)
  BY DEF Always, ClientsOK
<1>2. StoreOK' /\ Grows /\ (ledger \cap forgotten = {})' BY RemoveLongStore
<1>3. 1..made \subseteq 1..made' /\ 1..written \subseteq 1..written' BY <1>2 DEF Grows
<1> HIDE DEF Entry, Lock, made
<1>22. NoWork \in Work BY DEF Work, NoWork
<1>23. NoDraft \in Draft' /\ Draft \subseteq Draft'
  <2>1. written \in Nat /\ written' \in Nat /\ written <= written' BY <1>2 DEF Grows
  <2>2. NoDraft \in Draft' BY <2>1 DEF Draft, NoDraft
  <2>3. 0..written \subseteq 0..written' BY <2>1
  <2>4. Draft \subseteq Draft' BY <1>3, <2>3 DEF Draft
  <2> QED BY <2>2, <2>4
<1>4. LocksOK' BY <1>1, ClientKinds DEF RemoveLong, locks, LocksOK, NoLock
<1>5. PcsOK' BY <1>1 DEF RemoveLong, PcsOK, Pc, LoadPcs, WantsLock, Inside, Promoting
<1>6. WorkOK' BY <1>1, <1>22 DEF RemoveLong, WorkOK
<1>7. SeenOK' BY <1>1, <1>3 DEF RemoveLong, SeenOK
<1>8. DraftOK' BY <1>1, <1>23 DEF RemoveLong, DraftOK
<1>9. OnlyOwn(c)
  BY <1>1, ClientKinds DEF RemoveLong, locks, Goto, OnlyOwn, Sound, Role, LocksOK, PcsOK,
     WorkOK, SeenOK, DraftOK
<1>10. Role(c)'
  BY <1>1, <1>9, ClientKinds DEF RemoveLong, locks, Sound, Role, Goto, PcsOK, Pc, LoadPcs,
     WantsLock, Inside, Promoting
<1>11. Copy(c)' 
  <2>1. work' = work \/ work' = [work EXCEPT ![c] = NoWork] BY DEF RemoveLong
  <2>2. pc'[c] \notin {"longs", "compress", "wlong"} BY <1>1 DEF RemoveLong, PcsOK
  <2>3. CASE work' = work BY <1>1, <1>3, <2>2, <2>3 DEF Sound, Copy
  <2>4. CASE work' = [work EXCEPT ![c] = NoWork]
    BY <1>1, <2>2, <2>4 DEF Copy, WorkOK, NoWork, IdsOf, LastOf
  <2> QED BY <2>1, <2>3, <2>4
<1>12. Drafted(c)' BY <1>1, ClientKinds DEF RemoveLong, Sound, Drafted, DraftOK, Goto, PcsOK
<1>13. Clearing(c)'
  BY <1>1, <1>3, ClientKinds DEF RemoveLong, Sound, Clearing, SeenOK, Goto, PcsOK
<1> QED BY <1>2, <1>4, <1>5, <1>6, <1>7, <1>8, <1>9, <1>10, <1>11, <1>12, <1>13
           DEF ClientsOK, Keeps, Sound

LEMMA ClearLongStore == ASSUME Always, NEW c \in Client, ClearLong(c)
    PROVE StoreOK' /\ Grows /\ (ledger \cap forgotten = {})'
<1>1. LocksOK /\ PcsOK /\ WorkOK /\ SeenOK /\ DraftOK /\ StoreOK /\ Sound(c)
      /\ ledger \cap forgotten = {}
  BY DEF Always, ClientsOK
<1>2. /\ made \in Nat /\ written \in Nat
      /\ \A s \in 1..made : text[s] \subseteq 1..written
      /\ 1..made \subseteq 1..(made + 1) /\ 1..written \subseteq 1..(written + 1)
      /\ made + 1 \in 1..(made + 1) /\ written + 1 \in 1..(written + 1)
  BY <1>1, StoreFacts
<1>12. /\ written' = written /\ ledger' \subseteq ledger /\ inputs' \subseteq ledger'
       /\ mid' \in {mid, <<>>} /\ long' \in {long, <<>>}
       /\ text' = text /\ aged' = aged /\ crashes' = crashes /\ torn' = torn
       /\ made' = made /\ midFiles' \subseteq midFiles /\ longFiles' \subseteq longFiles
  BY <1>1 DEF ClearLong, disk, made, StoreOK
<1>13. raced' \in BOOLEAN BY <1>1 DEF StoreOK, ClearLong
<1>14. Grows BY <1>2, <1>12 DEF Grows
<1>15. forgotten' \subseteq 1..written /\ ledger' \cap forgotten' = {}
  <2>1. forgotten' = forgotten \cup seen[c] /\ ledger' = ledger /\ c \in Clearer /\ pc[c] = "clear3"
    BY DEF ClearLong, disk
  <2>2. seen[c] \cap ledger = {} BY <1>1, <2>1 DEF Sound, Clearing
  <2>3. seen[c] \subseteq 1..written /\ forgotten \subseteq 1..written
    BY <1>1 DEF SeenOK, StoreOK
  <2> QED BY <1>1, <2>1, <2>2, <2>3
<1> HIDE DEF made, Entry
<1>16. /\ mid' \in Seq(Entry) /\ IdsOf(mid') \subseteq 1..made /\ LastOf(mid') \subseteq 1..written
       /\ long' \in Seq(Entry) /\ Len(long') <= 1 /\ IdsOf(long') \subseteq 1..made /\ LastOf(long') \subseteq 1..written
  <2>1. <<>> \in Seq(Entry) /\ IdsOf(<<>>) = {} /\ LastOf(<<>>) = {} /\ Len(<<>>) = 0
    BY OfNone, OfIsRange
  <2>2. CASE mid' = mid /\ long' = long BY <1>1, <2>2 DEF StoreOK
  <2>3. CASE mid' = <<>> /\ long' = long BY <1>1, <2>1, <2>3 DEF StoreOK
  <2>4. CASE mid' = mid /\ long' = <<>> BY <1>1, <2>1, <2>4 DEF StoreOK
  <2>5. CASE mid' = <<>> /\ long' = <<>> BY <2>1, <2>5
  <2> QED BY <1>12, <2>2, <2>3, <2>4, <2>5
<1>17. StoreOK' BY <1>1, <1>12, <1>13, <1>15, <1>16 DEF StoreOK
<1> QED BY <1>14, <1>15, <1>17

LEMMA ClearLongKeeps ==
    ASSUME Always, NEW c \in Client, ClearLong(c)
    PROVE  Keeps(c) /\ StoreOK' /\ Grows /\ (ledger \cap forgotten = {})'
<1>1. LocksOK /\ PcsOK /\ WorkOK /\ SeenOK /\ DraftOK /\ StoreOK /\ Sound(c)
  BY DEF Always, ClientsOK
<1>2. StoreOK' /\ Grows /\ (ledger \cap forgotten = {})' BY ClearLongStore
<1>3. 1..made \subseteq 1..made' /\ 1..written \subseteq 1..written' BY <1>2 DEF Grows
<1> HIDE DEF Entry, Lock, made
<1>22. NoWork \in Work BY DEF Work, NoWork
<1>23. NoDraft \in Draft' /\ Draft \subseteq Draft'
  <2>1. written \in Nat /\ written' \in Nat /\ written <= written' BY <1>2 DEF Grows
  <2>2. NoDraft \in Draft' BY <2>1 DEF Draft, NoDraft
  <2>3. 0..written \subseteq 0..written' BY <2>1
  <2>4. Draft \subseteq Draft' BY <1>3, <2>3 DEF Draft
  <2> QED BY <2>2, <2>4
<1>4. LocksOK' BY <1>1, ClientKinds DEF ClearLong, ForgetLock, Unlock, locks, LocksOK, NoLock
<1>5. PcsOK'
  BY <1>1 DEF ClearLong, ForgetLock, Unlock, Goto, PcsOK, Pc, LoadPcs, WantsLock, Inside,
     Promoting
<1>6. WorkOK' BY <1>1, <1>22 DEF ClearLong, ForgetLock, Unlock, WorkOK
<1>7. SeenOK' BY <1>1, <1>3 DEF ClearLong, ForgetLock, Unlock, SeenOK
<1>8. DraftOK' BY <1>1, <1>23 DEF ClearLong, ForgetLock, Unlock, DraftOK
<1>9. OnlyOwn(c)
  BY <1>1, ClientKinds DEF ClearLong, ForgetLock, Unlock, locks, Goto, OnlyOwn, Sound, Role,
     LocksOK, PcsOK, WorkOK, SeenOK, DraftOK
<1>10. Role(c)'
  BY <1>1, <1>9, ClientKinds DEF ClearLong, ForgetLock, Unlock, locks, Sound, Role, Goto,
     PcsOK, Pc, LoadPcs, WantsLock, Inside, Promoting
<1>11. Copy(c)' 
  <2>1. work' = work \/ work' = [work EXCEPT ![c] = NoWork] BY DEF ClearLong, ForgetLock, Unlock
  <2>2. pc'[c] \notin {"longs", "compress", "wlong"}
    BY <1>1 DEF ClearLong, ForgetLock, Unlock, Goto, PcsOK
  <2>3. CASE work' = work BY <1>1, <1>3, <2>2, <2>3 DEF Sound, Copy
  <2>4. CASE work' = [work EXCEPT ![c] = NoWork]
    BY <1>1, <2>2, <2>4 DEF Copy, WorkOK, NoWork, IdsOf, LastOf
  <2> QED BY <2>1, <2>3, <2>4
<1>12. Drafted(c)'
  BY <1>1, ClientKinds DEF ClearLong, ForgetLock, Unlock, Sound, Drafted, DraftOK, Goto, PcsOK
<1>13. Clearing(c)'
  BY <1>1, <1>3, ClientKinds DEF ClearLong, ForgetLock, Unlock, Sound, Clearing, SeenOK,
     Goto, PcsOK
<1> QED BY <1>2, <1>4, <1>5, <1>6, <1>7, <1>8, <1>9, <1>10, <1>11, <1>12, <1>13
           DEF ClientsOK, Keeps, Sound

-----------------------------------------------------------------------------
(* The unconditional part of the invariant is inductive. *)

\* A step that writes nothing, and one that writes, by its client.
StillStep(c) ==
    \/ FetchLock(c)
    \/ StartTurn(c)
    \/ StartView(c)
    \/ PromoteReadMid(c)
    \/ PromoteReadLong(c)
    \/ PromoteCompress(c)
    \/ LoadIndex(c)
    \/ LoadText(c)
    \/ TurnDecides(c)
    \/ Prepare(c)
    \/ Fold(c)
    \/ Validate(c)
    \/ CommitCheck(c)
    \/ AgentRead(c)
    \/ StartSave(c)
    \/ StartClear(c)
    \/ ClearMid(c)
    \/ ClearFails(c)
WritingStep(c) ==
    \/ PromoteWriteLong(c)
    \/ PromoteWriteMid(c)
    \/ PromoteClean(c)
    \/ CommitWrite(c)
    \/ AgentWrite(c)
    \/ AgentClean(c)
    \/ EndTurn(c)
    \/ PreserveInputs(c)
    \/ ClearLedger(c)
    \/ RemoveMid(c)
    \/ RemoveLong(c)
    \/ ClearLong(c)

LEMMA Steps == MemoryNext => (\E c \in Client : StillStep(c) \/ WritingStep(c)) \/ Age \/ Crash
BY DEF MemoryNext, LoadStep, TurnStep, ClearStep, StillStep, WritingStep, Client

LEMMA StillStepKeeps == ASSUME Always, NEW c \in Client, StillStep(c) PROVE Still /\ Keeps(c)
<1>1. CASE FetchLock(c) BY <1>1, FetchLockKeeps
<1>2. CASE StartTurn(c) BY <1>2, StartTurnKeeps
<1>3. CASE StartView(c) BY <1>3, StartViewKeeps
<1>4. CASE PromoteReadMid(c) BY <1>4, PromoteReadMidKeeps
<1>5. CASE PromoteReadLong(c) BY <1>5, PromoteReadLongKeeps
<1>6. CASE PromoteCompress(c) BY <1>6, PromoteCompressKeeps
<1>7. CASE LoadIndex(c) BY <1>7, LoadIndexKeeps
<1>8. CASE LoadText(c) BY <1>8, LoadTextKeeps
<1>9. CASE TurnDecides(c) BY <1>9, TurnDecidesKeeps
<1>10. CASE Prepare(c) BY <1>10, PrepareKeeps
<1>11. CASE Fold(c) BY <1>11, FoldKeeps
<1>12. CASE Validate(c) BY <1>12, ValidateKeeps
<1>13. CASE CommitCheck(c) BY <1>13, CommitCheckKeeps
<1>14. CASE AgentRead(c) BY <1>14, AgentReadKeeps
<1>15. CASE StartSave(c) BY <1>15, StartSaveKeeps
<1>16. CASE StartClear(c) BY <1>16, StartClearKeeps
<1>17. CASE ClearMid(c) BY <1>17, ClearMidKeeps
<1>18. CASE ClearFails(c) BY <1>18, ClearFailsKeeps
<1> QED BY <1>1, <1>2, <1>3, <1>4, <1>5, <1>6, <1>7, <1>8, <1>9, <1>10, <1>11, <1>12, <1>13,
           <1>14, <1>15, <1>16, <1>17, <1>18 DEF StillStep

LEMMA WritingStepKeeps ==
    ASSUME Always, NEW c \in Client, WritingStep(c)
    PROVE  Keeps(c) /\ StoreOK' /\ Grows /\ (ledger \cap forgotten = {})'
<1>1. CASE PromoteWriteLong(c) BY <1>1, PromoteWriteLongKeeps
<1>2. CASE PromoteWriteMid(c) BY <1>2, PromoteWriteMidKeeps
<1>3. CASE PromoteClean(c) BY <1>3, PromoteCleanKeeps
<1>4. CASE CommitWrite(c) BY <1>4, CommitWriteKeeps
<1>5. CASE AgentWrite(c) BY <1>5, AgentWriteKeeps
<1>6. CASE AgentClean(c) BY <1>6, AgentCleanKeeps
<1>7. CASE EndTurn(c) BY <1>7, EndTurnKeeps
<1>8. CASE PreserveInputs(c) BY <1>8, PreserveInputsKeeps
<1>9. CASE ClearLedger(c) BY <1>9, ClearLedgerKeeps
<1>10. CASE RemoveMid(c) BY <1>10, RemoveMidKeeps
<1>11. CASE RemoveLong(c) BY <1>11, RemoveLongKeeps
<1>12. CASE ClearLong(c) BY <1>12, ClearLongKeeps
<1> QED
  BY <1>1, <1>2, <1>3, <1>4, <1>5, <1>6, <1>7, <1>8, <1>9, <1>10, <1>11, <1>12 DEF WritingStep

LEMMA AgeAlways == ASSUME Always, Age PROVE Always'
<1>1. \E s \in IdsOf(mid) : aged' = aged \cup {s} BY DEF Age
<1>2. /\ written' = written /\ ledger' = ledger /\ inputs' = inputs /\ mid' = mid /\ long' = long
      /\ text' = text /\ crashes' = crashes
      /\ torn' = torn /\ forgotten' = forgotten /\ made' = made
      /\ raced' = raced /\ midFiles' = midFiles /\ longFiles' = longFiles
      /\ runLock' = runLock /\ lockMap' = lockMap /\ lock' = lock
      /\ pc' = pc /\ work' = work /\ seen' = seen /\ draft' = draft
  BY DEF Age, disk, locks, made
<1> HIDE DEF made, Entry
<1>3. StoreOK' BY <1>1, <1>2 DEF Always, StoreOK, IdsOf, LastOf
<1>4. ClientsOK' BY <1>2 DEF Always, ClientsOK, LocksOK, PcsOK, WorkOK, SeenOK, DraftOK, Draft
<1>5. \A c \in Client : Sound(c)'
  BY <1>2 DEF Always, Sound, Role, Copy, Drafted, Clearing, IdsOf, LastOf
<1> QED BY <1>2, <1>3, <1>4, <1>5 DEF Always

\* Nobody does anything: after a start or a crash.
Rest ==
    /\ runLock = Nobody /\ lockMap = NoLock /\ lock = [c \in Client |-> NoLock]
    /\ pc = [c \in Client |-> "idle"]
    /\ work = [c \in Client |-> NoWork] /\ seen = [c \in Client |-> {}]
    /\ draft = [c \in Client |-> NoDraft]

LEMMA RestSound == ASSUME StoreOK, Rest PROVE ClientsOK /\ \A c \in Client : Sound(c)
<1> HIDE DEF Entry, made
<1>1. NoWork \in Work BY DEF Work, NoWork
<1>2. NoDraft \in Draft BY DEF Draft, NoDraft, StoreOK
<1>3. ClientsOK
  BY <1>1, <1>2 DEF Rest, ClientsOK, LocksOK, PcsOK, Pc, WorkOK, SeenOK, DraftOK
<1>4. \A c \in Client : pc[c] = "idle" /\ work[c] = NoWork /\ draft[c] = NoDraft BY DEF Rest
<1>5. \A c \in Client : Role(c) BY <1>4 DEF Role
<1>6. \A c \in Client : Copy(c) BY <1>4 DEF Copy, NoWork, IdsOf, LastOf
<1>7. \A c \in Client : Drafted(c) /\ Clearing(c) BY <1>4 DEF Drafted, Clearing
<1> QED BY <1>3, <1>5, <1>6, <1>7 DEF Sound

LEMMA CrashAlways == ASSUME Always, Crash PROVE Always' /\ Rest'
<1>1. /\ written' = written /\ ledger' = ledger /\ inputs' = inputs /\ mid' = mid /\ long' = long
      /\ text' = text /\ aged' = aged /\ forgotten' = forgotten /\ made' = made
      /\ raced' = raced /\ torn' = torn /\ midFiles' = midFiles /\ longFiles' = longFiles
  BY DEF Crash, disk, made
<1>2. crashes' \in 0..MaxCrashes BY MemoryAssumption DEF Crash, Always, StoreOK
<1>3. Rest' BY DEF Crash, Rest
<1>4. StoreOK'
  <2> HIDE DEF made, Entry
  <2> QED BY <1>1, <1>2 DEF Always, StoreOK, IdsOf, LastOf
<1>5. (StoreOK /\ Rest => ClientsOK /\ \A c \in Client : Sound(c))'
  BY RestSound, PTL
<1> QED BY <1>1, <1>3, <1>4, <1>5 DEF Always

LEMMA InitAlways == MemoryInit => Always /\ Rest
<1> SUFFICES ASSUME MemoryInit PROVE Always /\ Rest OBVIOUS
<1>1. Rest BY DEF MemoryInit, Rest
<1>2. made = 0 /\ text \in Seq(SUBSET (1..written)) BY DEF MemoryInit, made
<1>3. IdsOf(<<>>) = {} /\ LastOf(<<>>) = {} /\ <<>> \in Seq(Entry) /\ Len(<<>>) = 0
  BY OfNone, OfIsRange
<1>4. StoreOK
  <2> HIDE DEF made, Entry
  <2>1. crashes \in 0..MaxCrashes BY MemoryAssumption DEF MemoryInit
  <2>2. /\ written = 0 /\ ledger = {} /\ inputs = {} /\ mid = <<>> /\ long = <<>>
        /\ midFiles = {} /\ longFiles = {} /\ aged = {} /\ torn = {} /\ forgotten = {} /\ raced = FALSE
    BY DEF MemoryInit
  <2>3. /\ IdsOf(mid) = {} /\ IdsOf(long) = {} /\ LastOf(mid) = {} /\ LastOf(long) = {}
        /\ mid \in Seq(Entry) /\ long \in Seq(Entry) /\ Len(long) <= 1
    BY <1>3, <2>2
  <2>4. written \in Nat /\ ledger \subseteq 1..written /\ inputs \subseteq ledger /\ raced \in BOOLEAN
    BY <2>2
  <2>5. midFiles \cup longFiles \cup aged \cup torn \subseteq 1..made /\ forgotten \subseteq 1..written
    BY <2>2
  <2> QED BY <1>2, <2>1, <2>3, <2>4, <2>5 DEF StoreOK
<1> QED BY <1>1, <1>4, RestSound DEF Always, MemoryInit

LEMMA AlwaysStep == Always /\ [MemoryNext]_memoryVars => Always'
<1> SUFFICES ASSUME Always, [MemoryNext]_memoryVars PROVE Always' OBVIOUS
<1>1. CASE UNCHANGED memoryVars
  <2>1. UNCHANGED <<disk, history, raced>> /\ UNCHANGED <<locks, pc, work, seen, draft>>
    BY <1>1 DEF memoryVars, disk, history, locks
  <2>2. /\ StoreOK' /\ made' = made /\ written' = written /\ ledger' = ledger
        /\ forgotten' = forgotten
    BY <2>1, StillStore DEF Always, Still
  <2> HIDE DEF made, Entry
  <2>3. ClientsOK'
    BY <2>1, <2>2 DEF Always, ClientsOK, LocksOK, PcsOK, WorkOK, SeenOK, DraftOK, Draft, locks
  <2>4. \A c \in Client : Sound(c)'
    BY <2>1, <2>2 DEF Always, Sound, Role, Copy, Drafted, Clearing, IdsOf, LastOf, locks
  <2> QED BY <2>2, <2>3, <2>4 DEF Always
<1>2. ASSUME NEW c \in Client, StillStep(c) PROVE Always'
  BY <1>2, StillStepKeeps, StillAlways
<1>3. ASSUME NEW c \in Client, WritingStep(c) PROVE Always'
  BY <1>3, WritingStepKeeps, WriteAlways
<1> QED BY <1>1, <1>2, <1>3, AgeAlways, CrashAlways, Steps

\* What is stored always names messages that were appended and summaries that
\* were written, and long_term has one summary at most, whatever interleaves.
THEOREM MemoryTypeCorrect == MemorySpec => []MemoryTypeOK
<1>1. MemoryInit => Always BY InitAlways
<1>2. Always => MemoryTypeOK BY TypeParts DEF Always
<1> QED BY <1>1, <1>2, AlwaysStep, PTL DEF MemorySpec

-----------------------------------------------------------------------------
(* What holds as long as no promotion has overlapped another writer. *)

\* The digest, or a user input kept verbatim, has each message up to last.
Covers(digest, last) == \A x \in ledger : x <= last => x \in digest \cup inputs
\* No summary covers more than last.
Tops(last) == \A e \in Kept : e.last \in ledger => e.last <= last
Forgets(digest) == digest \cap forgotten = {}

Holds == \A e \in Kept : Covers(text[e.id], e.last) /\ Forgets(text[e.id])
AgedFirst == \A e, f \in Of(mid) : e.id < f.id /\ f.id \in aged => e.id \in aged
Ordered == Increasing(mid) /\ AgedFirst /\ (mid # <<>> => Tops(Last(mid).last))
Files == IdsOf(mid) \subseteq midFiles \cup torn /\ IdsOf(long) \subseteq longFiles \cup torn

\* old and keep are a division of the mid-term index as it is.
Divides(old, keep) ==
    /\ Of(mid) = Of(old) \cup Of(keep) /\ IdsOf(old) \cap IdsOf(keep) = {}
    /\ Increasing(keep) /\ (keep # <<>> => Last(keep) = Last(mid))

\* The copies of an index that c will write from are what the index is, and
\* the files that c will remove are of no index.
Current(c) ==
    /\ pc[c] \in Promoting => Divides(work[c].old, work[c].keep)
    /\ pc[c] \in {"compress", "wlong"} => work[c].merged = long
    /\ pc[c] \in {"wmid", "clean"} => IdsOf(work[c].merged) \cap IdsOf(long) = {}
    /\ pc[c] \in {"clean", "agent3"} => IdsOf(work[c].old) \cap IdsOf(mid) = {}
    /\ pc[c] = "commit2" => work[c].keep = mid
    /\ pc[c] = "agent2" => work[c].old = mid
    /\ pc[c] = "clear3" => mid = <<>>

\* Turn t has loaded the context; it has a draft to commit.
Loaded(t) ==
    \/ pc[t] \in {"text", "ready", "prepare", "fold", "validate", "commit", "commit2",
                  "agent", "agent2", "agent3", "save"}
    \/ pc[t] \in LoadPcs /\ draft[t] # NoDraft
Drafting(t) ==
    \/ pc[t] \in {"fold", "validate", "commit", "commit2", "agent2"}
    \/ pc[t] \in LoadPcs /\ draft[t] # NoDraft

\* The agent of a loaded turn knows every message, and a draft covers what it says.
KnowsAll(t) == Forgets(seen[t]) /\ \A x \in ledger : x \in seen[t] \cup inputs
DraftHolds(t) ==
    Forgets(draft[t].digest) /\ Covers(draft[t].digest, draft[t].last) /\ Tops(draft[t].last)
Knows(c) == c \in Turn => (Loaded(c) => KnowsAll(c)) /\ (Drafting(c) => DraftHolds(c))

Quiet ==
    /\ Holds /\ Ordered /\ Files
    /\ \A c \in Client : Current(c) /\ Knows(c)

\* The latest summary covers more than any other.
LEMMA LatestEntry ==
    ASSUME StoreOK, Quiet, Latest(mid, long) # 0
    PROVE  \E e \in Kept : /\ Latest(mid, long) = e.id
                           /\ Covered(ledger, mid, long) = 0 \/ Covered(ledger, mid, long) <= e.last
<1> DEFINE latest == Latest(mid, long)
           covered == Covered(ledger, mid, long)
<1>0. latest # 0 /\ mid \in Seq(Entry) /\ long \in Seq(Entry) BY DEF StoreOK
<1>1. covered # 0 => \E f \in Kept : f.last \in ledger /\ f.last = covered
  BY CoveredFacts
<1>2. CASE mid # <<>>
  <2>1. latest = Last(mid).id /\ Last(mid) \in Kept BY <1>2, LatestFacts
  <2>2. Tops(Last(mid).last) BY <1>2 DEF Quiet, Ordered
  <2> QED BY <1>1, <2>1, <2>2 DEF Tops
<1>3. CASE mid = <<>>
  <2>1. long # <<>> BY <1>0, <1>3 DEF Latest
  <2>2. latest = Last(long).id /\ Kept = {Last(long)} BY <1>3, <2>1, LatestFacts
  <2>3. Last(long).last \in Nat BY <1>0, <2>1, OfIsRange DEF Entry
  <2> QED BY <1>1, <2>2, <2>3
<1> QED BY <1>2, <1>3

LEMMA QuietShows == ASSUME StoreOK, Quiet PROVE NothingHidden /\ SummariesHold
<1>1. mid \in Seq(Entry) /\ long \in Seq(Entry) /\ made \in Nat BY LatestFacts DEF StoreOK
<1>2. /\ IdsOf(mid) = {e.id : e \in Of(mid)} /\ IdsOf(long) = {e.id : e \in Of(long)}
      /\ (mid # <<>> => Last(mid) \in Of(mid)) /\ (long # <<>> => Last(long) \in Of(long))
  BY <1>1, OfIsRange
<1> DEFINE latest == Latest(mid, long)
           covered == Covered(ledger, mid, long)
<1>3. ASSUME latest # 0
      PROVE  \E e \in Kept : latest = e.id /\ (covered = 0 \/ covered <= e.last)
  BY <1>3, LatestEntry
<1>4. NothingHidden
  <2>1. SUFFICES ASSUME latest # 0, NEW x \in ledger, x <= covered
                 PROVE  x \in text[latest] \cup inputs
    BY DEF NothingHidden
  <2>2. PICK e \in Kept : latest = e.id /\ (covered = 0 \/ covered <= e.last) BY <1>3, <2>1
  <2>3. x \in Nat /\ x # 0 /\ covered \in Nat /\ e.last \in Nat
    BY <1>1, CoveredFacts, OfIsRange DEF StoreOK, Kept, Entry
  <2>4. x <= e.last BY <2>1, <2>2, <2>3
  <2> QED BY <2>2, <2>4 DEF Quiet, Holds, Covers
<1>5. LatestIsReadable
  BY <1>1, <1>2 DEF LatestIsReadable, Latest, Readable, Quiet, Files
<1>6. ForgottenStaysForgotten
  BY <1>2 DEF ForgottenStaysForgotten, Quiet, Holds, Forgets, Kept
<1> QED BY <1>4, <1>5, <1>6 DEF SummariesHold

\* A step that writes nothing leaves the rest to its client.
LEMMA StillQuiet ==
    ASSUME Always, Quiet, NEW c \in Client, Still, Keeps(c), Current(c)', Knows(c)'
    PROVE  Quiet'
<1>1. /\ ledger' = ledger /\ inputs' = inputs /\ forgotten' = forgotten /\ torn' = torn
      /\ mid' = mid /\ long' = long /\ text' = text /\ aged' = aged
      /\ midFiles' = midFiles /\ longFiles' = longFiles
  BY StillStore DEF Always
<1>2. Holds' BY <1>1 DEF Quiet, Holds, Kept, Of, Covers, Forgets
<1>3. Ordered' BY <1>1 DEF Quiet, Ordered, AgedFirst, Tops, Kept, Of, Increasing, Last
<1>4. Files' BY <1>1 DEF Quiet, Files, IdsOf
<1>5. ASSUME NEW d \in Client, d # c PROVE Current(d)' /\ Knows(d)'
  <2>1. pc'[d] = pc[d] /\ work'[d] = work[d] /\ seen'[d] = seen[d] /\ draft'[d] = draft[d]
    BY <1>5 DEF Keeps, OnlyOwn
  <2>2. Current(d)'
    <3>1. \A o, k : Divides(o, k)' <=> Divides(o, k) BY <1>1 DEF Divides
    <3>2. Current(d) BY DEF Quiet
    <3> QED BY <1>1, <2>1, <3>1, <3>2 DEF Current
  <2>3. Knows(d)'
    BY <1>1, <2>1 DEF Quiet, Knows, Loaded, Drafting, KnowsAll, DraftHolds, Forgets, Covers,
       Tops, Kept, Of
  <2> QED BY <2>2, <2>3
<1> QED BY <1>2, <1>3, <1>4, <1>5 DEF Quiet

\* The latest summary covers what is not shown raw, and shows nothing forgotten.
LEMMA LatestCovers ==
    ASSUME StoreOK, Quiet
    PROVE  /\ Forgets(Digest(Latest(mid, long)))
           /\ Covers(Digest(Latest(mid, long)), Covered(ledger, mid, long))
<1> DEFINE latest == Latest(mid, long)
           covered == Covered(ledger, mid, long)
<1>1. mid \in Seq(Entry) /\ long \in Seq(Entry) /\ covered \in Nat /\ ledger \subseteq Nat
  BY CoveredFacts DEF StoreOK
<1>2. CASE latest = 0
  <2>1. Kept = {} BY <1>2, LatestFacts
  <2>2. covered = 0 BY <2>1, CoveredFacts
  <2>3. 0 \notin ledger BY DEF StoreOK
  <2>4. \A x \in ledger : ~ (x <= covered) BY <1>1, <2>2, <2>3
  <2> QED BY <1>2, <2>4 DEF Digest, Forgets, Covers
<1>3. CASE latest # 0
  <2>1. PICK e \in Kept : latest = e.id /\ (covered = 0 \/ covered <= e.last)
    BY <1>3, LatestEntry
  <2>2. e.last \in Nat BY <1>1, OfIsRange DEF Kept, Entry
  <2>3. Digest(latest) = text[e.id] BY <1>3, <2>1 DEF Digest
  <2>4. Covers(text[e.id], e.last) /\ Forgets(text[e.id]) BY DEF Quiet, Holds
  <2>5. \A x \in ledger : x <= covered => x <= e.last
    <3>1. \A x \in ledger : x # 0 BY DEF StoreOK
    <3> QED BY <1>1, <2>1, <2>2, <3>1
  <2> QED BY <2>3, <2>4, <2>5 DEF Covers
<1> QED BY <1>2, <1>3

LEMMA FetchLockQuiet ==
    ASSUME Always, Quiet, NEW c \in Client, FetchLock(c)
    PROVE  Current(c)' /\ Knows(c)'
<1>1. PcsOK /\ WorkOK /\ SeenOK /\ DraftOK /\ StoreOK /\ Sound(c) /\ Always
  BY DEF Always, ClientsOK
<1>2. Quiet /\ Current(c) /\ Knows(c) /\ Ordered BY DEF Quiet
<1>3. /\ ledger' = ledger /\ inputs' = inputs /\ forgotten' = forgotten
      /\ mid' = mid /\ long' = long
  BY <1>1, FetchLockKeeps, StillStore
<1>4. Current(c)' 
  <2>1. pc' = pc /\ work' = work BY DEF FetchLock
  <2>2. \A o, k : Divides(o, k)' <=> Divides(o, k) BY <1>3 DEF Divides
  <2> QED BY <1>2, <1>3, <2>1, <2>2 DEF Current
<1>5. Knows(c)' 
  <2>1. pc' = pc /\ seen' = seen /\ draft' = draft BY DEF FetchLock
  <2> QED BY <1>2, <1>3, <2>1 DEF Knows, Loaded, Drafting, KnowsAll, DraftHolds, Forgets,
             Covers, Tops, Kept, Of
<1> QED BY <1>4, <1>5

LEMMA StartTurnQuiet ==
    ASSUME Always, Quiet, NEW c \in Client, StartTurn(c)
    PROVE  Current(c)' /\ Knows(c)'
<1>1. PcsOK /\ WorkOK /\ SeenOK /\ DraftOK /\ StoreOK /\ Sound(c) /\ Always
  BY DEF Always, ClientsOK
<1>2. Quiet /\ Current(c) /\ Knows(c) /\ Ordered BY DEF Quiet
<1>3. /\ ledger' = ledger /\ inputs' = inputs /\ forgotten' = forgotten
      /\ mid' = mid /\ long' = long
  BY <1>1, StartTurnKeeps, StillStore
<1>4. Current(c)' 
  <2>1. pc'[c] \notin Promoting \cup {"clean", "commit2", "agent2", "agent3", "clear3"}
    BY <1>1 DEF StartTurn, RunLockFree, Goto, PcsOK, Promoting
  <2> QED BY <2>1 DEF Current, Promoting
<1>5. Knows(c)' 
  <2>1. draft'[c] = NoDraft /\ pc'[c] = "mids"
    BY <1>1, ClientKinds DEF StartTurn, Goto, Sound, Drafted, PcsOK
  <2> QED BY <2>1 DEF Knows, Loaded, Drafting
<1> QED BY <1>4, <1>5

LEMMA StartViewQuiet ==
    ASSUME Always, Quiet, NEW c \in Client, StartView(c)
    PROVE  Current(c)' /\ Knows(c)'
<1>1. PcsOK /\ WorkOK /\ SeenOK /\ DraftOK /\ StoreOK /\ Sound(c) /\ Always
  BY DEF Always, ClientsOK
<1>2. Quiet /\ Current(c) /\ Knows(c) /\ Ordered BY DEF Quiet
<1>3. /\ ledger' = ledger /\ inputs' = inputs /\ forgotten' = forgotten
      /\ mid' = mid /\ long' = long
  BY <1>1, StartViewKeeps, StillStore
<1>4. Current(c)' 
  <2>1. pc'[c] \notin Promoting \cup {"clean", "commit2", "agent2", "agent3", "clear3"}
    BY <1>1 DEF StartView, Goto, PcsOK, Promoting
  <2> QED BY <2>1 DEF Current, Promoting
<1>5. Knows(c)' BY ClientKinds DEF StartView, Knows
<1> QED BY <1>4, <1>5

LEMMA PromoteReadMidQuiet ==
    ASSUME Always, Quiet, NEW c \in Client, PromoteReadMid(c)
    PROVE  Current(c)' /\ Knows(c)'
<1>1. PcsOK /\ WorkOK /\ SeenOK /\ DraftOK /\ StoreOK /\ Sound(c) /\ Always
  BY DEF Always, ClientsOK
<1>2. Quiet /\ Current(c) /\ Knows(c) /\ Ordered BY DEF Quiet
<1>3. /\ ledger' = ledger /\ inputs' = inputs /\ forgotten' = forgotten
      /\ mid' = mid /\ long' = long
  BY <1>1, PromoteReadMidKeeps, StillStore
<1>4. Current(c)' 
  <2> DEFINE old == EntriesIn(mid, aged)
             keep == EntriesIn(mid, IdsOf(mid) \ aged)
  <2>1. CASE pc' = [pc EXCEPT ![c] = "index"]
    <3>1. pc'[c] = "index" BY <1>1, <2>1 DEF PcsOK
    <3> QED BY <3>1 DEF Current, Promoting
  <2>2. CASE /\ pc' = [pc EXCEPT ![c] = "longs"]
             /\ work' = [work EXCEPT ![c] = [work[c] EXCEPT !.old = old, !.keep = keep]]
    <3>1. Of(mid) = Of(old) \cup Of(keep) /\ IdsOf(old) \cap IdsOf(keep) = {}
      BY <1>1, MidSplit
    <3>2. mid \in Seq(Entry) /\ \A e \in Of(mid) : e.id \in Nat
      BY <1>1, OfIsRange DEF StoreOK, Entry
    <3>3. Increasing(keep) BY <1>2, <3>2, OfEntriesIn DEF Ordered
    <3>4. keep # <<>> => Last(keep) = Last(mid)
      <4>1. SUFFICES ASSUME keep # <<>> PROVE Last(keep) = Last(mid) OBVIOUS
      <4>2. keep \in Seq(Entry) /\ Of(keep) = {e \in Of(mid) : e.id \in IdsOf(mid) \ aged}
        BY <3>2, OfEntriesIn
      <4>3. PICK e \in Of(mid) : e.id \notin aged
        <5> HIDE DEF keep
        <5> QED BY <4>1, <4>2, OfIsRange
      <4>4. mid # <<>> /\ Last(mid) \in Of(mid) BY <3>2, <4>3, OfIsRange
      <4>5. e = Last(mid) \/ e.id < Last(mid).id
        <5>1. PICK i \in 1..Len(mid) : e = mid[i] BY <4>3 DEF Of
        <5>2. Len(mid) \in 1..Len(mid) /\ Last(mid) = mid[Len(mid)] BY <3>2, <4>4 DEF Last
        <5>3. CASE i = Len(mid) BY <5>1, <5>2, <5>3
        <5>4. CASE i < Len(mid) BY <1>2, <5>1, <5>2, <5>4 DEF Ordered, Increasing
        <5> QED BY <3>2, <5>1, <5>3, <5>4
      <4>6. Last(mid).id \notin aged BY <1>2, <4>3, <4>4, <4>5 DEF Ordered, AgedFirst
      <4>7. Last(mid).id \in IdsOf(mid) BY <3>2, <4>4, OfIsRange
      <4> QED BY <3>2, <4>4, <4>6, <4>7, OfEntriesIn
    <3>5. work'[c].old = old /\ work'[c].keep = keep /\ pc'[c] = "longs"
      <4> HIDE DEF old, keep
      <4> QED BY <1>1, <2>2 DEF WorkOK, Work, PcsOK
    <3>6. Divides(old, keep)
      <4> HIDE DEF old, keep
      <4> QED BY <3>1, <3>3, <3>4 DEF Divides
    <3> HIDE DEF old, keep
    <3>7. \A o, k : Divides(o, k)' <=> Divides(o, k) BY <1>3 DEF Divides
    <3> QED BY <3>5, <3>6, <3>7 DEF Current
  <2>3. \/ pc' = [pc EXCEPT ![c] = "index"]
        \/ /\ pc' = [pc EXCEPT ![c] = "longs"]
           /\ work' = [work EXCEPT ![c] = [work[c] EXCEPT !.old = old, !.keep = keep]]
    BY <1>1 DEF PromoteReadMid, Goto, WorkOK
  <2> QED BY <2>1, <2>2, <2>3
<1>5. Knows(c)' 
  <2>1. seen' = seen /\ draft' = draft /\ pc[c] \in LoadPcs /\ pc'[c] \in LoadPcs /\ pc[c] # "text" /\ pc'[c] # "text"
    BY <1>1 DEF PromoteReadMid, Goto, PcsOK, LoadPcs, Promoting
  <2> QED BY <1>2, <1>3, <2>1
          DEF Knows, Loaded, Drafting, KnowsAll, DraftHolds, Forgets, Covers, Tops, Kept, Of, LoadPcs, Promoting
<1> QED BY <1>4, <1>5

LEMMA PromoteReadLongQuiet ==
    ASSUME Always, Quiet, NEW c \in Client, PromoteReadLong(c)
    PROVE  Current(c)' /\ Knows(c)'
<1>1. PcsOK /\ WorkOK /\ SeenOK /\ DraftOK /\ StoreOK /\ Sound(c) /\ Always
  BY DEF Always, ClientsOK
<1>2. Quiet /\ Current(c) /\ Knows(c) /\ Ordered BY DEF Quiet
<1>3. /\ ledger' = ledger /\ inputs' = inputs /\ forgotten' = forgotten
      /\ mid' = mid /\ long' = long
  BY <1>1, PromoteReadLongKeeps, StillStore
<1>4. Current(c)' 
  <2>1. CASE pc' = [pc EXCEPT ![c] = "index"]
    <3>1. pc'[c] = "index" BY <1>1, <2>1 DEF PcsOK
    <3> QED BY <3>1 DEF Current, Promoting
  <2>2. CASE /\ pc' = [pc EXCEPT ![c] = "compress"]
             /\ work' = [work EXCEPT ![c] = [work[c] EXCEPT !.merged = long]]
    <3>1. /\ work'[c].old = work[c].old /\ work'[c].keep = work[c].keep
          /\ work'[c].merged = long /\ pc'[c] = "compress" /\ pc[c] = "longs"
      BY <1>1, <2>2 DEF PromoteReadLong, WorkOK, Work, PcsOK
    <3>2. \A o, k : Divides(o, k)' <=> Divides(o, k) BY <1>3 DEF Divides
    <3> QED BY <1>2, <1>3, <3>1, <3>2 DEF Current, Promoting
  <2>3. \/ pc' = [pc EXCEPT ![c] = "index"]
        \/ /\ pc' = [pc EXCEPT ![c] = "compress"]
           /\ work' = [work EXCEPT ![c] = [work[c] EXCEPT !.merged = long]]
    BY <1>1 DEF PromoteReadLong, Goto, WorkOK
  <2> QED BY <2>1, <2>2, <2>3
<1>5. Knows(c)' 
  <2>1. seen' = seen /\ draft' = draft /\ pc[c] \in LoadPcs /\ pc'[c] \in LoadPcs /\ pc[c] # "text" /\ pc'[c] # "text"
    BY <1>1 DEF PromoteReadLong, Goto, PcsOK, LoadPcs, Promoting
  <2> QED BY <1>2, <1>3, <2>1
          DEF Knows, Loaded, Drafting, KnowsAll, DraftHolds, Forgets, Covers, Tops, Kept, Of, LoadPcs, Promoting
<1> QED BY <1>4, <1>5

LEMMA PromoteCompressQuiet ==
    ASSUME Always, Quiet, NEW c \in Client, PromoteCompress(c)
    PROVE  Current(c)' /\ Knows(c)'
<1>1. PcsOK /\ WorkOK /\ SeenOK /\ DraftOK /\ StoreOK /\ Sound(c) /\ Always
  BY DEF Always, ClientsOK
<1>2. Quiet /\ Current(c) /\ Knows(c) /\ Ordered BY DEF Quiet
<1>3. /\ ledger' = ledger /\ inputs' = inputs /\ forgotten' = forgotten
      /\ mid' = mid /\ long' = long
  BY <1>1, PromoteCompressKeeps, StillStore
<1>4. Current(c)' 
  <2>1. \/ pc'[c] = "index"
        \/ pc'[c] = "wlong" /\ work' = work /\ pc[c] = "compress"
    BY <1>1 DEF PromoteCompress, Goto, PcsOK
  <2>2. \A o, k : Divides(o, k)' <=> Divides(o, k) BY <1>3 DEF Divides
  <2> QED BY <1>2, <1>3, <2>1, <2>2 DEF Current, Promoting
<1>5. Knows(c)' 
  <2>1. seen' = seen /\ draft' = draft /\ pc[c] \in LoadPcs /\ pc'[c] \in LoadPcs /\ pc[c] # "text" /\ pc'[c] # "text"
    BY <1>1 DEF PromoteCompress, Goto, PcsOK, LoadPcs, Promoting
  <2> QED BY <1>2, <1>3, <2>1
          DEF Knows, Loaded, Drafting, KnowsAll, DraftHolds, Forgets, Covers, Tops, Kept, Of, LoadPcs, Promoting
<1> QED BY <1>4, <1>5

LEMMA LoadIndexQuiet ==
    ASSUME Always, Quiet, NEW c \in Client, LoadIndex(c)
    PROVE  Current(c)' /\ Knows(c)'
<1>1. PcsOK /\ WorkOK /\ SeenOK /\ DraftOK /\ StoreOK /\ Sound(c) /\ Always
  BY DEF Always, ClientsOK
<1>2. Quiet /\ Current(c) /\ Knows(c) /\ Ordered BY DEF Quiet
<1>3. /\ ledger' = ledger /\ inputs' = inputs /\ forgotten' = forgotten
      /\ mid' = mid /\ long' = long
  BY <1>1, LoadIndexKeeps, StillStore
<1>4. Current(c)' 
  <2>1. pc'[c] \notin Promoting \cup {"clean", "commit2", "agent2", "agent3", "clear3"}
    BY <1>1 DEF LoadIndex, Goto, PcsOK, Promoting
  <2> QED BY <2>1 DEF Current, Promoting
<1>5. Knows(c)' 
  <2>1. SUFFICES ASSUME c \in Turn PROVE Knows(c)' BY DEF Knows
  <2>2. pc[c] = "index" /\ pc'[c] = "text" /\ draft' = draft
    BY <1>1 DEF LoadIndex, Goto, PcsOK
  <2>3. \A S, n : /\ (Covers(S, n)' <=> Covers(S, n)) /\ (Tops(n)' <=> Tops(n))
                  /\ (Forgets(S)' <=> Forgets(S))
    BY <1>3 DEF Covers, Tops, Forgets, Kept
  <2>4. CASE draft[c] # NoDraft
    <3>1. seen' = seen BY <2>1, <2>4 DEF LoadIndex
    <3>2. KnowsAll(c) /\ DraftHolds(c)
      BY <1>2, <2>1, <2>2, <2>4 DEF Knows, Loaded, Drafting, LoadPcs
    <3> QED BY <1>3, <2>2, <2>3, <3>1, <3>2 DEF Knows, KnowsAll, DraftHolds
  <2>5. CASE draft[c] = NoDraft
    <3> DEFINE digest == Digest(Latest(mid, long))
               fresh == digest \cup Uncovered(ledger, mid, long) \cup (inputs \cap ledger)
    <3>1. seen'[c] = fresh BY <1>1, <2>1, <2>5 DEF LoadIndex, SeenOK
    <3>2. Forgets(digest) /\ Covers(digest, Covered(ledger, mid, long))
      BY <1>1, <1>2, LatestCovers
    <3>3. Uncovered(ledger, mid, long) = {x \in ledger : x > Covered(ledger, mid, long)}
          /\ Covered(ledger, mid, long) \in Nat /\ ledger \subseteq Nat
      BY <1>1, CoveredFacts DEF StoreOK
    <3> HIDE DEF digest
    <3>4. Forgets(fresh) BY <1>1, <3>2, <3>3 DEF Forgets, Always
    <3>5. \A x \in ledger : x \in fresh \cup inputs
      <4>1. SUFFICES ASSUME NEW x \in ledger PROVE x \in fresh \cup inputs OBVIOUS
      <4>2. CASE x <= Covered(ledger, mid, long) BY <3>2, <4>2 DEF Covers
      <4>3. CASE x > Covered(ledger, mid, long) BY <3>3, <4>3
      <4> QED BY <3>3, <4>2, <4>3
    <3> HIDE DEF fresh
    <3>6. KnowsAll(c)' BY <1>3, <3>1, <3>4, <3>5 DEF KnowsAll, Forgets
    <3> QED BY <2>2, <2>5, <3>6 DEF Knows, Drafting
  <2> QED BY <2>4, <2>5
<1> QED BY <1>4, <1>5

LEMMA LoadTextQuiet ==
    ASSUME Always, Quiet, NEW c \in Client, LoadText(c)
    PROVE  Current(c)' /\ Knows(c)'
<1>1. PcsOK /\ WorkOK /\ SeenOK /\ DraftOK /\ StoreOK /\ Sound(c) /\ Always
  BY DEF Always, ClientsOK
<1>2. Quiet /\ Current(c) /\ Knows(c) /\ Ordered BY DEF Quiet
<1>3. /\ ledger' = ledger /\ inputs' = inputs /\ forgotten' = forgotten
      /\ mid' = mid /\ long' = long
  BY <1>1, LoadTextKeeps, StillStore
<1>4. Current(c)' 
  <2>1. pc'[c] \notin Promoting \cup {"clean", "commit2", "agent2", "agent3", "clear3"}
    BY <1>1 DEF LoadText, Goto, PcsOK, Promoting
  <2> QED BY <2>1 DEF Current, Promoting
<1>5. Knows(c)' 
  <2>1. SUFFICES ASSUME c \in Turn PROVE Knows(c)' BY DEF Knows
  <2>2. pc[c] = "text" /\ c \notin Viewer BY <2>1, ClientKinds DEF LoadText
  <2>3. \/ pc'[c] \in {"idle", "fail"}
        \/ pc'[c] = "ready" /\ seen' = seen
        \/ pc'[c] = "validate" /\ seen' = seen /\ draft' = draft /\ draft[c] # NoDraft
    BY <1>1, <2>1, <2>2 DEF LoadText, Goto, PcsOK
  <2>4. KnowsAll(c) /\ (draft[c] # NoDraft => DraftHolds(c))
    BY <1>2, <2>1, <2>2 DEF Knows, Loaded, Drafting, LoadPcs
  <2>5. \A S, n : /\ (Covers(S, n)' <=> Covers(S, n)) /\ (Tops(n)' <=> Tops(n))
                  /\ (Forgets(S)' <=> Forgets(S))
    BY <1>3 DEF Covers, Tops, Forgets, Kept
  <2>6. CASE pc'[c] \in {"idle", "fail"} BY <2>6 DEF Knows, Loaded, Drafting, LoadPcs, Promoting
  <2>7. CASE pc'[c] = "ready" /\ seen' = seen
    BY <1>3, <2>4, <2>5, <2>7 DEF Knows, Drafting, LoadPcs, Promoting, KnowsAll
  <2>8. CASE pc'[c] = "validate" /\ seen' = seen /\ draft' = draft /\ draft[c] # NoDraft
    BY <1>3, <2>4, <2>5, <2>8 DEF Knows, KnowsAll, DraftHolds
  <2> QED BY <2>3, <2>6, <2>7, <2>8
<1> QED BY <1>4, <1>5

LEMMA TurnDecidesQuiet ==
    ASSUME Always, Quiet, NEW c \in Client, TurnDecides(c)
    PROVE  Current(c)' /\ Knows(c)'
<1>1. PcsOK /\ WorkOK /\ SeenOK /\ DraftOK /\ StoreOK /\ Sound(c) /\ Always
  BY DEF Always, ClientsOK
<1>2. Quiet /\ Current(c) /\ Knows(c) /\ Ordered BY DEF Quiet
<1>3. /\ ledger' = ledger /\ inputs' = inputs /\ forgotten' = forgotten
      /\ mid' = mid /\ long' = long
  BY <1>1, TurnDecidesKeeps, StillStore
<1>4. Current(c)' 
  <2>1. pc'[c] \notin Promoting \cup {"clean", "commit2", "agent2", "agent3", "clear3"}
    BY <1>1 DEF TurnDecides, Goto, PcsOK, Promoting
  <2> QED BY <2>1 DEF Current, Promoting
<1>5. Knows(c)' 
  <2>1. /\ c \in Turn /\ pc[c] = "ready" /\ seen' = seen
        /\ pc'[c] \in {"prepare", "agent", "save"}
    BY <1>1 DEF TurnDecides, Goto, PcsOK
  <2>2. \A S, n : /\ (Covers(S, n)' <=> Covers(S, n)) /\ (Tops(n)' <=> Tops(n))
                  /\ (Forgets(S)' <=> Forgets(S))
    BY <1>3 DEF Covers, Tops, Forgets, Kept
  <2> QED BY <1>2, <1>3, <2>1, <2>2 DEF Knows, Loaded, Drafting, LoadPcs, Promoting, KnowsAll
<1> QED BY <1>4, <1>5

LEMMA PrepareQuiet ==
    ASSUME Always, Quiet, NEW c \in Client, Prepare(c)
    PROVE  Current(c)' /\ Knows(c)'
<1>1. PcsOK /\ WorkOK /\ SeenOK /\ DraftOK /\ StoreOK /\ Sound(c) /\ Always
  BY DEF Always, ClientsOK
<1>2. Quiet /\ Current(c) /\ Knows(c) /\ Ordered BY DEF Quiet
<1>3. /\ ledger' = ledger /\ inputs' = inputs /\ forgotten' = forgotten
      /\ mid' = mid /\ long' = long
  BY <1>1, PrepareKeeps, StillStore
<1>4. Current(c)' 
  <2>1. pc'[c] \notin Promoting \cup {"clean", "commit2", "agent2", "agent3", "clear3"}
    BY <1>1 DEF Prepare, Unlock, Goto, PcsOK, Promoting
  <2> QED BY <2>1 DEF Current, Promoting
<1>5. Knows(c)' 
  <2> DEFINE active == Uncovered(ledger, mid, long)
             digest == Digest(Latest(mid, long))
             covered == Covered(ledger, mid, long)
             last == IF active = {} THEN covered ELSE Newest(active)
  <2>1. /\ c \in Turn /\ pc[c] = "prepare" /\ seen' = seen
        /\ \/ pc'[c] \in {"fail", "ready"}
           \/ /\ pc'[c] = "fold"
              /\ draft'[c] = [active |-> active, last |-> last, size |-> Cardinality(ledger),
                              digest |-> digest \cup active]
    BY <1>1 DEF Prepare, Folded, Goto, PcsOK, DraftOK
  <2>2. \A S, n : /\ (Covers(S, n)' <=> Covers(S, n)) /\ (Tops(n)' <=> Tops(n))
                  /\ (Forgets(S)' <=> Forgets(S))
    BY <1>3 DEF Covers, Tops, Forgets, Kept
  <2>3. KnowsAll(c) BY <1>2, <2>1 DEF Knows, Loaded
  <2>4. Forgets(digest) /\ Covers(digest, covered) BY <1>1, <1>2, LatestCovers
  <2>5. /\ active = {x \in ledger : x > covered} /\ covered \in Nat /\ ledger \subseteq 1..written
        /\ written \in Nat /\ Tops(covered) /\ \A e \in Kept : e.last \in Nat
    BY <1>1, CoveredFacts, OfIsRange DEF StoreOK, Tops, Kept, Entry
  <2>6. active # {} => Newest(active) \in active /\ \A y \in active : y <= Newest(active)
    <3> HIDE DEF active, covered
    <3>1. active \in SUBSET (0..written) BY <2>5
    <3> QED BY <2>5, <3>1, NewestOfSome
  <2>7. last \in Nat /\ covered <= last /\ Forgets(active) /\ Covers(digest \cup active, last)
    <3> HIDE DEF digest, covered
    <3>1. CASE active = {} BY <2>4, <2>5, <3>1 DEF Forgets, Covers
    <3>2. CASE active # {}
      <4>1. last = Newest(active) /\ last \in active BY <2>6, <3>2
      <4>2. last \in Nat /\ covered <= last
        <5> HIDE DEF last, active
        <5>1. last \in ledger /\ last > covered BY <2>5, <4>1
        <5> QED BY <2>5, <5>1
      <4>3. Forgets(active) BY <1>1, <2>5 DEF Always, Forgets
      <4>4. Covers(digest \cup active, last)
        <5>1. SUFFICES ASSUME NEW x \in ledger PROVE x \in digest \cup active \cup inputs
          BY DEF Covers
        <5>2. CASE x <= covered BY <2>4, <5>2 DEF Covers
        <5>3. CASE x > covered BY <2>5, <5>3
        <5> QED BY <2>5, <5>2, <5>3
      <4> QED BY <4>2, <4>3, <4>4
    <3> QED BY <3>1, <3>2
  <2> HIDE DEF active, digest, covered, last
  <2>8. Tops(last) /\ Forgets(digest \cup active)
    BY <2>4, <2>5, <2>7 DEF Tops, Forgets
  <2>9. CASE pc'[c] \in {"fail", "ready"}
    BY <1>3, <2>1, <2>2, <2>3, <2>9 DEF Knows, Loaded, Drafting, LoadPcs, Promoting, KnowsAll
  <2>10. CASE draft'[c] = [active |-> active, last |-> last, size |-> Cardinality(ledger),
                           digest |-> digest \cup active]
    <3>1. draft'[c].last = last /\ draft'[c].digest = digest \cup active BY <2>10
    <3>2. KnowsAll(c)' BY <1>3, <2>1, <2>2, <2>3 DEF KnowsAll
    <3>3. DraftHolds(c)' BY <2>2, <2>7, <2>8, <3>1 DEF DraftHolds
    <3> QED BY <3>2, <3>3 DEF Knows
  <2> QED BY <2>1, <2>9, <2>10
<1> QED BY <1>4, <1>5

LEMMA FoldQuiet ==
    ASSUME Always, Quiet, NEW c \in Client, Fold(c)
    PROVE  Current(c)' /\ Knows(c)'
<1>1. PcsOK /\ WorkOK /\ SeenOK /\ DraftOK /\ StoreOK /\ Sound(c) /\ Always
  BY DEF Always, ClientsOK
<1>2. Quiet /\ Current(c) /\ Knows(c) /\ Ordered BY DEF Quiet
<1>3. /\ ledger' = ledger /\ inputs' = inputs /\ forgotten' = forgotten
      /\ mid' = mid /\ long' = long
  BY <1>1, FoldKeeps, StillStore
<1>4. Current(c)' 
  <2>1. pc'[c] \notin Promoting \cup {"clean", "commit2", "agent2", "agent3", "clear3"}
    BY <1>1 DEF Fold, Unlock, Goto, PcsOK, Promoting
  <2> QED BY <2>1 DEF Current, Promoting
<1>5. Knows(c)' 
  <2>1. /\ c \in Turn /\ pc[c] = "fold" /\ seen' = seen
        /\ \/ pc'[c] \in {"fail", "panicked"}
           \/ pc'[c] = "mids" /\ draft' = draft
    BY <1>1 DEF Fold, Goto, PcsOK
  <2>2. \A S, n : /\ (Covers(S, n)' <=> Covers(S, n)) /\ (Tops(n)' <=> Tops(n))
                  /\ (Forgets(S)' <=> Forgets(S))
    BY <1>3 DEF Covers, Tops, Forgets, Kept
  <2>3. KnowsAll(c) /\ DraftHolds(c) BY <1>2, <2>1 DEF Knows, Loaded, Drafting
  <2>4. CASE pc'[c] \in {"fail", "panicked"}
    BY <2>4 DEF Knows, Loaded, Drafting, LoadPcs, Promoting
  <2>5. CASE pc'[c] = "mids" /\ draft' = draft
    BY <1>3, <2>1, <2>2, <2>3, <2>5 DEF Knows, KnowsAll, DraftHolds
  <2> QED BY <2>1, <2>4, <2>5
<1> QED BY <1>4, <1>5

LEMMA ValidateQuiet ==
    ASSUME Always, Quiet, NEW c \in Client, Validate(c)
    PROVE  Current(c)' /\ Knows(c)'
<1>1. PcsOK /\ WorkOK /\ SeenOK /\ DraftOK /\ StoreOK /\ Sound(c) /\ Always
  BY DEF Always, ClientsOK
<1>2. Quiet /\ Current(c) /\ Knows(c) /\ Ordered BY DEF Quiet
<1>3. /\ ledger' = ledger /\ inputs' = inputs /\ forgotten' = forgotten
      /\ mid' = mid /\ long' = long
  BY <1>1, ValidateKeeps, StillStore
<1>4. Current(c)' 
  <2>1. pc'[c] \notin Promoting \cup {"clean", "commit2", "agent2", "agent3", "clear3"}
    BY <1>1 DEF Validate, Goto, PcsOK, Promoting
  <2> QED BY <2>1 DEF Current, Promoting
<1>5. Knows(c)' 
  <2> DEFINE rest == {x \in ledger : x > draft[c].last}
             fresh == draft[c].digest \cup rest \cup (inputs \cap ledger)
  <2>1. /\ c \in Turn /\ pc[c] = "validate"
        /\ \/ pc'[c] \in {"fail", "ready"} /\ seen' = seen
           \/ pc'[c] = "commit" /\ draft' = draft /\ seen'[c] = fresh
    BY <1>1 DEF Validate, Goto, PcsOK, SeenOK
  <2>2. \A S, n : /\ (Covers(S, n)' <=> Covers(S, n)) /\ (Tops(n)' <=> Tops(n))
                  /\ (Forgets(S)' <=> Forgets(S))
    BY <1>3 DEF Covers, Tops, Forgets, Kept
  <2>3. KnowsAll(c) /\ DraftHolds(c) BY <1>2, <2>1 DEF Knows, Loaded, Drafting
  <2>4. CASE pc'[c] \in {"fail", "ready"} /\ seen' = seen
    <3> HIDE DEF fresh
    <3> QED BY <1>3, <2>2, <2>3, <2>4 DEF Knows, Loaded, Drafting, LoadPcs, Promoting, KnowsAll
  <2>5. CASE pc'[c] = "commit" /\ draft' = draft /\ seen'[c] = fresh
    <3>1. Forgets(fresh) BY <1>1, <2>3 DEF DraftHolds, Forgets, Always
    <3>2. \A x \in ledger : x \in fresh \cup inputs
      <4>1. SUFFICES ASSUME NEW x \in ledger PROVE x \in fresh \cup inputs OBVIOUS
      <4>2. CASE x <= draft[c].last BY <2>3, <4>2 DEF DraftHolds, Covers
      <4>3. CASE x > draft[c].last BY <4>3
      <4>4. x \in Nat /\ draft[c].last \in Nat BY <1>1 DEF StoreOK, DraftOK, Draft
      <4> QED BY <4>2, <4>3, <4>4
    <3> HIDE DEF fresh
    <3>3. KnowsAll(c)' BY <1>3, <2>2, <2>5, <3>1, <3>2 DEF KnowsAll
    <3>4. DraftHolds(c)' BY <2>2, <2>3, <2>5 DEF DraftHolds
    <3> QED BY <3>3, <3>4 DEF Knows
  <2> QED BY <2>1, <2>4, <2>5
<1> QED BY <1>4, <1>5

LEMMA CommitCheckQuiet ==
    ASSUME Always, Quiet, NEW c \in Client, CommitCheck(c)
    PROVE  Current(c)' /\ Knows(c)'
<1>1. PcsOK /\ WorkOK /\ SeenOK /\ DraftOK /\ StoreOK /\ Sound(c) /\ Always
  BY DEF Always, ClientsOK
<1>2. Quiet /\ Current(c) /\ Knows(c) /\ Ordered BY DEF Quiet
<1>3. /\ ledger' = ledger /\ inputs' = inputs /\ forgotten' = forgotten
      /\ mid' = mid /\ long' = long
  BY <1>1, CommitCheckKeeps, StillStore
<1>4. Current(c)' 
  <2>1. \/ pc'[c] = "fail"
        \/ pc'[c] = "commit2" /\ work' = [work EXCEPT ![c] = [work[c] EXCEPT !.keep = mid]]
    BY <1>1 DEF CommitCheck, Goto, PcsOK, WorkOK
  <2>2. work' = [work EXCEPT ![c] = [work[c] EXCEPT !.keep = mid]] => work'[c].keep = mid
    BY <1>1 DEF WorkOK, Work
  <2> QED BY <1>3, <2>1, <2>2 DEF Current, Promoting
<1>5. Knows(c)' 
  <2>1. /\ c \in Turn /\ pc[c] = "commit" /\ seen' = seen
        /\ \/ pc'[c] = "fail"
           \/ pc'[c] = "commit2" /\ draft' = draft
    BY <1>1 DEF CommitCheck, Goto, PcsOK
  <2>2. \A S, n : /\ (Covers(S, n)' <=> Covers(S, n)) /\ (Tops(n)' <=> Tops(n))
                  /\ (Forgets(S)' <=> Forgets(S))
    BY <1>3 DEF Covers, Tops, Forgets, Kept
  <2>3. KnowsAll(c) /\ DraftHolds(c) BY <1>2, <2>1 DEF Knows, Loaded, Drafting
  <2>4. CASE pc'[c] = "fail" BY <2>4 DEF Knows, Loaded, Drafting, LoadPcs, Promoting
  <2>5. CASE pc'[c] = "commit2" /\ draft' = draft
    BY <1>3, <2>1, <2>2, <2>3, <2>5 DEF Knows, KnowsAll, DraftHolds
  <2> QED BY <2>1, <2>4, <2>5
<1> QED BY <1>4, <1>5

LEMMA AgentReadQuiet ==
    ASSUME Always, Quiet, NEW c \in Client, AgentRead(c)
    PROVE  Current(c)' /\ Knows(c)'
<1>1. PcsOK /\ WorkOK /\ SeenOK /\ DraftOK /\ StoreOK /\ Sound(c) /\ Always
  BY DEF Always, ClientsOK
<1>2. Quiet /\ Current(c) /\ Knows(c) /\ Ordered BY DEF Quiet
<1>3. /\ ledger' = ledger /\ inputs' = inputs /\ forgotten' = forgotten
      /\ mid' = mid /\ long' = long
  BY <1>1, AgentReadKeeps, StillStore
<1>4. Current(c)' 
  <2>1. \/ pc'[c] = "ready"
        \/ pc'[c] = "agent2" /\ work' = [work EXCEPT ![c] = [work[c] EXCEPT !.old = mid]]
    BY <1>1 DEF AgentRead, Goto, PcsOK, WorkOK
  <2>2. work' = [work EXCEPT ![c] = [work[c] EXCEPT !.old = mid]] => work'[c].old = mid
    BY <1>1 DEF WorkOK, Work
  <2> QED BY <1>3, <2>1, <2>2 DEF Current, Promoting
<1>5. Knows(c)' 
  <2>1. /\ c \in Turn /\ pc[c] = "agent" /\ seen' = seen
        /\ \/ pc'[c] = "ready"
           \/ /\ pc'[c] = "agent2" /\ ledger # {}
              /\ draft' = [draft EXCEPT ![c].last = Newest(ledger), ![c].digest = seen[c]]
    BY <1>1 DEF AgentRead, Goto, PcsOK
  <2>2. \A S, n : /\ (Covers(S, n)' <=> Covers(S, n)) /\ (Tops(n)' <=> Tops(n))
                  /\ (Forgets(S)' <=> Forgets(S))
    BY <1>3 DEF Covers, Tops, Forgets, Kept
  <2>3. KnowsAll(c) BY <1>2, <2>1 DEF Knows, Loaded
  <2>4. CASE pc'[c] = "ready"
    BY <1>3, <2>1, <2>2, <2>3, <2>4 DEF Knows, Drafting, LoadPcs, Promoting, KnowsAll
  <2>5. CASE /\ ledger # {}
             /\ draft' = [draft EXCEPT ![c].last = Newest(ledger), ![c].digest = seen[c]]
    <3>1. draft'[c].last = Newest(ledger) /\ draft'[c].digest = seen[c]
      BY <1>1, <2>5 DEF DraftOK, Draft
    <3>2. \A x \in ledger : x <= Newest(ledger)
      <4>1. ledger \in SUBSET (0..written) /\ written \in Nat BY <1>1 DEF StoreOK
      <4> QED BY <2>5, <4>1, NewestOfSome
    <3>3. Tops(Newest(ledger)) /\ Covers(seen[c], Newest(ledger)) /\ Forgets(seen[c])
      BY <2>3, <3>2 DEF Tops, Covers, KnowsAll
    <3>4. DraftHolds(c)' BY <2>2, <3>1, <3>3 DEF DraftHolds
    <3>5. KnowsAll(c)' BY <1>3, <2>1, <2>2, <2>3 DEF KnowsAll
    <3> QED BY <3>4, <3>5 DEF Knows
  <2> QED BY <2>1, <2>4, <2>5
<1> QED BY <1>4, <1>5

LEMMA StartSaveQuiet ==
    ASSUME Always, Quiet, NEW c \in Client, StartSave(c)
    PROVE  Current(c)' /\ Knows(c)'
<1>1. PcsOK /\ WorkOK /\ SeenOK /\ DraftOK /\ StoreOK /\ Sound(c) /\ Always
  BY DEF Always, ClientsOK
<1>2. Quiet /\ Current(c) /\ Knows(c) /\ Ordered BY DEF Quiet
<1>3. /\ ledger' = ledger /\ inputs' = inputs /\ forgotten' = forgotten
      /\ mid' = mid /\ long' = long
  BY <1>1, StartSaveKeeps, StillStore
<1>4. Current(c)' 
  <2>1. pc'[c] \notin Promoting \cup {"clean", "commit2", "agent2", "agent3", "clear3"}
    BY <1>1 DEF StartSave, Goto, PcsOK, Promoting
  <2> QED BY <2>1 DEF Current, Promoting
<1>5. Knows(c)' BY ClientKinds DEF StartSave, Knows
<1> QED BY <1>4, <1>5

LEMMA StartClearQuiet ==
    ASSUME Always, Quiet, NEW c \in Client, StartClear(c)
    PROVE  Current(c)' /\ Knows(c)'
<1>1. PcsOK /\ WorkOK /\ SeenOK /\ DraftOK /\ StoreOK /\ Sound(c) /\ Always
  BY DEF Always, ClientsOK
<1>2. Quiet /\ Current(c) /\ Knows(c) /\ Ordered BY DEF Quiet
<1>3. /\ ledger' = ledger /\ inputs' = inputs /\ forgotten' = forgotten
      /\ mid' = mid /\ long' = long
  BY <1>1, StartClearKeeps, StillStore
<1>4. Current(c)' 
  <2>1. pc'[c] \notin Promoting \cup {"clean", "commit2", "agent2", "agent3", "clear3"}
    BY <1>1 DEF StartClear, RunLockFree, Goto, PcsOK, Promoting
  <2> QED BY <2>1 DEF Current, Promoting
<1>5. Knows(c)' BY ClientKinds DEF StartClear, Knows
<1> QED BY <1>4, <1>5

LEMMA ClearMidQuiet ==
    ASSUME Always, Quiet, NEW c \in Client, ClearMid(c)
    PROVE  Current(c)' /\ Knows(c)'
<1>1. PcsOK /\ WorkOK /\ SeenOK /\ DraftOK /\ StoreOK /\ Sound(c) /\ Always
  BY DEF Always, ClientsOK
<1>2. Quiet /\ Current(c) /\ Knows(c) /\ Ordered BY DEF Quiet
<1>3. /\ ledger' = ledger /\ inputs' = inputs /\ forgotten' = forgotten
      /\ mid' = mid /\ long' = long
  BY <1>1, ClearMidKeeps, StillStore
<1>4. Current(c)' 
  <2>1. pc'[c] = "clear3" /\ mid' = <<>>
    BY <1>1, <1>3 DEF ClearMid, Goto, PcsOK
  <2> QED BY <2>1 DEF Current, Promoting
<1>5. Knows(c)' BY ClientKinds DEF ClearMid, Knows
<1> QED BY <1>4, <1>5

LEMMA ClearFailsQuiet ==
    ASSUME Always, Quiet, NEW c \in Client, ClearFails(c)
    PROVE  Current(c)' /\ Knows(c)'
<1>1. PcsOK /\ WorkOK /\ SeenOK /\ DraftOK /\ StoreOK /\ Sound(c) /\ Always
  BY DEF Always, ClientsOK
<1>2. Quiet /\ Current(c) /\ Knows(c) /\ Ordered BY DEF Quiet
<1>3. /\ ledger' = ledger /\ inputs' = inputs /\ forgotten' = forgotten
      /\ mid' = mid /\ long' = long
  BY <1>1, ClearFailsKeeps, StillStore
<1>4. Current(c)' 
  <2>1. pc'[c] \notin Promoting \cup {"clean", "commit2", "agent2", "agent3", "clear3"}
    BY <1>1 DEF ClearFails, Unlock, Goto, PcsOK, Promoting
  <2> QED BY <2>1 DEF Current, Promoting
<1>5. Knows(c)' BY ClientKinds DEF ClearFails, Knows
<1> QED BY <1>4, <1>5

-----------------------------------------------------------------------------
(* The steps that write, as long as they race with nobody. *)

LEMMA Alone ==
    ASSUME NEW c \in Client, Raced(c), ~ raced'
    PROVE  ~ raced /\ \A d \in Client \ {c} : pc[d] \notin Overwriting
BY DEF Raced

\* A client that is not about to write an index keeps what it is about to remove.
LEMMA OthersCurrent ==
    ASSUME Always, NEW c \in Client, NEW d \in Client, d # c, OnlyOwn(c), Current(d),
           pc[d] \notin Overwriting,
           IdsOf(mid') \subseteq IdsOf(mid) \cup {made + 1},
           IdsOf(long') \subseteq IdsOf(long) \cup {made + 1},
           pc[d] = "clear3" => mid' = <<>>
    PROVE  Current(d)'
<1>1. pc'[d] = pc[d] /\ work'[d] = work[d] BY DEF OnlyOwn
<1>2. made + 1 \notin IdsOf(work[d].old) \cup IdsOf(work[d].merged)
  <2>1. IdsOf(work[d].old) \cup IdsOf(work[d].merged) \subseteq 1..made
    BY DEF Always, Sound, Copy
  <2>2. made \in Nat BY StoreFacts DEF Always
  <2> HIDE DEF made, IdsOf
  <2> QED BY <2>1, <2>2
<1> HIDE DEF made, IdsOf
<1> QED BY <1>1, <1>2 DEF Current, Overwriting, Promoting

\* A step that leaves the indices alone.
LEMMA SameCurrent ==
    ASSUME NEW c \in Client, NEW d \in Client, d # c, OnlyOwn(c), Current(d),
           mid' = mid, long' = long
    PROVE  Current(d)'
<1>1. pc'[d] = pc[d] /\ work'[d] = work[d] BY DEF OnlyOwn
<1>2. \A o, k : Divides(o, k)' <=> Divides(o, k) BY DEF Divides
<1> QED BY <1>1, <1>2 DEF Current

\* Who holds the run lock is the only one with something in mind.
LEMMA LockHolderKnows ==
    ASSUME Always, NEW c \in Turn \cup Clearer, NEW d \in Client, d # c, OnlyOwn(c),
           pc[c] \notin {"idle", "panicked"}
    PROVE  Knows(d)' /\ pc[d] \notin {"clear2", "clear3", "commit2", "agent2"}
<1>0. c \in Client BY DEF Client
<1>1. runLock = c BY <1>0 DEF Always, Sound, Role
<1>2. pc'[d] = pc[d] /\ draft'[d] = draft[d] BY <1>0 DEF OnlyOwn
<1>3. d \in Turn \cup Clearer => pc[d] \in {"idle", "panicked"}
  BY <1>1 DEF Always, Sound, Role
<1>4. d \in Turn => ~ Loaded(d)' /\ ~ Drafting(d)'
  BY <1>2, <1>3 DEF Loaded, Drafting, LoadPcs, Promoting
<1>5. d \notin Turn \cup Clearer => pc[d] \in LoadPcs \cup {"idle", "fail"}
  BY DEF Always, Sound, Role, Client
<1> QED BY <1>3, <1>4, <1>5 DEF Knows, LoadPcs, Promoting

\* What anybody knows stays, when the covered lasts do not grow.
LEMMA OthersKnow ==
    ASSUME NEW c \in Client, NEW d \in Client, d # c, OnlyOwn(c), Knows(d),
           ledger' = ledger, inputs' = inputs, forgotten' = forgotten,
           \A e \in Kept' : \E f \in Kept : f.last = e.last
    PROVE  Knows(d)'
<1>1. pc'[d] = pc[d] /\ seen'[d] = seen[d] /\ draft'[d] = draft[d] BY DEF OnlyOwn
<1>2. \A S, n : /\ (Covers(S, n)' <=> Covers(S, n)) /\ (Forgets(S)' <=> Forgets(S))
                /\ (Tops(n) => Tops(n)')
  BY DEF Covers, Forgets, Tops
<1>3. Loaded(d)' = Loaded(d) /\ Drafting(d)' = Drafting(d) BY <1>1 DEF Loaded, Drafting
<1>4. CASE d \in Turn /\ Loaded(d)
  <2>1. KnowsAll(d)' BY <1>1, <1>2, <1>4 DEF Knows, KnowsAll
  <2>2. Drafting(d) => DraftHolds(d)' BY <1>1, <1>2, <1>4 DEF Knows, DraftHolds
  <2> QED BY <1>3, <2>1, <2>2 DEF Knows
<1>5. CASE d \in Turn /\ ~ Loaded(d)
  <2>1. ~ Drafting(d) BY <1>5 DEF Loaded, Drafting
  <2> QED BY <1>3, <1>5, <2>1 DEF Knows
<1> QED BY <1>4, <1>5 DEF Knows

\* Adding one summary that covers what it says it covers.
LEMMA HoldsWithNew ==
    ASSUME Holds, ledger' = ledger, inputs' = inputs, forgotten' = forgotten,
           NEW new, NEW digest, Kept' \subseteq Kept \cup {new},
           \A e \in Kept : text'[e.id] = text[e.id],
           text'[new.id] = digest, Covers(digest, new.last), Forgets(digest)
    PROVE  Holds'
<1>1. \A S, n : (Covers(S, n)' <=> Covers(S, n)) /\ (Forgets(S)' <=> Forgets(S))
  BY DEF Covers, Forgets
<1>2. /\ \A e \in Kept : Covers(text[e.id], e.last) /\ text'[e.id] = text[e.id] /\ Forgets(text[e.id])
      /\ \A e : e = new => Covers(digest, e.last) /\ text'[e.id] = digest /\ Forgets(digest)
  BY DEF Holds
<1>3. \A e \in Kept' : \E S : S = text'[e.id] /\ Covers(S, e.last)' /\ Forgets(S)'
  <2>1. TAKE e \in Kept'
  <2>2. CASE e \in Kept BY <1>1, <1>2, <2>2
  <2>3. CASE e = new BY <1>1, <1>2, <2>3
  <2> QED BY <2>2, <2>3
<1>4. \A e \in Kept' : Covers(text[e.id], e.last)' /\ Forgets(text[e.id])'
  BY <1>3 DEF Covers, Forgets
<1> QED BY <1>4 DEF Holds

LEMMA TopsStay ==
    ASSUME ledger' = ledger, \A e \in Kept' : \E f \in Kept : f.last = e.last
    PROVE  \A n : Tops(n) => Tops(n)'
BY DEF Tops

LEMMA PromoteWriteLongQuiet ==
    ASSUME Always, Quiet, NEW c \in Client, PromoteWriteLong(c), ~ raced'
    PROVE  Quiet'
<1> DEFINE new == [id |-> made + 1, last |-> Last(work[c].old).last]
           digest == PromotedDigest(work[c])
<1>1. /\ PcsOK /\ WorkOK /\ StoreOK /\ Sound(c) /\ OnlyOwn(c) /\ StoreOK'
      /\ Holds /\ Ordered /\ Files /\ Current(c) /\ Knows(c)
  BY PromoteWriteLongKeeps DEF Always, ClientsOK, Quiet, Keeps
<1>2. /\ text' = Append(text, digest) /\ long' = <<new>> /\ longFiles' = longFiles \cup {made + 1}
      /\ ledger' = ledger /\ inputs' = inputs /\ mid' = mid /\ midFiles' = midFiles
      /\ aged' = aged /\ forgotten' = forgotten
      /\ torn' = torn /\ work' = work /\ seen' = seen /\ draft' = draft
      /\ pc[c] = "wlong" /\ pc'[c] = "wmid"
  BY <1>1 DEF PromoteWriteLong, NewSummary, Promoted, history, Goto, PcsOK
<1>3. \A d \in Client \ {c} : pc[d] \notin Overwriting BY Alone DEF PromoteWriteLong
<1>4. /\ mid \in Seq(Entry) /\ long \in Seq(Entry) /\ work[c].old \in Seq(Entry)
      /\ work[c].old # <<>> /\ work[c].merged = long /\ Divides(work[c].old, work[c].keep)
      /\ IdsOf(mid) \subseteq 1..made /\ IdsOf(long) \subseteq 1..made
  BY <1>1, <1>2 DEF StoreOK, WorkOK, Work, Sound, Copy, Current, Promoting
<1>5. /\ made \in Nat /\ \A s \in 1..made : text[s] \subseteq 1..written
      /\ 1..made \subseteq 1..(made + 1) /\ made + 1 \in 1..(made + 1) /\ made + 1 \notin 1..made
  BY <1>1, StoreFacts
<1>6. Last(work[c].old) \in Of(work[c].old) /\ Of(work[c].old) \subseteq Of(mid)
  BY <1>4, OfIsRange DEF Divides
<1>7. /\ IdsOf(mid) = {e.id : e \in Of(mid)} /\ IdsOf(long) = {e.id : e \in Of(long)}
      /\ IdsOf(work[c].old) = {e.id : e \in Of(work[c].old)} /\ Of(mid) \subseteq Entry
  BY <1>4, OfIsRange
<1>8. new \in Entry /\ new.id = made + 1
  BY <1>5, <1>6, <1>7 DEF Entry
<1>9. Of(<<new>>) = {new} /\ IdsOf(<<new>>) = {made + 1}
  <2> HIDE DEF new
  <2>1. <<new>> \in Seq(Entry) /\ Of(<<new>>) = {new} BY <1>8, OfOne
  <2> QED BY <1>8, <2>1, OfIsRange
<1>10. digest \subseteq 1..written /\ text[Last(work[c].old).id] \subseteq digest /\ Forgets(digest)
  <2>1. IdsOf(work[c].old) \cup IdsOf(work[c].merged) = {e.id : e \in Of(work[c].old) \cup Of(long)}
    BY <1>4, <1>7
  <2>2. digest = UNION {text[s] : s \in {e.id : e \in Of(work[c].old) \cup Of(long)}}
    BY <2>1 DEF PromotedDigest
  <2>3. \A e \in Of(work[c].old) \cup Of(long) : /\ Forgets(text[e.id]) /\ e.id \in 1..made
    BY <1>1, <1>4, <1>6, <1>7 DEF Holds, Kept
  <2> HIDE DEF digest
  <2>4. digest \subseteq 1..written BY <1>5, <2>2, <2>3
  <2>5. text[Last(work[c].old).id] \subseteq digest BY <1>6, <2>2
  <2>6. Forgets(digest) BY <2>2, <2>3 DEF Forgets
  <2> QED BY <2>4, <2>5, <2>6
<1>11. /\ made' = made + 1 /\ \A s \in 1..made : text'[s] = text[s]
       /\ text'[made + 1] = digest
  <2> HIDE DEF digest
  <2>1. digest \in SUBSET (1..written) BY <1>10
  <2> QED BY <1>1, <1>2, <2>1, NewText
<1> HIDE DEF new, digest, made
<1>12. Kept' = Of(mid) \cup {new} BY <1>2, <1>9 DEF Kept
<1>13. \A e \in Kept' : \E f \in Kept : f.last = e.last
  <2>1. new.last = Last(work[c].old).last BY DEF new
  <2> QED BY <1>6, <1>12, <2>1 DEF Kept
<1>14. Holds'
  <2>1. Covers(digest, new.last)
    <3>1. Last(work[c].old) \in Kept BY <1>6 DEF Kept
    <3>2. Covers(text[Last(work[c].old).id], Last(work[c].old).last) BY <1>1, <3>1 DEF Holds
    <3> QED BY <1>10, <3>2 DEF Covers, new
  <2>2. \A e \in Of(mid) : e.id \in 1..made BY <1>4, <1>7
  <2>3. \A e \in Kept : text'[e.id] = text[e.id]
    <3>1. \A e \in Kept : e.id \in 1..made BY <1>4, <1>7 DEF Kept
    <3> QED BY <1>11, <3>1
  <2> QED BY <1>1, <1>2, <1>8, <1>10, <1>11, <1>12, <2>1, <2>3, HoldsWithNew DEF Kept
<1>15. Ordered'
  <2>1. \A n : Tops(n) => Tops(n)' BY <1>2, <1>13, TopsStay
  <2> QED BY <1>1, <1>2, <2>1 DEF Ordered, Increasing, AgedFirst, Of, Last
<1>16. Files'
  <2>1. IdsOf(long)' = {made + 1} /\ IdsOf(mid)' = IdsOf(mid) BY <1>2, <1>9 DEF IdsOf
  <2> QED BY <1>1, <1>2, <2>1 DEF Files
<1>17. Current(c)'
  <2>1. \A o, k : Divides(o, k)' <=> Divides(o, k) BY <1>2 DEF Divides
  <2>2. (IdsOf(work[c].merged) \cap IdsOf(long) = {})'
    <3>1. IdsOf(long)' = {made + 1} BY <1>2, <1>9 DEF IdsOf
    <3>2. IdsOf(work[c].merged)' = IdsOf(long) BY <1>2, <1>4 DEF IdsOf
    <3> QED BY <1>4, <1>5, <3>1, <3>2
  <2> QED BY <1>2, <1>4, <2>1, <2>2 DEF Current
<1>18. Knows(c)'
  <2>1. \A S, n : /\ (Covers(S, n)' <=> Covers(S, n)) /\ (Forgets(S)' <=> Forgets(S))
                  /\ (Tops(n) => Tops(n)')
    BY <1>2, <1>13, TopsStay DEF Covers, Forgets
  <2>2. (Loaded(c)' => Loaded(c)) /\ (Drafting(c)' => Drafting(c))
    BY <1>2 DEF Loaded, Drafting, LoadPcs, Promoting
  <2>3. KnowsAll(c) => KnowsAll(c)' BY <1>2, <2>1 DEF KnowsAll
  <2>4. DraftHolds(c) => DraftHolds(c)' BY <1>2, <2>1 DEF DraftHolds
  <2> QED BY <1>1, <2>2, <2>3, <2>4 DEF Knows
<1>19. ASSUME NEW d \in Client, d # c PROVE Current(d)' /\ Knows(d)'
  <2>1. Current(d) /\ Knows(d) /\ pc[d] \notin Overwriting BY <1>3, <1>19 DEF Quiet
  <2>2. IdsOf(mid') \subseteq IdsOf(mid) \cup {made + 1} /\ IdsOf(long') \subseteq IdsOf(long) \cup {made + 1}
    BY <1>2, <1>9
  <2>3. pc[d] = "clear3" => mid' = <<>> BY <1>2, <2>1 DEF Current
  <2>4. Current(d)' BY <1>1, <1>19, <2>1, <2>2, <2>3, OthersCurrent
  <2>5. Knows(d)' BY <1>1, <1>2, <1>13, <1>19, <2>1, OthersKnow
  <2> QED BY <2>4, <2>5
<1> QED BY <1>14, <1>15, <1>16, <1>17, <1>18, <1>19 DEF Quiet

\* A step that adds no summary.
LEMMA HoldsFewer ==
    ASSUME Holds, ledger' = ledger, inputs' = inputs, forgotten' = forgotten, text' = text,
           Kept' \subseteq Kept
    PROVE  Holds'
BY DEF Holds, Covers, Forgets

\* What the client of a step knows stays likewise.
LEMMA OwnKnows ==
    ASSUME NEW c \in Client, Knows(c), ledger' = ledger, inputs' = inputs, forgotten' = forgotten,
           \A e \in Kept' : \E f \in Kept : f.last = e.last,
           seen'[c] = seen[c], Loaded(c)' => Loaded(c),
           Drafting(c)' => Drafting(c) /\ draft'[c] = draft[c]
    PROVE  Knows(c)'
<1>1. \A S, n : /\ (Covers(S, n)' <=> Covers(S, n)) /\ (Forgets(S)' <=> Forgets(S))
                /\ (Tops(n) => Tops(n)')
  BY DEF Covers, Forgets, Tops
<1>2. KnowsAll(c) => KnowsAll(c)' BY <1>1 DEF KnowsAll
<1>3. Drafting(c)' /\ DraftHolds(c) => DraftHolds(c)' BY <1>1 DEF DraftHolds
<1> QED BY <1>2, <1>3 DEF Knows

LEMMA PromoteWriteMidQuiet ==
    ASSUME Always, Quiet, NEW c \in Client, PromoteWriteMid(c), ~ raced'
    PROVE  Quiet'
<1>1. /\ PcsOK /\ WorkOK /\ StoreOK /\ Sound(c) /\ OnlyOwn(c)
      /\ Holds /\ Ordered /\ Files /\ Current(c) /\ Knows(c)
  BY PromoteWriteMidKeeps DEF Always, ClientsOK, Quiet, Keeps
<1>2. /\ text' = text /\ long' = long /\ longFiles' = longFiles /\ midFiles' = midFiles
      /\ ledger' = ledger /\ inputs' = inputs /\ mid' = work[c].keep
      /\ aged' = aged /\ forgotten' = forgotten
      /\ torn' = torn /\ work' = work /\ seen' = seen /\ draft' = draft
      /\ pc[c] = "wmid" /\ pc'[c] = "clean"
  BY <1>1 DEF PromoteWriteMid, KeptIndex, history, Goto, PcsOK
<1>3. \A d \in Client \ {c} : pc[d] \notin Overwriting BY Alone DEF PromoteWriteMid
<1>4. /\ mid \in Seq(Entry) /\ long \in Seq(Entry) /\ work[c].old \in Seq(Entry)
      /\ work[c].keep \in Seq(Entry) /\ Divides(work[c].old, work[c].keep)
  BY <1>1, <1>2 DEF StoreOK, WorkOK, Work, Current, Promoting
<1>5. /\ Of(mid) = Of(work[c].old) \cup Of(work[c].keep) /\ Of(mid') \subseteq Of(mid)
      /\ Increasing(mid') /\ (mid' # <<>> => mid # <<>> /\ Last(mid') = Last(mid))
  BY <1>2, <1>4, OfIsRange DEF Divides
<1>6. IdsOf(mid) = {e.id : e \in Of(mid)} /\ IdsOf(mid') = {e.id : e \in Of(mid')}
  BY <1>2, <1>4, OfIsRange
<1>7. Kept' \subseteq Kept BY <1>2, <1>5 DEF Kept, Of
<1>8. Holds' BY <1>1, <1>2, <1>7, HoldsFewer
<1>9. Ordered'
  <2>1. \A n : Tops(n) => Tops(n)' BY <1>2, <1>7, TopsStay
  <2>2. AgedFirst'
    <3>1. \A e, f \in Of(mid') : e.id < f.id /\ f.id \in aged => e.id \in aged
      BY <1>1, <1>5 DEF Ordered, AgedFirst
    <3> QED BY <1>2, <3>1 DEF AgedFirst, Of
  <2>3. \A n : mid' # <<>> /\ n = Last(mid').last => Tops(n)'
    BY <1>1, <1>5, <2>1 DEF Ordered
  <2>4. (mid # <<>> => Tops(Last(mid).last))' BY <2>3 DEF Tops, Last
  <2> QED BY <1>5, <2>2, <2>4 DEF Ordered, Increasing
<1>10. Files'
  <2>1. IdsOf(mid') \subseteq IdsOf(mid) BY <1>5, <1>6
  <2> QED BY <1>1, <1>2, <2>1 DEF Files, IdsOf
<1>11. Current(c)'
  <2>1. IdsOf(work[c].old) \cap IdsOf(mid') = {} BY <1>2, <1>4 DEF Divides
  <2>2. IdsOf(work[c].merged) \cap IdsOf(long') = {} BY <1>1, <1>2 DEF Current
  <2>3. (IdsOf(work[c].old) \cap IdsOf(mid) = {} /\ IdsOf(work[c].merged) \cap IdsOf(long) = {})'
    BY <1>2, <2>1, <2>2, ZenonT(30) DEF IdsOf
  <2> QED BY <1>2, <2>3 DEF Current, Promoting
<1>12. Knows(c)'
  <2>1. (Loaded(c)' => Loaded(c)) /\ (Drafting(c)' => Drafting(c))
    BY <1>2 DEF Loaded, Drafting, LoadPcs, Promoting
  <2>2. \A e \in Kept' : \E f \in Kept : f.last = e.last BY <1>7
  <2>3. seen'[c] = seen[c] /\ draft'[c] = draft[c] BY <1>2
  <2> QED BY <1>1, <1>2, <2>1, <2>2, <2>3, OwnKnows
<1>13. ASSUME NEW d \in Client, d # c PROVE Current(d)' /\ Knows(d)'
  <2>1. Current(d) /\ Knows(d) /\ pc[d] \notin Overwriting BY <1>3, <1>13 DEF Quiet
  <2>2. IdsOf(mid') \subseteq IdsOf(mid) \cup {made + 1} /\ IdsOf(long') \subseteq IdsOf(long) \cup {made + 1}
    BY <1>2, <1>5, <1>6
  <2>3. pc[d] = "clear3" => mid' = <<>> BY <1>5, <2>1 DEF Current
  <2>4. Current(d)' BY <1>1, <1>13, <2>1, <2>2, <2>3, OthersCurrent
  <2>5. \A e \in Kept' : \E f \in Kept : f.last = e.last BY <1>7
  <2>6. Knows(d)' BY <1>1, <1>2, <1>13, <2>1, <2>5, OthersKnow
  <2> QED BY <2>4, <2>6
<1> QED BY <1>8, <1>9, <1>10, <1>11, <1>12, <1>13 DEF Quiet

LEMMA PromoteCleanQuiet ==
    ASSUME Always, Quiet, NEW c \in Client, PromoteClean(c)
    PROVE  Quiet'
<1>1. /\ PcsOK /\ WorkOK /\ StoreOK /\ OnlyOwn(c)
      /\ Holds /\ Ordered /\ Files /\ Current(c) /\ Knows(c)
  BY PromoteCleanKeeps DEF Always, ClientsOK, Quiet, Keeps
<1>2. /\ text' = text /\ long' = long /\ mid' = mid
      /\ midFiles' = midFiles \ IdsOf(work[c].old) /\ longFiles' = longFiles \ IdsOf(work[c].merged)
      /\ ledger' = ledger /\ inputs' = inputs
      /\ aged' = aged /\ forgotten' = forgotten
      /\ torn' = torn /\ seen' = seen /\ draft' = draft
      /\ pc[c] = "clean" /\ pc'[c] = "index"
  BY <1>1 DEF PromoteClean, history, Goto, PcsOK
<1>3. Kept' = Kept BY <1>2 DEF Kept, Of
<1>4. Holds' BY <1>1, <1>2, <1>3, HoldsFewer
<1>5. Ordered' BY <1>1, <1>2, <1>3 DEF Ordered, Increasing, AgedFirst, Tops, Of, Last
<1>6. Files' BY <1>1, <1>2 DEF Files, Current, IdsOf
<1>7. Current(c)' BY <1>2 DEF Current, Promoting
<1>8. Knows(c)'
  <2>1. (Loaded(c)' => Loaded(c)) /\ (Drafting(c)' => Drafting(c))
    BY <1>2 DEF Loaded, Drafting, LoadPcs, Promoting
  <2>2. \A e \in Kept' : \E f \in Kept : f.last = e.last BY <1>3
  <2>3. seen'[c] = seen[c] /\ draft'[c] = draft[c] BY <1>2
  <2> QED BY <1>1, <1>2, <2>1, <2>2, <2>3, OwnKnows
<1>9. ASSUME NEW d \in Client, d # c PROVE Current(d)' /\ Knows(d)'
  <2>1. Current(d) /\ Knows(d) BY DEF Quiet
  <2>2. \A e \in Kept' : \E f \in Kept : f.last = e.last BY <1>3
  <2> QED BY <1>1, <1>2, <1>9, <2>1, <2>2, SameCurrent, OthersKnow
<1> QED BY <1>4, <1>5, <1>6, <1>7, <1>8, <1>9 DEF Quiet

LEMMA CommitWriteQuiet ==
    ASSUME Always, Quiet, NEW c \in Turn, CommitWrite(c), ~ raced'
    PROVE  Quiet'
<1> DEFINE new == [id |-> made + 1, last |-> draft[c].last]
           digest == draft[c].digest
<1>0. c \in Client BY DEF Client
<1>1. /\ PcsOK /\ WorkOK /\ DraftOK /\ StoreOK /\ Sound(c) /\ OnlyOwn(c)
      /\ Holds /\ Ordered /\ Files /\ Current(c) /\ Knows(c)
  BY <1>0, CommitWriteKeeps DEF Always, ClientsOK, Quiet, Keeps
<1>2. /\ text' = Append(text, digest) /\ mid' = Append(work[c].keep, new)
      /\ midFiles' = midFiles \cup {made + 1}
      /\ ledger' = ledger /\ inputs' = inputs /\ long' = long /\ longFiles' = longFiles
      /\ aged' = aged /\ forgotten' = forgotten /\ torn' = torn /\ seen' = seen
      /\ pc[c] = "commit2" /\ pc'[c] = "ready" /\ draft'[c] = NoDraft
  BY <1>0, <1>1 DEF CommitWrite, NewSummary, history, Goto, PcsOK, DraftOK
<1>3. \A d \in Client \ {c} : pc[d] \notin Overwriting BY <1>0, Alone DEF CommitWrite
<1>4. /\ mid \in Seq(Entry) /\ long \in Seq(Entry) /\ work[c].keep = mid
      /\ IdsOf(mid) \subseteq 1..made /\ IdsOf(long) \subseteq 1..made /\ aged \subseteq 1..made
  BY <1>1, <1>2 DEF StoreOK, Current
<1>5. /\ made \in Nat /\ 1..made \subseteq 1..(made + 1) /\ made + 1 \in 1..(made + 1)
      /\ made + 1 \notin 1..made
  BY <1>1, StoreFacts
<1>6. digest \in SUBSET (1..written) /\ draft[c].last \in Nat
  <2>1. draft[c] \in Draft BY <1>0, <1>1 DEF DraftOK
  <2> QED BY <2>1 DEF Draft
<1>7. /\ IdsOf(mid) = {e.id : e \in Of(mid)} /\ IdsOf(long) = {e.id : e \in Of(long)}
      /\ Of(mid) \subseteq Entry
  BY <1>4, OfIsRange
<1>8. new \in Entry /\ new.id = made + 1 /\ new.last = draft[c].last BY <1>5, <1>6 DEF Entry
<1>9. DraftHolds(c) /\ KnowsAll(c) BY <1>1, <1>2 DEF Knows, Drafting, Loaded
<1>10. /\ made' = made + 1 /\ \A s \in 1..made : text'[s] = text[s]
       /\ text'[made + 1] = digest
  <2> HIDE DEF digest
  <2> QED BY <1>1, <1>2, <1>6, NewText
<1> HIDE DEF new, digest, made
<1>11. /\ mid' \in Seq(Entry) /\ Of(mid') = Of(mid) \cup {new} /\ mid' # <<>> /\ Last(mid') = new
  BY <1>2, <1>4, <1>8, OfAppend
<1>12. IdsOf(mid') = IdsOf(mid) \cup {made + 1}
  <2>1. IdsOf(mid') = {e.id : e \in Of(mid')} BY <1>11, OfIsRange
  <2> QED BY <1>7, <1>8, <1>11, <2>1
<1>13. Kept' = Kept \cup {new} BY <1>2, <1>11 DEF Kept, Of
<1>14. Holds'
  <2>1. Covers(digest, new.last) /\ Forgets(digest) BY <1>8, <1>9 DEF DraftHolds, digest
  <2>2. \A e \in Kept : text'[e.id] = text[e.id]
    <3>1. \A e \in Kept : e.id \in 1..made BY <1>4, <1>7 DEF Kept
    <3> QED BY <1>10, <3>1
  <2> QED BY <1>1, <1>2, <1>8, <1>10, <1>13, <2>1, <2>2, HoldsWithNew
<1>15. Ordered'
  <2>1. Increasing(mid')
    <3>1. \A i \in 1..Len(mid) : mid[i].id \in 1..made BY <1>4 DEF IdsOf
    <3>2. /\ Len(mid') = Len(mid) + 1 /\ Len(mid) \in Nat /\ mid'[Len(mid) + 1] = new
          /\ \A i \in 1..Len(mid) : mid'[i] = mid[i]
      BY <1>2, <1>4
    <3>3. Increasing(mid) BY <1>1 DEF Ordered
    <3>4. \A i, j \in 1..(Len(mid) + 1) : i < j => i \in 1..Len(mid) /\ (j \in 1..Len(mid) \/ j = Len(mid) + 1)
      BY <3>2
    <3>5. \A n \in 1..made : n < made + 1 BY <1>5
    <3>6. SUFFICES ASSUME NEW i \in 1..Len(mid'), NEW j \in 1..Len(mid'), i < j
                   PROVE  mid'[i].id < mid'[j].id
      BY DEF Increasing
    <3>7. i \in 1..Len(mid) /\ (j \in 1..Len(mid) \/ j = Len(mid) + 1) BY <3>2, <3>4, <3>6
    <3>8. CASE j \in 1..Len(mid) BY <3>2, <3>3, <3>6, <3>7, <3>8 DEF Increasing
    <3>9. CASE j = Len(mid) + 1 BY <1>8, <3>1, <3>2, <3>5, <3>7, <3>9
    <3> QED BY <3>7, <3>8, <3>9
  <2>2. AgedFirst'
    <3>1. \A e \in Of(mid) : e.id \in 1..made BY <1>4, <1>7
    <3>2. new.id \notin aged /\ \A n \in 1..made : ~ (new.id < n) BY <1>4, <1>5, <1>8
    <3>3. ~ (new.id < new.id) BY <1>5, <1>8
    <3>4. \A e, f \in Of(mid) \cup {new} : e.id < f.id /\ f.id \in aged => e.id \in aged
      BY <1>1, <3>1, <3>2, <3>3 DEF Ordered, AgedFirst
    <3>5. \A e, f \in Of(mid') : e.id < f.id /\ f.id \in aged => e.id \in aged
      BY <1>11, <3>4
    <3> QED BY <1>2, <3>5 DEF AgedFirst, Of
  <2>3. \A n : n = new.last => Tops(n)'
    <3>1. Tops(new.last) BY <1>8, <1>9 DEF DraftHolds
    <3>2. new.last <= new.last BY <1>6, <1>8
    <3>3. \A e \in Kept' : e.last \in ledger => e.last <= new.last BY <1>13, <3>1, <3>2 DEF Tops
    <3> QED BY <1>2, <3>3 DEF Tops
  <2>4. Tops(Last(mid).last)' BY <1>11, <2>3 DEF Tops, Last
  <2> QED BY <2>1, <2>2, <2>4 DEF Ordered, Increasing
<1>16. Files'
  <2>1. IdsOf(mid)' = IdsOf(mid) \cup {made + 1} /\ IdsOf(long)' = IdsOf(long)
    BY <1>2, <1>12 DEF IdsOf
  <2> QED BY <1>1, <1>2, <2>1 DEF Files
<1>17. Current(c)' BY <1>2 DEF Current, Promoting
<1>18. Knows(c)'
  <2>1. ~ Drafting(c)' BY <1>2 DEF Drafting, LoadPcs, Promoting
  <2>2. KnowsAll(c)' BY <1>2, <1>9 DEF KnowsAll, Forgets
  <2> QED BY <2>1, <2>2 DEF Knows
<1>19. ASSUME NEW d \in Client, d # c PROVE Current(d)' /\ Knows(d)'
  <2>1. Current(d) /\ pc[d] \notin Overwriting BY <1>3, <1>19 DEF Quiet
  <2>2. IdsOf(mid') \subseteq IdsOf(mid) \cup {made + 1} /\ IdsOf(long') \subseteq IdsOf(long) \cup {made + 1}
    BY <1>2, <1>12
  <2>3. Knows(d)' /\ pc[d] # "clear3" BY <1>1, <1>2, <1>19, LockHolderKnows
  <2>4. Current(d)' BY <1>0, <1>1, <1>19, <2>1, <2>2, <2>3, OthersCurrent
  <2> QED BY <2>3, <2>4
<1> QED BY <1>14, <1>15, <1>16, <1>17, <1>18, <1>19 DEF Quiet

LEMMA AgentWriteQuiet ==
    ASSUME Always, Quiet, NEW c \in Turn, AgentWrite(c), ~ raced'
    PROVE  Quiet'
<1> DEFINE new == [id |-> made + 1, last |-> draft[c].last]
           digest == draft[c].digest
<1>0. c \in Client BY DEF Client
<1>1. /\ PcsOK /\ WorkOK /\ DraftOK /\ StoreOK /\ Sound(c) /\ OnlyOwn(c)
      /\ Holds /\ Ordered /\ Files /\ Current(c) /\ Knows(c)
  BY <1>0, AgentWriteKeeps DEF Always, ClientsOK, Quiet, Keeps
<1>2. /\ text' = Append(text, digest) /\ mid' = <<new>>
      /\ midFiles' = midFiles \cup {made + 1}
      /\ ledger' = ledger /\ inputs' = inputs /\ long' = long /\ longFiles' = longFiles
      /\ aged' = aged /\ forgotten' = forgotten /\ torn' = torn /\ seen' = seen /\ work' = work
      /\ pc[c] = "agent2" /\ pc'[c] = "agent3" /\ draft'[c] = NoDraft
  BY <1>0, <1>1 DEF AgentWrite, NewSummary, history, Goto, PcsOK, DraftOK
<1>3. \A d \in Client \ {c} : pc[d] \notin Overwriting BY <1>0, Alone DEF AgentWrite
<1>4. /\ mid \in Seq(Entry) /\ long \in Seq(Entry) /\ work[c].old = mid
      /\ IdsOf(mid) \subseteq 1..made /\ IdsOf(long) \subseteq 1..made /\ aged \subseteq 1..made
  BY <1>1, <1>2 DEF StoreOK, Current
<1>5. /\ made \in Nat /\ 1..made \subseteq 1..(made + 1) /\ made + 1 \in 1..(made + 1)
      /\ made + 1 \notin 1..made
  BY <1>1, StoreFacts
<1>6. digest \in SUBSET (1..written) /\ draft[c].last \in Nat
  <2>1. draft[c] \in Draft BY <1>0, <1>1 DEF DraftOK
  <2> QED BY <2>1 DEF Draft
<1>7. /\ IdsOf(mid) = {e.id : e \in Of(mid)} /\ IdsOf(long) = {e.id : e \in Of(long)}
  BY <1>4, OfIsRange
<1>8. new \in Entry /\ new.id = made + 1 /\ new.last = draft[c].last BY <1>5, <1>6 DEF Entry
<1>9. DraftHolds(c) /\ KnowsAll(c) BY <1>1, <1>2 DEF Knows, Drafting, Loaded
<1>10. /\ made' = made + 1 /\ \A s \in 1..made : text'[s] = text[s]
       /\ text'[made + 1] = digest
  <2> HIDE DEF digest
  <2> QED BY <1>1, <1>2, <1>6, NewText
<1> HIDE DEF new, digest, made
<1>11. /\ mid' \in Seq(Entry) /\ Len(mid') = 1 /\ Of(mid') = {new} /\ mid' # <<>> /\ Last(mid') = new
  BY <1>2, <1>8, OfOne
<1>12. IdsOf(mid') = {made + 1}
  <2>1. IdsOf(mid') = {e.id : e \in Of(mid')} BY <1>11, OfIsRange
  <2> QED BY <1>8, <1>11, <2>1
<1>13. Kept' \subseteq Kept \cup {new} BY <1>2, <1>11 DEF Kept, Of
<1>14. Holds'
  <2>1. Covers(digest, new.last) /\ Forgets(digest) BY <1>8, <1>9 DEF DraftHolds, digest
  <2>2. \A e \in Kept : text'[e.id] = text[e.id]
    <3>1. \A e \in Kept : e.id \in 1..made BY <1>4, <1>7 DEF Kept
    <3> QED BY <1>10, <3>1
  <2> QED BY <1>1, <1>2, <1>8, <1>10, <1>13, <2>1, <2>2, HoldsWithNew
<1>15. Ordered'
  <2>1. Increasing(mid')
    <3>1. \A i, j \in 1..1 : ~ (i < j) OBVIOUS
    <3> QED BY <1>11, <3>1 DEF Increasing
  <2>2. AgedFirst'
    <3>1. ~ (new.id < new.id) BY <1>5, <1>8
    <3>2. \A e, f \in Of(mid') : e.id < f.id /\ f.id \in aged => e.id \in aged
      BY <1>11, <3>1
    <3> QED BY <1>2, <3>2 DEF AgedFirst, Of
  <2>3. \A n : n = new.last => Tops(n)'
    <3>1. Tops(new.last) BY <1>8, <1>9 DEF DraftHolds
    <3>2. new.last <= new.last BY <1>6, <1>8
    <3>3. \A e \in Kept' : e.last \in ledger => e.last <= new.last BY <1>13, <3>1, <3>2 DEF Tops
    <3> QED BY <1>2, <3>3 DEF Tops
  <2>4. Tops(Last(mid).last)' BY <1>11, <2>3 DEF Tops, Last
  <2> QED BY <2>1, <2>2, <2>4 DEF Ordered, Increasing
<1>16. Files'
  <2>1. IdsOf(mid)' = {made + 1} /\ IdsOf(long)' = IdsOf(long) BY <1>2, <1>12 DEF IdsOf
  <2> QED BY <1>1, <1>2, <2>1 DEF Files
<1>17. Current(c)'
  <2>1. IdsOf(work[c].old) \cap IdsOf(mid') = {} BY <1>4, <1>5, <1>12
  <2>2. (IdsOf(work[c].old) \cap IdsOf(mid) = {})' BY <1>2, <2>1 DEF IdsOf
  <2> QED BY <1>2, <2>2 DEF Current, Promoting
<1>18. Knows(c)'
  <2>1. ~ Drafting(c)' BY <1>2 DEF Drafting, LoadPcs, Promoting
  <2>2. KnowsAll(c)' BY <1>2, <1>9 DEF KnowsAll, Forgets
  <2> QED BY <2>1, <2>2 DEF Knows
<1>19. ASSUME NEW d \in Client, d # c PROVE Current(d)' /\ Knows(d)'
  <2>1. Current(d) /\ pc[d] \notin Overwriting BY <1>3, <1>19 DEF Quiet
  <2>2. IdsOf(mid') \subseteq IdsOf(mid) \cup {made + 1} /\ IdsOf(long') \subseteq IdsOf(long) \cup {made + 1}
    BY <1>2, <1>12
  <2>3. Knows(d)' /\ pc[d] # "clear3" BY <1>1, <1>2, <1>19, LockHolderKnows
  <2>4. Current(d)' BY <1>0, <1>1, <1>19, <2>1, <2>2, <2>3, OthersCurrent
  <2> QED BY <2>3, <2>4
<1> QED BY <1>14, <1>15, <1>16, <1>17, <1>18, <1>19 DEF Quiet

LEMMA AgentCleanQuiet ==
    ASSUME Always, Quiet, NEW c \in Turn, AgentClean(c)
    PROVE  Quiet'
<1>0. c \in Client BY DEF Client
<1>1. /\ PcsOK /\ WorkOK /\ DraftOK /\ StoreOK /\ Sound(c) /\ OnlyOwn(c)
      /\ Holds /\ Ordered /\ Files /\ Current(c) /\ Knows(c)
  BY <1>0, AgentCleanKeeps DEF Always, ClientsOK, Quiet, Keeps
<1>2. /\ text' = text /\ long' = long /\ mid' = mid
      /\ midFiles' = midFiles \ IdsOf(work[c].old) /\ longFiles' = longFiles
      /\ ledger' = ledger /\ inputs' = inputs
      /\ aged' = aged /\ forgotten' = forgotten
      /\ torn' = torn /\ seen' = seen /\ draft' = draft
      /\ pc[c] = "agent3" /\ pc'[c] = "ready"
  BY <1>0, <1>1 DEF AgentClean, history, Goto, PcsOK
<1>3. Kept' = Kept BY <1>2 DEF Kept, Of
<1>4. Holds' BY <1>1, <1>2, <1>3, HoldsFewer
<1>5. Ordered' BY <1>1, <1>2, <1>3 DEF Ordered, Increasing, AgedFirst, Tops, Of, Last
<1>6. Files' BY <1>1, <1>2 DEF Files, Current, IdsOf
<1>7. Current(c)' BY <1>2 DEF Current, Promoting
<1>8. Knows(c)'
  <2>1. Loaded(c) /\ ~ Drafting(c)' BY <1>2 DEF Loaded, Drafting, LoadPcs, Promoting
  <2>2. \A e \in Kept' : \E f \in Kept : f.last = e.last BY <1>3
  <2>3. seen'[c] = seen[c] /\ draft'[c] = draft[c] BY <1>2
  <2> QED BY <1>0, <1>1, <1>2, <2>1, <2>2, <2>3, OwnKnows
<1>9. ASSUME NEW d \in Client, d # c PROVE Current(d)' /\ Knows(d)'
  <2>1. Current(d) /\ Knows(d) BY DEF Quiet
  <2>2. \A e \in Kept' : \E f \in Kept : f.last = e.last BY <1>3
  <2> QED BY <1>0, <1>1, <1>2, <1>9, <2>1, <2>2, SameCurrent, OthersKnow
<1> QED BY <1>4, <1>5, <1>6, <1>7, <1>8, <1>9 DEF Quiet

\* A new message is covered by no summary.
LEMMA OneMore ==
    ASSUME StoreOK, Holds, ledger' = ledger \cup {written + 1}, inputs \subseteq inputs',
           forgotten' = forgotten, text' = text, mid' = mid, long' = long
    PROVE  /\ Holds' /\ Kept' = Kept /\ \A e \in Kept : e.last \in 1..written
           /\ \A S, n : (Forgets(S)' <=> Forgets(S)) /\ (Tops(n) => Tops(n)')
<1>1. Kept' = Kept BY DEF Kept, Of
<1>2. written \in Nat /\ \A e \in Kept : e.last \in 1..written
  <2>1. mid \in Seq(Entry) /\ long \in Seq(Entry) /\ written \in Nat
        /\ LastOf(mid) \cup LastOf(long) \subseteq 1..written
    BY DEF StoreOK
  <2>2. LastOf(mid) = {e.last : e \in Of(mid)} /\ LastOf(long) = {e.last : e \in Of(long)}
    BY <2>1, OfIsRange
  <2> QED BY <2>1, <2>2 DEF Kept
<1>3. \A e \in Kept : ~ (written + 1 <= e.last) /\ e.last # written + 1 BY <1>2
<1>4. \A e \in Kept : Covers(text[e.id], e.last)' /\ Forgets(text[e.id])'
  <2>1. TAKE e \in Kept
  <2>2. \A x \in ledger' : x <= e.last => x \in text[e.id] \cup inputs
    BY <1>3 DEF Holds, Covers
  <2> QED BY <2>2 DEF Holds, Covers, Forgets
<1>5. Holds' BY <1>1, <1>4 DEF Holds
<1>6. \A n : Tops(n) => Tops(n)'
  <2>1. \A e \in Kept : e.last \in ledger' => e.last \in ledger BY <1>3
  <2> QED BY <1>1, <2>1 DEF Tops
<1> QED BY <1>1, <1>2, <1>5, <1>6 DEF Forgets

LEMMA EndTurnQuiet ==
    ASSUME Always, Quiet, NEW c \in Turn, EndTurn(c)
    PROVE  Quiet'
<1>0. c \in Client BY DEF Client
<1>1. /\ PcsOK /\ WorkOK /\ StoreOK /\ OnlyOwn(c)
      /\ Holds /\ Ordered /\ Files /\ Current(c) /\ Knows(c)
  BY <1>0, EndTurnKeeps DEF Always, ClientsOK, Quiet, Keeps
<1>2. /\ text' = text /\ long' = long /\ mid' = mid
      /\ midFiles' = midFiles /\ longFiles' = longFiles
      /\ ledger' = ledger \cup {written + 1} /\ inputs \subseteq inputs'
      /\ aged' = aged /\ forgotten' = forgotten /\ torn' = torn
      /\ pc[c] \notin {"idle", "panicked"} /\ pc'[c] = "idle"
  BY <1>0, <1>1 DEF EndTurn, AppendMessage, history, Goto, PcsOK
<1>3. /\ Holds' /\ Kept' = Kept /\ \A n : Tops(n) => Tops(n)' BY <1>1, <1>2, OneMore
<1>4. Ordered'
  <2>1. \A n : mid # <<>> /\ n = Last(mid).last => Tops(n)' BY <1>1, <1>3 DEF Ordered
  <2>2. (mid # <<>> => Tops(Last(mid).last))' BY <1>2, <2>1 DEF Tops, Last
  <2> QED BY <1>1, <1>2, <2>2 DEF Ordered, Increasing, AgedFirst, Of
<1>5. Files' BY <1>1, <1>2 DEF Files, IdsOf
<1>6. Current(c)' BY <1>2 DEF Current, Promoting
<1>7. Knows(c)' BY <1>2 DEF Knows, Loaded, Drafting, LoadPcs, Promoting
<1>8. ASSUME NEW d \in Client, d # c PROVE Current(d)' /\ Knows(d)'
  <2>1. Current(d) BY DEF Quiet
  <2>2. Current(d)' BY <1>0, <1>1, <1>2, <1>8, <2>1, SameCurrent
  <2> QED BY <1>1, <1>2, <1>8, <2>2, LockHolderKnows
<1> QED BY <1>3, <1>4, <1>5, <1>6, <1>7, <1>8 DEF Quiet

LEMMA PreserveInputsQuiet ==
    ASSUME Always, Quiet, NEW c \in Saver, PreserveInputs(c)
    PROVE  Quiet'
<1>0. c \in Client /\ c \notin Turn BY ClientKinds DEF Client
<1>1. /\ PcsOK /\ WorkOK /\ StoreOK /\ OnlyOwn(c)
      /\ Holds /\ Ordered /\ Files /\ Current(c)
  BY <1>0, PreserveInputsKeeps DEF Always, ClientsOK, Quiet, Keeps
<1>2. /\ text' = text /\ long' = long /\ mid' = mid
      /\ midFiles' = midFiles /\ longFiles' = longFiles
      /\ ledger' = ledger \cup {written + 1} /\ inputs' = inputs \cup {written + 1}
      /\ aged' = aged /\ forgotten' = forgotten /\ torn' = torn /\ pc'[c] = "idle"
  BY <1>0, <1>1 DEF PreserveInputs, AppendMessage, history, Goto, PcsOK
<1>3. /\ Holds' /\ Kept' = Kept /\ \A S, n : (Forgets(S)' <=> Forgets(S)) /\ (Tops(n) => Tops(n)')
  BY <1>1, <1>2, OneMore
<1>4. Ordered'
  <2>1. \A n : mid # <<>> /\ n = Last(mid).last => Tops(n)' BY <1>1, <1>3 DEF Ordered
  <2>2. (mid # <<>> => Tops(Last(mid).last))' BY <1>2, <2>1 DEF Tops, Last
  <2> QED BY <1>1, <1>2, <2>2 DEF Ordered, Increasing, AgedFirst, Of
<1>5. Files' BY <1>1, <1>2 DEF Files, IdsOf
<1>6. Current(c)' BY <1>2 DEF Current, Promoting
<1>7. Knows(c)' BY <1>0 DEF Knows
<1>8. ASSUME NEW d \in Client, d # c PROVE Current(d)' /\ Knows(d)'
  <2>1. Current(d) /\ Knows(d) BY DEF Quiet
  <2>2. Current(d)' BY <1>0, <1>1, <1>2, <1>8, <2>1, SameCurrent
  <2>3. pc'[d] = pc[d] /\ seen'[d] = seen[d] /\ draft'[d] = draft[d] BY <1>1, <1>8 DEF OnlyOwn
  <2>4. (Loaded(d)' <=> Loaded(d)) /\ (Drafting(d)' <=> Drafting(d))
    BY <2>3 DEF Loaded, Drafting
  <2>5. KnowsAll(d) => KnowsAll(d)' BY <1>2, <1>3, <2>3 DEF KnowsAll
  <2>6. \A S, n : Covers(S, n) => Covers(S, n)' BY <1>2 DEF Covers
  <2>7. DraftHolds(d) => DraftHolds(d)' BY <1>3, <2>3, <2>6 DEF DraftHolds
  <2>8. Knows(d)' BY <2>1, <2>4, <2>5, <2>7 DEF Knows
  <2> QED BY <2>2, <2>8
<1> QED BY <1>3, <1>4, <1>5, <1>6, <1>7, <1>8 DEF Quiet

LEMMA ClearLedgerQuiet ==
    ASSUME Always, Quiet, NEW c \in Clearer, ClearLedger(c)
    PROVE  Quiet'
<1>0. c \in Client /\ c \notin Turn BY ClientKinds DEF Client
<1>1. /\ PcsOK /\ WorkOK /\ StoreOK /\ OnlyOwn(c)
      /\ Holds /\ Ordered /\ Files /\ Current(c)
  BY <1>0, ClearLedgerKeeps DEF Always, ClientsOK, Quiet, Keeps
<1>2. /\ text' = text /\ long' = long /\ mid' = mid
      /\ midFiles' = midFiles /\ longFiles' = longFiles /\ ledger' = {}
      /\ aged' = aged /\ forgotten' = forgotten
      /\ torn' = torn /\ pc[c] = "clear" /\ pc'[c] = "clear2"
  BY <1>0, <1>1 DEF ClearLedger, history, Goto, PcsOK
<1>3. Holds' BY <1>1, <1>2 DEF Holds, Covers, Forgets, Kept, Of
<1>4. Ordered'
  <2>1. \A n : Tops(n)' BY <1>2 DEF Tops
  <2>2. (mid # <<>> => Tops(Last(mid).last))' BY <1>2 DEF Tops
  <2> QED BY <1>1, <1>2, <2>2 DEF Ordered, Increasing, AgedFirst, Of
<1>5. Files' BY <1>1, <1>2 DEF Files, IdsOf
<1>6. Current(c)' BY <1>2 DEF Current, Promoting
<1>7. Knows(c)' BY <1>0 DEF Knows
<1>8. ASSUME NEW d \in Client, d # c PROVE Current(d)' /\ Knows(d)'
  <2>1. Current(d) BY DEF Quiet
  <2>2. Current(d)' BY <1>0, <1>1, <1>2, <1>8, <2>1, SameCurrent
  <2> QED BY <1>1, <1>2, <1>8, <2>2, LockHolderKnows
<1> QED BY <1>3, <1>4, <1>5, <1>6, <1>7, <1>8 DEF Quiet

LEMMA RemoveMidQuiet ==
    ASSUME Always, Quiet, NEW c \in Clearer, RemoveMid(c), ~ raced'
    PROVE  Quiet'
<1>0. c \in Client /\ c \notin Turn BY ClientKinds DEF Client
<1>1. /\ PcsOK /\ WorkOK /\ StoreOK /\ OnlyOwn(c)
      /\ Holds /\ Ordered /\ Files /\ Current(c)
  BY <1>0, RemoveMidKeeps DEF Always, ClientsOK, Quiet, Keeps
<1>2. /\ text' = text /\ long' = long /\ longFiles' = longFiles /\ ledger' = ledger
      /\ inputs' = inputs /\ aged' = aged /\ forgotten' = forgotten /\ pc' = pc /\ work' = work
      /\ pc[c] = "clear2"
  BY DEF RemoveMid
<1>3. \/ \E s \in midFiles : midFiles' = midFiles \ {s} /\ torn' = torn \cup {s} /\ mid' = mid
      \/ mid' = <<>> /\ midFiles' = midFiles /\ torn' = torn /\ Raced(c)
  BY DEF RemoveMid
<1>4. Of(<<>>) = {} /\ IdsOf(<<>>) = {} /\ Len(<<>>) = 0 BY OfNone, OfIsRange
<1>5. mid' = mid \/ mid' = <<>> BY <1>3
<1>6. Kept' \subseteq Kept BY <1>2, <1>4, <1>5 DEF Kept, Of
<1>7. Holds' BY <1>1, <1>2, <1>6, HoldsFewer
<1>8. Ordered'
  <2>1. CASE mid' = mid
    BY <1>1, <1>2, <2>1 DEF Ordered, Increasing, AgedFirst, Of, Last, Tops, Kept
  <2>2. CASE mid' = <<>> BY <1>4, <2>2 DEF Ordered, Increasing, AgedFirst, Of
  <2> QED BY <1>5, <2>1, <2>2
<1>9. Files'
  <2>1. CASE mid' = mid BY <1>1, <1>2, <1>3, <2>1 DEF Files, IdsOf
  <2>2. CASE mid' = <<>> BY <1>1, <1>2, <1>3, <1>4, <2>2 DEF Files, IdsOf
  <2> QED BY <1>5, <2>1, <2>2
<1>10. Current(c)' BY <1>1, <1>2 DEF Current, Promoting
<1>11. Knows(c)' BY <1>0 DEF Knows
<1>12. ASSUME NEW d \in Client, d # c PROVE Current(d)' /\ Knows(d)'
  <2>1. Current(d) BY DEF Quiet
  <2>2. ASSUME mid' = mid PROVE Current(d)' BY <1>0, <1>1, <1>2, <1>12, <2>1, <2>2, SameCurrent
  <2>3. ASSUME mid' # mid PROVE Current(d)'
    <3>1. pc[d] \notin Overwriting BY <1>0, <1>3, <1>12, <2>3, Alone
    <3>2. /\ IdsOf(mid') \subseteq IdsOf(mid) \cup {made + 1}
          /\ IdsOf(long') \subseteq IdsOf(long) \cup {made + 1}
      BY <1>2, <1>4, <1>5
    <3>3. pc[d] = "clear3" => mid' = <<>> BY <1>2, <1>5, <2>1 DEF Current
    <3> QED BY <1>0, <1>1, <1>12, <2>1, <3>1, <3>2, <3>3, OthersCurrent
  <2> QED BY <1>1, <1>2, <1>12, <2>2, <2>3, LockHolderKnows
<1> QED BY <1>7, <1>8, <1>9, <1>10, <1>11, <1>12 DEF Quiet

LEMMA RemoveLongQuiet ==
    ASSUME Always, Quiet, NEW c \in Clearer, RemoveLong(c), ~ raced'
    PROVE  Quiet'
<1>0. c \in Client /\ c \notin Turn BY ClientKinds DEF Client
<1>1. /\ PcsOK /\ WorkOK /\ StoreOK /\ OnlyOwn(c)
      /\ Holds /\ Ordered /\ Files /\ Current(c)
  BY <1>0, RemoveLongKeeps DEF Always, ClientsOK, Quiet, Keeps
<1>2. /\ text' = text /\ mid' = mid /\ midFiles' = midFiles /\ ledger' = ledger
      /\ inputs' = inputs /\ aged' = aged /\ forgotten' = forgotten /\ pc' = pc /\ work' = work
      /\ pc[c] = "clear3"
  BY DEF RemoveLong
<1>3. \/ \E s \in longFiles : longFiles' = longFiles \ {s} /\ torn' = torn \cup {s} /\ long' = long
      \/ long' = <<>> /\ longFiles' = longFiles /\ torn' = torn /\ Raced(c)
  BY DEF RemoveLong
<1>4. Of(<<>>) = {} /\ IdsOf(<<>>) = {} /\ Len(<<>>) = 0 BY OfNone, OfIsRange
<1>5. long' = long \/ long' = <<>> BY <1>3
<1>6. Kept' \subseteq Kept BY <1>2, <1>4, <1>5 DEF Kept, Of
<1>7. Holds' BY <1>1, <1>2, <1>6, HoldsFewer
<1>8. Ordered'
  <2>1. \A n : Tops(n) => Tops(n)' BY <1>2, <1>6, TopsStay
  <2> QED BY <1>1, <1>2, <2>1 DEF Ordered, Increasing, AgedFirst, Of, Last
<1>9. Files'
  <2>1. CASE long' = long BY <1>1, <1>2, <1>3, <2>1 DEF Files, IdsOf
  <2>2. CASE long' = <<>> BY <1>1, <1>2, <1>3, <1>4, <2>2 DEF Files, IdsOf
  <2> QED BY <1>5, <2>1, <2>2
<1>10. Current(c)' BY <1>1, <1>2 DEF Current, Promoting
<1>11. Knows(c)' BY <1>0 DEF Knows
<1>12. ASSUME NEW d \in Client, d # c PROVE Current(d)' /\ Knows(d)'
  <2>1. Current(d) BY DEF Quiet
  <2>2. ASSUME long' = long PROVE Current(d)' BY <1>0, <1>1, <1>2, <1>12, <2>1, <2>2, SameCurrent
  <2>3. ASSUME long' # long PROVE Current(d)'
    <3>1. pc[d] \notin Overwriting BY <1>0, <1>3, <1>12, <2>3, Alone
    <3>2. /\ IdsOf(mid') \subseteq IdsOf(mid) \cup {made + 1}
          /\ IdsOf(long') \subseteq IdsOf(long) \cup {made + 1}
      BY <1>2, <1>4, <1>5
    <3>3. pc[d] = "clear3" => mid' = <<>> BY <1>2, <1>5, <2>1 DEF Current
    <3> QED BY <1>0, <1>1, <1>12, <2>1, <3>1, <3>2, <3>3, OthersCurrent
  <2> QED BY <1>1, <1>2, <1>12, <2>2, <2>3, LockHolderKnows
<1> QED BY <1>7, <1>8, <1>9, <1>10, <1>11, <1>12 DEF Quiet

LEMMA ClearLongQuiet ==
    ASSUME Always, Quiet, NEW c \in Clearer, ClearLong(c)
    PROVE  Quiet'
<1>0. c \in Client /\ c \notin Turn BY ClientKinds DEF Client
<1>1. /\ PcsOK /\ WorkOK /\ StoreOK /\ OnlyOwn(c) /\ Ordered /\ Files /\ Current(c)
  BY <1>0, ClearLongKeeps DEF Always, ClientsOK, Quiet, Keeps
<1>2. /\ long' = long /\ long = <<>> /\ mid' = mid /\ mid = <<>> /\ aged' = aged
      /\ midFiles' = midFiles /\ longFiles' = longFiles /\ torn' = torn /\ ledger' = ledger
      /\ pc[c] = "clear3" /\ pc'[c] = "idle"
  BY <1>0, <1>1 DEF ClearLong, disk, Goto, PcsOK, Current
<1>3. /\ Of(mid') = {} /\ IdsOf(mid') = {} /\ Len(mid') = 0
      /\ Of(long') = {} /\ IdsOf(long') = {}
  BY <1>2, OfNone, OfIsRange
<1>4. Kept' = {} BY <1>3 DEF Kept, Of
<1>5. Holds' BY <1>4 DEF Holds
<1>6. Ordered' BY <1>2, <1>3 DEF Ordered, Increasing, AgedFirst, Of
<1>7. Files' BY <1>3 DEF Files, IdsOf
<1>8. Current(c)' BY <1>2 DEF Current, Promoting
<1>9. Knows(c)' BY <1>0 DEF Knows
<1>10. ASSUME NEW d \in Client, d # c PROVE Current(d)' /\ Knows(d)'
  <2>1. Current(d) BY DEF Quiet
  <2>2. Current(d)' BY <1>0, <1>1, <1>2, <1>10, <2>1, SameCurrent
  <2> QED BY <1>1, <1>2, <1>10, <2>2, LockHolderKnows
<1> QED BY <1>5, <1>6, <1>7, <1>8, <1>9, <1>10 DEF Quiet

\* The oldest summary ages: those before it have aged already.
LEMMA AgeQuiet == ASSUME Always, Quiet, Age PROVE Quiet'
<1>1. StoreOK /\ Holds /\ Ordered /\ Files BY DEF Always, Quiet
<1>2. /\ text' = text /\ long' = long /\ mid' = mid /\ midFiles' = midFiles /\ longFiles' = longFiles
      /\ ledger' = ledger /\ inputs' = inputs /\ forgotten' = forgotten /\ torn' = torn
      /\ pc' = pc /\ work' = work /\ seen' = seen /\ draft' = draft
  BY DEF Age, disk
<1>3. PICK s \in IdsOf(mid) \ aged : s = Oldest(IdsOf(mid) \ aged) /\ aged' = aged \cup {s}
  BY DEF Age
<1>4. Holds' BY <1>1, <1>2 DEF Holds, Kept, Of, Covers, Forgets
<1>5. Ordered'
  <2>1. mid \in Seq(Entry) /\ made \in Nat /\ IdsOf(mid) \subseteq 1..made
    BY <1>1, StoreFacts DEF StoreOK
  <2>2. IdsOf(mid) = {e.id : e \in Of(mid)} BY <2>1, OfIsRange
  <2> DEFINE young == IdsOf(mid) \ aged
  <2>3. \A k \in young : s <= k
    <3>1. young \in SUBSET Nat /\ young # {}
      <4> HIDE DEF made, IdsOf
      <4> QED BY <1>3, <2>1
    <3> HIDE DEF young
    <3>2. \A k \in young : Oldest(young) <= k BY <3>1, OldestOfSome
    <3> QED BY <1>3, <3>2 DEF young
  <2>4. \A e \in Of(mid) : e.id \in Nat /\ (e.id \notin aged => s <= e.id)
    <3> HIDE DEF made, IdsOf
    <3> QED BY <2>1, <2>2, <2>3
  <2>5. s \in Nat
    <3> HIDE DEF made, IdsOf
    <3> QED BY <1>3, <2>1
  <2>6. \A e, f \in Of(mid) : e.id < f.id /\ f.id \in aged \cup {s} => e.id \in aged \cup {s}
    <3>1. SUFFICES ASSUME NEW e \in Of(mid), NEW f \in Of(mid), e.id < f.id, f.id \in aged \cup {s}
                   PROVE  e.id \in aged \cup {s}
      OBVIOUS
    <3>2. CASE f.id \in aged BY <1>1, <3>1, <3>2 DEF Ordered, AgedFirst
    <3>3. CASE f.id = s
      <4>1. e.id < s /\ e.id \in Nat BY <2>4, <3>1, <3>3
      <4>2. ~ (s <= e.id) BY <2>5, <4>1
      <4> QED BY <2>4, <4>2
    <3> QED BY <3>1, <3>2, <3>3
  <2>7. AgedFirst'
    <3>1. aged' = aged \cup {s} /\ Of(mid') = Of(mid) BY <1>2, <1>3
    <3>2. \A e, f \in Of(mid') : e.id < f.id /\ f.id \in aged' => e.id \in aged'
      BY <2>6, <3>1
    <3> QED BY <3>2 DEF AgedFirst, Of
  <2> QED BY <1>1, <1>2, <2>7 DEF Ordered, Increasing, Tops, Kept, Of, Last
<1>6. Files' BY <1>1, <1>2 DEF Files, IdsOf
<1>7. \A c \in Client : Current(c)'
  <2>1. \A o, k : Divides(o, k)' <=> Divides(o, k) BY <1>2 DEF Divides
  <2> QED BY <1>2, <2>1 DEF Quiet, Current
<1>8. \A c \in Client : Knows(c)'
  BY <1>2 DEF Quiet, Knows, Loaded, Drafting, KnowsAll, DraftHolds, Forgets, Covers, Tops,
     Kept, Of
<1> QED BY <1>4, <1>5, <1>6, <1>7, <1>8 DEF Quiet

LEMMA RestQuiet == ASSUME Rest, Holds, Ordered, Files PROVE Quiet
<1>1. \A c \in Client : pc[c] = "idle" BY DEF Rest
<1>2. \A c \in Client : Current(c) BY <1>1 DEF Current, Promoting
<1>3. \A c \in Client : Knows(c) BY <1>1 DEF Knows, Loaded, Drafting, LoadPcs, Promoting
<1> QED BY <1>2, <1>3 DEF Quiet

LEMMA CrashQuiet == ASSUME Always, Quiet, Crash PROVE Quiet'
<1>1. /\ text' = text /\ long' = long /\ mid' = mid /\ midFiles' = midFiles /\ longFiles' = longFiles
      /\ ledger' = ledger /\ inputs' = inputs /\ forgotten' = forgotten
      /\ torn' = torn /\ aged' = aged
  BY DEF Crash, disk
<1>2. Holds' BY <1>1 DEF Quiet, Holds, Kept, Of, Covers, Forgets
<1>3. Ordered' BY <1>1 DEF Quiet, Ordered, AgedFirst, Tops, Kept, Of, Increasing, Last
<1>4. Files' BY <1>1 DEF Quiet, Files, IdsOf
<1>5. (Rest /\ Holds /\ Ordered /\ Files => Quiet)' BY RestQuiet, PTL
<1> QED BY <1>2, <1>3, <1>4, <1>5, CrashAlways

LEMMA InitQuiet == MemoryInit => Quiet
<1> SUFFICES ASSUME MemoryInit PROVE Quiet OBVIOUS
<1>1. mid = <<>> /\ long = <<>> /\ midFiles = {} /\ longFiles = {} BY DEF MemoryInit
<1>2. Of(mid) = {} /\ Of(long) = {} /\ IdsOf(mid) = {} /\ IdsOf(long) = {} /\ Len(mid) = 0
  BY <1>1, OfNone, OfIsRange
<1>3. Holds BY <1>2 DEF Holds, Kept
<1>4. Ordered BY <1>1, <1>2 DEF Ordered, Increasing, AgedFirst
<1>5. Files BY <1>2 DEF Files
<1> QED BY <1>3, <1>4, <1>5, InitAlways, RestQuiet

LEMMA StillStepQuiet == ASSUME Always, Quiet, NEW c \in Client, StillStep(c) PROVE Quiet'
<1>1. Current(c)' /\ Knows(c)'
  <2>1. CASE FetchLock(c) BY <2>1, FetchLockQuiet
  <2>2. CASE StartTurn(c) BY <2>2, StartTurnQuiet
  <2>3. CASE StartView(c) BY <2>3, StartViewQuiet
  <2>4. CASE PromoteReadMid(c) BY <2>4, PromoteReadMidQuiet
  <2>5. CASE PromoteReadLong(c) BY <2>5, PromoteReadLongQuiet
  <2>6. CASE PromoteCompress(c) BY <2>6, PromoteCompressQuiet
  <2>7. CASE LoadIndex(c) BY <2>7, LoadIndexQuiet
  <2>8. CASE LoadText(c) BY <2>8, LoadTextQuiet
  <2>9. CASE TurnDecides(c) BY <2>9, TurnDecidesQuiet
  <2>10. CASE Prepare(c) BY <2>10, PrepareQuiet
  <2>11. CASE Fold(c) BY <2>11, FoldQuiet
  <2>12. CASE Validate(c) BY <2>12, ValidateQuiet
  <2>13. CASE CommitCheck(c) BY <2>13, CommitCheckQuiet
  <2>14. CASE AgentRead(c) BY <2>14, AgentReadQuiet
  <2>15. CASE StartSave(c) BY <2>15, StartSaveQuiet
  <2>16. CASE StartClear(c) BY <2>16, StartClearQuiet
  <2>17. CASE ClearMid(c) BY <2>17, ClearMidQuiet
  <2>18. CASE ClearFails(c) BY <2>18, ClearFailsQuiet
  <2> QED BY <2>1, <2>2, <2>3, <2>4, <2>5, <2>6, <2>7, <2>8,
            <2>9, <2>10, <2>11, <2>12, <2>13, <2>14, <2>15, <2>16, <2>17, <2>18
         DEF StillStep
<1> QED BY <1>1, StillStepKeeps, StillQuiet

LEMMA WritingStepQuiet ==
    ASSUME Always, raced \/ Quiet, NEW c \in Client, WritingStep(c), ~ raced'
    PROVE  Quiet'
<1>1. Quiet
  <2>1. raced' = raced \/ Raced(c)
    BY DEF WritingStep, PromoteWriteLong, PromoteWriteMid, PromoteClean, CommitWrite,
       AgentWrite, AgentClean, EndTurn, PreserveInputs, ClearLedger, RemoveMid, RemoveLong,
       ClearLong
  <2> QED BY <2>1, Alone
<1> USE <1>1
<1>2. CASE PromoteWriteLong(c) BY <1>2, PromoteWriteLongQuiet
<1>3. CASE PromoteWriteMid(c) BY <1>3, PromoteWriteMidQuiet
<1>4. CASE PromoteClean(c) BY <1>4, PromoteCleanQuiet
<1>5. CASE CommitWrite(c)
  <2>1. c \in Turn BY <1>5 DEF CommitWrite
  <2> QED BY <1>5, <2>1, CommitWriteQuiet
<1>6. CASE AgentWrite(c)
  <2>1. c \in Turn BY <1>6 DEF AgentWrite
  <2> QED BY <1>6, <2>1, AgentWriteQuiet
<1>7. CASE AgentClean(c)
  <2>1. c \in Turn BY <1>7 DEF AgentClean
  <2> QED BY <1>7, <2>1, AgentCleanQuiet
<1>8. CASE EndTurn(c)
  <2>1. c \in Turn BY <1>8 DEF EndTurn
  <2> QED BY <1>8, <2>1, EndTurnQuiet
<1>9. CASE PreserveInputs(c)
  <2>1. c \in Saver BY <1>9 DEF PreserveInputs
  <2> QED BY <1>9, <2>1, PreserveInputsQuiet
<1>10. CASE ClearLedger(c)
  <2>1. c \in Clearer BY <1>10 DEF ClearLedger
  <2> QED BY <1>10, <2>1, ClearLedgerQuiet
<1>11. CASE RemoveMid(c)
  <2>1. c \in Clearer BY <1>11 DEF RemoveMid
  <2> QED BY <1>11, <2>1, RemoveMidQuiet
<1>12. CASE RemoveLong(c)
  <2>1. c \in Clearer BY <1>12 DEF RemoveLong
  <2> QED BY <1>12, <2>1, RemoveLongQuiet
<1>13. CASE ClearLong(c)
  <2>1. c \in Clearer BY <1>13 DEF ClearLong
  <2> QED BY <1>13, <2>1, ClearLongQuiet
<1> QED
  BY <1>2, <1>3, <1>4, <1>5, <1>6, <1>7, <1>8, <1>9, <1>10, <1>11, <1>12, <1>13
     DEF WritingStep

\* A step that does not race keeps what held as long as none had.
LEMMA QuietStep == Always /\ (raced \/ Quiet) /\ [MemoryNext]_memoryVars => (raced \/ Quiet)'
<1> SUFFICES ASSUME Always, raced \/ Quiet, [MemoryNext]_memoryVars, ~ raced' PROVE Quiet'
  OBVIOUS
<1>1. CASE UNCHANGED memoryVars
  <2>1. /\ text' = text /\ long' = long /\ mid' = mid /\ midFiles' = midFiles /\ longFiles' = longFiles
        /\ ledger' = ledger /\ inputs' = inputs /\ forgotten' = forgotten
        /\ torn' = torn /\ aged' = aged
        /\ pc' = pc /\ work' = work /\ seen' = seen /\ draft' = draft /\ raced' = raced
    BY <1>1 DEF memoryVars
  <2>2. Quiet BY <2>1
  <2>3. Holds' BY <2>1, <2>2 DEF Quiet, Holds, Kept, Of, Covers, Forgets
  <2>4. Ordered' BY <2>1, <2>2 DEF Quiet, Ordered, AgedFirst, Tops, Kept, Of, Increasing, Last
  <2>5. Files' BY <2>1, <2>2 DEF Quiet, Files, IdsOf
  <2>6. \A c \in Client : Current(c)'
    <3>1. \A o, k : Divides(o, k)' <=> Divides(o, k) BY <2>1 DEF Divides
    <3> QED BY <2>1, <2>2, <3>1 DEF Quiet, Current
  <2>7. \A c \in Client : Knows(c)'
    BY <2>1, <2>2 DEF Quiet, Knows, Loaded, Drafting, KnowsAll, DraftHolds, Forgets, Covers,
       Tops, Kept, Of
  <2> QED BY <2>3, <2>4, <2>5, <2>6, <2>7 DEF Quiet
<1>2. ASSUME NEW c \in Client, StillStep(c) PROVE Quiet'
  <2>1. raced' = raced BY <1>2, StillStepKeeps DEF Still
  <2> QED BY <1>2, <2>1, StillStepQuiet
<1>3. ASSUME NEW c \in Client, WritingStep(c) PROVE Quiet' BY <1>3, WritingStepQuiet
<1>4. CASE Age
  <2>1. raced' = raced BY <1>4 DEF Age
  <2> QED BY <1>4, <2>1, AgeQuiet
<1>5. CASE Crash
  <2>1. raced' = raced BY <1>5 DEF Crash
  <2> QED BY <1>5, <2>1, CrashQuiet
<1> QED BY <1>1, <1>2, <1>3, <1>4, <1>5, Steps

LEMMA AlwaysQuiet == MemorySpec => [](Always /\ (raced \/ Quiet))
<1>1. MemoryInit => Always /\ (raced \/ Quiet) BY InitAlways, InitQuiet
<1> QED BY <1>1, AlwaysStep, QuietStep, PTL DEF MemorySpec

\* What the model is not shown raw, it is shown digested, for any number of
\* turns, viewers, dropped queues, clears, messages, summaries and crashes, until
\* a promotion overlaps another writer of the indices.
THEOREM NothingHiddenAlways == MemorySpec => []NothingHidden
<1>1. Always /\ (raced \/ Quiet) => NothingHidden
  <2>1. raced => NothingHidden BY DEF NothingHidden
  <2> QED BY <2>1, QuietShows DEF Always
<1> QED BY <1>1, AlwaysQuiet, PTL

\* Under the same proviso the file of the latest summary is there, unless a clear
\* that is under way or was cut off has removed it, and no summary digests a
\* message of before a clear that has finished.
THEOREM SummariesHoldAlways == MemorySpec => []SummariesHold
<1>1. Always /\ (raced \/ Quiet) => SummariesHold
  <2>1. raced => SummariesHold
    BY DEF SummariesHold, LatestIsReadable, ForgottenStaysForgotten
  <2> QED BY <2>1, QuietShows DEF Always
<1> QED BY <1>1, AlwaysQuiet, PTL
=============================================================================
