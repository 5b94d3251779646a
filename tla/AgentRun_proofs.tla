-------------------------- MODULE AgentRun_proofs ---------------------------
(***************************************************************************)
(* A run of the agent, for any tools, steers and number of calls: what it   *)
(* asks the core with and what the turn saves are conversations in which    *)
(* every call has its result in its place.                                  *)
(***************************************************************************)
EXTENDS AgentRun, FiniteSetTheorems, SequenceTheorems, WellFoundedInduction, TLAPS

Call == Nat \X Tool
User == Steer \cup {Opening}

\* A batch is of finitely many calls, a result of one; only results are interrupted.
Name == Nat \X (Tool \cup User)
Record ==
    [kind : {"user", "calls", "result", "note", "text"}, of : SUBSET Name,
     what : {"none", "ok", "error", "interrupted"}]
WellFormed(x) ==
    /\ x.kind = "calls" => x.of \subseteq Call /\ IsFiniteSet(x.of)
    /\ x.kind = "result" => \E c \in Call : x.of = {c}
    /\ x.what = "interrupted" => x.kind = "result"
Message == {x \in Record : WellFormed(x)}

\* Results are in their places, no call is made twice, and none after batch n.
Apart(messages) ==
    \A i, j \in 1..Len(messages) :
        messages[i].kind = "calls" /\ messages[j].kind = "calls" /\ i # j =>
            messages[i].of \cap messages[j].of = {}
Numbered(messages, n) ==
    \A i \in 1..Len(messages) : messages[i].kind = "calls" => \A c \in messages[i].of : c[1] <= n
Tidy(messages, n) ==
    /\ messages \in Seq(Message)
    /\ InPlace(messages) /\ Apart(messages) /\ Numbered(messages, n)

\* The calls that a conversation ends with.
Open(messages) ==
    IF messages # <<>> /\ messages[Len(messages)].kind = "calls"
    THEN messages[Len(messages)].of ELSE {}
Honest(messages, C) ==
    \A i \in 1..Len(messages) : messages[i].what = "interrupted" => messages[i].of \cap C = {}
Has(messages, U) == \A u \in U : \E i \in 1..Len(messages) : messages[i] = Said(u)

\* The answers of a batch: results, of different calls.
Results(answers) ==
    /\ answers \in Seq(Message)
    /\ \A i \in 1..Len(answers) : answers[i].kind = "result"
Distinct(answers) ==
    \A i, j \in 1..Len(answers) : answers[i].of = answers[j].of => i = j

\* What the run may go on with: only the calls at its end have no result, and
\* no call of C is said to have been interrupted.
Sound(messages, n, C) ==
    Tidy(messages, n) /\ Unanswered(messages) \subseteq Open(messages) /\ Honest(messages, C)

Batch == {"approve", "ask", "execute", "settled", "refused"}
whole == IF phase = "chat" THEN loopInput.messages \o loopInput.results ELSE core
heard == injected \cup {Opening}

TypesOK ==
    /\ phase \in Phases /\ asked \in Nat /\ operations \in Nat
    /\ cancelled \in BOOLEAN /\ fresh \in BOOLEAN /\ stale \in BOOLEAN
    /\ queue \in Seq(Steer) /\ injected \subseteq Steer /\ ran \subseteq Call

\* The conversation in progress, and the tools that have run.
TalkInv ==
    /\ Sound(whole, asked, ran) /\ whole # <<>> /\ Has(whole, heard)
    /\ phase = "chat" => /\ Unanswered(whole) = {} /\ Results(loopInput.results)
                         /\ loopInput.messages \in Seq(Message)
    /\ phase \notin Batch => ran \subseteq Materialized(whole)

\* The checkpoint is of this conversation; a fresh one has its results and its users.
CheckpointInv ==
    /\ Sound(checkpoint, asked, ran) /\ Materialized(checkpoint) \subseteq Materialized(whole)
    /\ fresh /\ phase # "chat" =>
          /\ checkpoint # <<>> /\ Has(checkpoint, heard)
          /\ Materialized(checkpoint) = Materialized(whole)

\* What was reported last is a complete history, of the last steer.
EmittedInv ==
    /\ Sound(emitted, asked, ran) /\ Unanswered(emitted) = {}
    /\ Materialized(emitted) \subseteq Materialized(whole)
    /\ emitted = <<>> <=> injected = {}
    /\ emitted # <<>> => Has(emitted, heard)

\* The calls of a batch, up to the group that is served, and those of the group.
begun == CallsOf(IF group = "local" THEN LocalTool ELSE LocalTool \cup DynamicTool)
served == CallsOf(IF group = "local" THEN LocalTool ELSE DynamicTool)
Uninterrupted(answers) == \A i \in 1..Len(answers) : answers[i].what # "interrupted"
Different(calls) == \A i, j \in 1..Len(calls) : calls[i] = calls[j] => i = j

BatchInv ==
    phase \in Batch =>
        /\ core[Len(core)].kind = "calls" /\ group \in {"local", "dynamic"}
        /\ Results(outcomes) /\ Distinct(outcomes) /\ Uninterrupted(outcomes)
        /\ results \subseteq approved /\ approved \subseteq served
        /\ ran \subseteq Materialized(core) \cup Materialized(outcomes) \cup results
        /\ phase # "settled" => approved \cap Materialized(outcomes) = {}
        /\ phase \in {"approve", "ask"} =>
              /\ todo \in Seq(served) /\ Different(todo)
              /\ ToSet(todo) \cap (approved \cup Materialized(outcomes)) = {}
              /\ ToSet(todo) \cup approved \cup Materialized(outcomes) = begun
              /\ results = {} /\ (phase = "ask" => todo # <<>>)
        /\ phase \in {"execute", "refused"} => approved \cup Materialized(outcomes) = begun
        /\ phase = "settled" => Materialized(outcomes) = begun

GoingOn == ~stale /\ TalkInv /\ CheckpointInv /\ EmittedInv /\ BatchInv
RunInv ==
    /\ TypesOK
    /\ phase # "over" => GoingOn
    /\ SavedIsComplete /\ NoFalseInterruption /\ LeavesTrace /\ SaidIsSaved
-----------------------------------------------------------------------------
(* Induction, and sequences that are put together. *)

LEMMA FromZero ==
    ASSUME NEW P, 0 \in P, \A n \in Nat : n \in P => n + 1 \in P
    PROVE  \A n \in Nat : n \in P
<1> DEFINE T == {n \in Nat : n \notin P}
           Less == OpToRel(<, Nat)
<1>1. SUFFICES ASSUME T # {} PROVE FALSE
      OBVIOUS
<1>2. IsWellFoundedOn(Less, Nat)
      BY NatLessThanWellFounded, Zenon
<1>3. \A x, y \in Nat : y < x => <<y, x>> \in Less
      BY DEF OpToRel
<1> HIDE DEF Less
<1>4. T \in SUBSET Nat
      OBVIOUS
<1>5. PICK x \in T : \A y \in T : ~ (<<y, x>> \in Less)
  <2> HIDE DEF T
  <2>1. QED  BY <1>1, <1>2, <1>4, WFMin
<1>6. x \in Nat /\ x # 0
      OBVIOUS
<1>7. x - 1 \in Nat /\ (x - 1) + 1 = x /\ x - 1 < x
      BY <1>6
<1>8. x - 1 \notin T
      BY <1>3, <1>5, <1>6, <1>7
<1>9. QED  BY <1>5, <1>7, <1>8

LEMMA Joined ==
    ASSUME NEW S, NEW s \in Seq(S), NEW t \in Seq(S)
    PROVE  /\ s \o t \in Seq(S) /\ Len(s \o t) = Len(s) + Len(t)
           /\ Len(s) \in Nat /\ Len(t) \in Nat
           /\ \A i \in 1..Len(s) : (s \o t)[i] = s[i]
           /\ \A i \in 1..Len(t) : (s \o t)[Len(s) + i] = t[i]
           /\ \A k \in 1..Len(s \o t) : k \in 1..Len(s) \/ \E i \in 1..Len(t) : k = Len(s) + i
<1>1. /\ s \o t \in Seq(S) /\ Len(s \o t) = Len(s) + Len(t)
      /\ Len(s) \in Nat /\ Len(t) \in Nat
      OBVIOUS
<1>2. ASSUME NEW k \in 1..Len(s \o t)
      PROVE  k \in 1..Len(s) \/ \E i \in 1..Len(t) : k = Len(s) + i
  <2>1. CASE k <= Len(s)
        BY <1>1, <2>1
  <2>2. CASE k > Len(s)
    <3>1. k - Len(s) \in 1..Len(t) /\ k = Len(s) + (k - Len(s))
          BY <1>1, <2>2
    <3>2. QED  BY <3>1
  <2>3. QED  BY <1>1, <2>1, <2>2
<1>3. \A i \in 1..Len(s) : (s \o t)[i] = s[i]
      OBVIOUS
<1>4. \A i \in 1..Len(t) : (s \o t)[Len(s) + i] = t[i]
      OBVIOUS
<1>5. QED  BY <1>1, <1>2, <1>3, <1>4

LEMMA Longer ==
    ASSUME NEW S, NEW s \in Seq(S), NEW x \in S
    PROVE  /\ Append(s, x) \in Seq(S) /\ Len(Append(s, x)) = Len(s) + 1
           /\ Append(s, x) = s \o <<x>> /\ <<x>> \in Seq(S) /\ Len(s) \in Nat
           /\ \A i \in 1..Len(s) : Append(s, x)[i] = s[i]
           /\ Append(s, x)[Len(s) + 1] = x
OBVIOUS
-----------------------------------------------------------------------------
(* Messages, and what a conversation says of the calls. *)

LEMMA MessageFacts ==
    ASSUME NEW x \in Message
    PROVE  /\ x.kind = "calls" => x.of \subseteq Call /\ IsFiniteSet(x.of)
           /\ x.kind = "result" => \E c \in Call : x.of = {c}
           /\ x.what = "interrupted" => x.kind = "result"
BY DEF Message, WellFormed

LEMMA Made ==
    /\ \A u \in User : Said(u) \in Message /\ Said(u).kind = "user" /\ Said(u).what = "none"
    /\ \A C \in SUBSET Call : IsFiniteSet(C) =>
          Asks(C) \in Message /\ Asks(C).kind = "calls" /\ Asks(C).of = C /\ Asks(C).what = "none"
    /\ \A c \in Call, w \in {"ok", "error", "interrupted"} :
          /\ Answered(c, w) \in Message /\ Answered(c, w).kind = "result"
          /\ Answered(c, w).of = {c} /\ Answered(c, w).what = w
    /\ Speech \in Message /\ Speech.kind = "text" /\ Speech.what = "none"
<1>1. ASSUME NEW u \in User
      PROVE  Said(u) \in Message /\ Said(u).kind = "user" /\ Said(u).what = "none"
  <2>1. {<<0, u>>} \in SUBSET Name
        BY DEF Name
  <2>2. Said(u) \in Record /\ Said(u).kind = "user" /\ Said(u).what = "none"
        BY <2>1 DEF Said, Record
  <2>3. WellFormed(Said(u))
        BY <2>2 DEF WellFormed
  <2>4. QED  BY <2>2, <2>3 DEF Message
<1>2. ASSUME NEW C \in SUBSET Call, IsFiniteSet(C)
      PROVE  Asks(C) \in Message /\ Asks(C).kind = "calls" /\ Asks(C).of = C /\ Asks(C).what = "none"
  <2>1. C \in SUBSET Name
        BY DEF Call, Name
  <2>2. Asks(C) \in Record /\ Asks(C).kind = "calls" /\ Asks(C).of = C /\ Asks(C).what = "none"
        BY <2>1 DEF Asks, Record
  <2>3. WellFormed(Asks(C))
        BY <1>2, <2>2 DEF WellFormed
  <2>4. QED  BY <2>2, <2>3 DEF Message
<1>3. ASSUME NEW c \in Call, NEW w \in {"ok", "error", "interrupted"}
      PROVE  /\ Answered(c, w) \in Message /\ Answered(c, w).kind = "result"
             /\ Answered(c, w).of = {c} /\ Answered(c, w).what = w
  <2>1. {c} \in SUBSET Name
        BY DEF Call, Name
  <2>2. Answered(c, w) \in Record /\ Answered(c, w).kind = "result" /\ Answered(c, w).of = {c}
        /\ Answered(c, w).what = w
        BY <2>1 DEF Answered, Record
  <2>3. WellFormed(Answered(c, w))
        BY <2>2 DEF WellFormed
  <2>4. QED  BY <2>2, <2>3 DEF Message
<1>4. Speech \in Message /\ Speech.kind = "text" /\ Speech.what = "none"
  <2>2. Speech \in Record /\ Speech.kind = "text" /\ Speech.what = "none"
        BY DEF Speech, Record
  <2>3. WellFormed(Speech)
        BY <2>2 DEF WellFormed
  <2>4. QED  BY <2>2, <2>3 DEF Message
<1>5. QED  BY <1>1, <1>2, <1>3, <1>4, Zenon

LEMMA SeenIn ==
    ASSUME NEW m \in Seq(Message)
    PROVE  /\ \A c : c \in Materialized(m) <=>
                  \E i \in 1..Len(m) : m[i].kind = "result" /\ c \in m[i].of
           /\ \A c : c \in Called(m) <=>
                  \E i \in 1..Len(m) : m[i].kind = "calls" /\ c \in m[i].of
           /\ Len(m) \in Nat
           /\ \A i \in 1..Len(m) : m[i] \in Message
           /\ Materialized(m) \subseteq Call /\ Called(m) \subseteq Call
<1>1. DOMAIN m = 1..Len(m) /\ Len(m) \in Nat /\ \A i \in 1..Len(m) : m[i] \in Message
      OBVIOUS
<1>2. \A c : c \in Materialized(m) <=> \E i \in 1..Len(m) : m[i].kind = "result" /\ c \in m[i].of
      BY <1>1 DEF Materialized
<1>3. \A c : c \in Called(m) <=> \E i \in 1..Len(m) : m[i].kind = "calls" /\ c \in m[i].of
      BY <1>1 DEF Called
<1>4. Materialized(m) \subseteq Call /\ Called(m) \subseteq Call
      BY <1>1, <1>2, <1>3, MessageFacts
<1>5. QED  BY <1>1, <1>2, <1>3, <1>4

LEMMA SeenAt ==
    ASSUME NEW m \in Seq(Message), NEW i \in 1..Len(m), NEW c \in m[i].of
    PROVE  /\ m[i].kind = "result" => c \in Materialized(m)
           /\ m[i].kind = "calls" => c \in Called(m)
BY SeenIn

LEMMA SeenJoined ==
    ASSUME NEW m \in Seq(Message), NEW r \in Seq(Message)
    PROVE  /\ Materialized(m \o r) = Materialized(m) \cup Materialized(r)
           /\ Called(m \o r) = Called(m) \cup Called(r)
<1> DEFINE w == m \o r
<1>1. w \in Seq(Message) /\ Len(w) = Len(m) + Len(r)
      BY Joined
<1>2. /\ \A i \in 1..Len(m) : i \in 1..Len(w) /\ w[i] = m[i]
      /\ \A i \in 1..Len(r) : Len(m) + i \in 1..Len(w) /\ w[Len(m) + i] = r[i]
      /\ \A k \in 1..Len(w) : k \in 1..Len(m) \/ \E i \in 1..Len(r) : k = Len(m) + i
      BY Joined
<1> HIDE DEF w
<1>3. Materialized(w) = Materialized(m) \cup Materialized(r)
  <2>1. ASSUME NEW c \in Materialized(w)
        PROVE  c \in Materialized(m) \cup Materialized(r)
    <3>1. PICK k \in 1..Len(w) : w[k].kind = "result" /\ c \in w[k].of
          BY <1>1, SeenIn
    <3>2. CASE k \in 1..Len(m)
      <4>1. w[k] = m[k]
            BY <1>2, <3>2
      <4>2. QED  BY <3>1, <3>2, <4>1, SeenIn
    <3>3. ASSUME NEW i \in 1..Len(r), k = Len(m) + i PROVE c \in Materialized(r)
      <4>1. w[k] = r[i]
            BY <1>2, <3>3
      <4>2. QED  BY <3>1, <4>1, SeenIn
    <3>4. QED  BY <1>2, <3>2, <3>3
  <2>2. ASSUME NEW c \in Materialized(m)
        PROVE  c \in Materialized(w)
    <3>1. PICK i \in 1..Len(m) : m[i].kind = "result" /\ c \in m[i].of
          BY SeenIn
    <3>2. PICK k \in 1..Len(w) : w[k] = m[i]
          BY <1>2
    <3>3. QED  BY <1>1, <3>1, <3>2, SeenAt
  <2>3. ASSUME NEW c \in Materialized(r)
        PROVE  c \in Materialized(w)
    <3>1. PICK i \in 1..Len(r) : r[i].kind = "result" /\ c \in r[i].of
          BY SeenIn
    <3>2. PICK k \in 1..Len(w) : w[k] = r[i]
          BY <1>2
    <3>3. QED  BY <1>1, <3>1, <3>2, SeenAt
  <2>4. QED  BY <2>1, <2>2, <2>3
<1>4. Called(w) = Called(m) \cup Called(r)
  <2>1. ASSUME NEW c \in Called(w)
        PROVE  c \in Called(m) \cup Called(r)
    <3>1. PICK k \in 1..Len(w) : w[k].kind = "calls" /\ c \in w[k].of
          BY <1>1, SeenIn
    <3>2. CASE k \in 1..Len(m)
      <4>1. w[k] = m[k]
            BY <1>2, <3>2
      <4>2. QED  BY <3>1, <3>2, <4>1, SeenIn
    <3>3. ASSUME NEW i \in 1..Len(r), k = Len(m) + i PROVE c \in Called(r)
      <4>1. w[k] = r[i]
            BY <1>2, <3>3
      <4>2. QED  BY <3>1, <4>1, SeenIn
    <3>4. QED  BY <1>2, <3>2, <3>3
  <2>2. ASSUME NEW c \in Called(m)
        PROVE  c \in Called(w)
    <3>1. PICK i \in 1..Len(m) : m[i].kind = "calls" /\ c \in m[i].of
          BY SeenIn
    <3>2. PICK k \in 1..Len(w) : w[k] = m[i]
          BY <1>2
    <3>3. QED  BY <1>1, <3>1, <3>2, SeenAt
  <2>3. ASSUME NEW c \in Called(r)
        PROVE  c \in Called(w)
    <3>1. PICK i \in 1..Len(r) : r[i].kind = "calls" /\ c \in r[i].of
          BY SeenIn
    <3>2. PICK k \in 1..Len(w) : w[k] = r[i]
          BY <1>2
    <3>3. QED  BY <1>1, <3>1, <3>2, SeenAt
  <2>4. QED  BY <2>1, <2>2, <2>3
<1>5. QED  BY <1>3, <1>4 DEF w

LEMMA HonestJoined ==
    ASSUME NEW m \in Seq(Message), NEW r \in Seq(Message), NEW C, Honest(m, C), Honest(r, C)
    PROVE  Honest(m \o r, C)
<1>1. SUFFICES ASSUME NEW k \in 1..Len(m \o r), (m \o r)[k].what = "interrupted"
               PROVE  (m \o r)[k].of \cap C = {}
      BY DEF Honest
<1>2. CASE k \in 1..Len(m)
      BY <1>1, <1>2, Joined DEF Honest
<1>3. ASSUME NEW i \in 1..Len(r), k = Len(m) + i PROVE (m \o r)[k].of \cap C = {}
  <2>1. (m \o r)[k] = r[i]
        BY <1>3, Joined
  <2>2. QED  BY <1>1, <2>1 DEF Honest
<1>4. QED  BY <1>2, <1>3, Joined

LEMMA HasJoined ==
    ASSUME NEW m \in Seq(Message), NEW r \in Seq(Message), NEW U, Has(m, U)
    PROVE  Has(m \o r, U)
<1>1. SUFFICES ASSUME NEW u \in U
               PROVE  \E k \in 1..Len(m \o r) : (m \o r)[k] = Said(u)
      BY DEF Has
<1>2. PICK i \in 1..Len(m) : m[i] = Said(u)
      BY DEF Has
<1>3. i \in 1..Len(m \o r) /\ (m \o r)[i] = m[i]
      BY Joined
<1>4. QED  BY <1>2, <1>3
-----------------------------------------------------------------------------
(* The helpers. *)

LEMMA SetToSeqFacts ==
    ASSUME NEW S, IsFiniteSet(S)
    PROVE  /\ SetToSeq(S) \in Seq(S) /\ Len(SetToSeq(S)) \in Nat
           /\ \A i, j \in 1..Len(SetToSeq(S)) : SetToSeq(S)[i] = SetToSeq(S)[j] => i = j
           /\ \A x \in S : \E i \in 1..Len(SetToSeq(S)) : SetToSeq(S)[i] = x
           /\ S = {} => SetToSeq(S) = <<>>
<1> DEFINE n == Cardinality(S)
           s == SetToSeq(S)
<1>1. n \in Nat /\ ExistsBijection(1..n, S)
      BY FS_CardinalityType
<1>2. \E f \in [1..n -> S] : IsInjective(f)
  <2>1. PICK f : f \in Bijection(1..n, S)
        BY <1>1 DEF ExistsBijection
  <2>2. QED  BY <2>1 DEF Bijection, Injection
<1>3. s \in [1..n -> S] /\ IsInjective(s)
      BY <1>2 DEF SetToSeq
<1>4. Cardinality(1..n) = n /\ IsFiniteSet(1..n)
  <2>1. 1 \in Int /\ n \in Int /\ (n >= 1 \/ n = 0)
        BY <1>1
  <2>2. Cardinality(1..n) = (IF 1 > n THEN 0 ELSE n - 1 + 1) /\ IsFiniteSet(1..n)
        BY <2>1, FS_Interval, Zenon
  <2>3. QED  BY <1>1, <2>1, <2>2
<1>5. s \in Surjection(1..n, S)
  <2>1. s \in Injection(1..n, S)
        BY <1>3 DEF Injection
  <2> HIDE DEF s
  <2>2. QED  BY <2>1, <1>4, FS_Injection
<1> HIDE DEF n, s
<1>6. s \in Seq(S) /\ Len(s) = n
      BY <1>1, <1>3
<1>7. \A i, j \in 1..n : s[i] = s[j] => i = j
      BY <1>3 DEF IsInjective
<1>8. \A x \in S : \E i \in 1..n : s[i] = x
      BY <1>5 DEF Surjection
<1>9. S = {} => s = <<>>
  <2>1. S = {} => n = 0
        BY FS_EmptySet DEF n
  <2>2. QED  BY <1>6, <2>1
<1>10. QED  BY <1>1, <1>6, <1>7, <1>8, <1>9 DEF s

LEMMA AnswersFacts ==
    ASSUME NEW C \in SUBSET Call, IsFiniteSet(C), NEW w \in {"ok", "error", "interrupted"}
    PROVE  /\ Results(Answers(C, w)) /\ Distinct(Answers(C, w))
           /\ \A i \in 1..Len(Answers(C, w)) :
                  \E c \in C : Answers(C, w)[i] = Answered(c, w) /\ Answers(C, w)[i].of = {c}
           /\ \A i \in 1..Len(Answers(C, w)) : Answers(C, w)[i].what = w
           /\ Materialized(Answers(C, w)) = C /\ Called(Answers(C, w)) = {}
           /\ C = {} => Answers(C, w) = <<>>
<1> DEFINE s == SetToSeq(C)
           a == Answers(C, w)
<1>1. /\ s \in Seq(C) /\ Len(s) \in Nat
      /\ \A i, j \in 1..Len(s) : s[i] = s[j] => i = j
      /\ \A c \in C : \E i \in 1..Len(s) : s[i] = c
      /\ C = {} => s = <<>>
      BY SetToSeqFacts
<1>2. a = [i \in DOMAIN s |-> Answered(s[i], w)] 
      BY DEF Answers
<1> HIDE DEF s
<1>3. DOMAIN s = 1..Len(s) /\ \A i \in 1..Len(s) : s[i] \in C
      BY <1>1
<1>4. \A i \in 1..Len(s) : a[i] = Answered(s[i], w) /\ a[i] \in Message /\ a[i].kind = "result"
                           /\ a[i].of = {s[i]} /\ a[i].what = w
  <2>1. SUFFICES ASSUME NEW i \in 1..Len(s)
                 PROVE  a[i] = Answered(s[i], w) /\ a[i] \in Message /\ a[i].kind = "result"
                           /\ a[i].of = {s[i]} /\ a[i].what = w
        OBVIOUS
  <2>2. a[i] = Answered(s[i], w)
        BY <1>2, <1>3
  <2>3. s[i] \in Call
        BY <1>3
  <2>4. QED  BY <2>2, <2>3, Made
<1> HIDE DEF a
<1>5. a \in Seq(Message) /\ Len(a) = Len(s)
  <2>1. a = [i \in 1..Len(s) |-> a[i]]
        BY <1>2, <1>3
  <2>2. QED  BY <1>1, <1>4, <2>1
<1>6. \A i, j \in 1..Len(a) : a[i].of = a[j].of => i = j
  <2>1. SUFFICES ASSUME NEW i \in 1..Len(a), NEW j \in 1..Len(a), a[i].of = a[j].of PROVE i = j
        OBVIOUS
  <2>2. {s[i]} = {s[j]}
        BY <1>4, <1>5, <2>1
  <2>3. s[i] = s[j]
        BY <2>2
  <2>4. QED  BY <1>1, <1>5, <2>3
<1>7. Materialized(a) = C
  <2>1. ASSUME NEW c \in Materialized(a) PROVE c \in C
    <3>1. PICK i \in 1..Len(a) : c \in a[i].of
          BY <1>5, SeenIn
    <3>2. QED  BY <1>3, <1>4, <1>5, <3>1
  <2>2. ASSUME NEW c \in C PROVE c \in Materialized(a)
    <3>1. PICK i \in 1..Len(s) : s[i] = c
          BY <1>1
    <3>2. a[i].kind = "result" /\ c \in a[i].of
          BY <1>4, <3>1
    <3>3. QED  BY <1>5, <3>2, SeenIn
  <2>3. QED  BY <2>1, <2>2
<1>8. Called(a) = {}
  <2>1. SUFFICES ASSUME NEW c \in Called(a) PROVE FALSE
        OBVIOUS
  <2>2. PICK i \in 1..Len(a) : a[i].kind = "calls"
        BY <1>5, SeenIn
  <2>3. QED  BY <1>4, <1>5, <2>2
<1>9. C = {} => a = <<>>
  <2>1. C = {} => Len(a) = 0
        BY <1>1, <1>5
  <2>2. QED  BY <1>5, <2>1
<1>10. \A i \in 1..Len(a) : \E c \in C : a[i] = Answered(c, w) /\ a[i].of = {c}
      BY <1>3, <1>4, <1>5
<1>11. Results(a) /\ \A i \in 1..Len(a) : a[i].what = w
      BY <1>4, <1>5 DEF Results
<1>12. Distinct(a)
      BY <1>6 DEF Distinct
<1>13. QED  BY <1>7, <1>8, <1>9, <1>10, <1>11, <1>12 DEF a

LEMMA PrefixFacts ==
    ASSUME NEW S, NEW s \in Seq(S)
    PROVE  /\ \A n \in 0..Len(s) : /\ SubSeq(s, 1, n) \in Seq(S) /\ Len(SubSeq(s, 1, n)) = n
                                   /\ \A i \in 1..n : SubSeq(s, 1, n)[i] = s[i]
           /\ SubSeq(s, 1, 0) = <<>> /\ SubSeq(s, 1, Len(s)) = s
           /\ \A n \in 1..Len(s) : Append(SubSeq(s, 1, n - 1), s[n]) = SubSeq(s, 1, n)
<1>1. Len(s) \in Nat
      OBVIOUS
<1>2. ASSUME NEW n \in 0..Len(s)
      PROVE  /\ SubSeq(s, 1, n) \in Seq(S) /\ Len(SubSeq(s, 1, n)) = n
             /\ \A i \in 1..n : SubSeq(s, 1, n)[i] = s[i]
      BY <1>1
<1>3. SubSeq(s, 1, 0) = <<>> /\ SubSeq(s, 1, Len(s)) = s
  <2>1. 0 \in 0..Len(s) /\ Len(s) \in 0..Len(s)
        BY <1>1
  <2>2. SubSeq(s, 1, 0) = <<>>
        BY <1>2, <2>1
  <2>3. SubSeq(s, 1, Len(s)) = s
        BY <1>1, <1>2, <2>1
  <2>4. QED  BY <2>2, <2>3
<1>4. ASSUME NEW n \in 1..Len(s)
      PROVE  Append(SubSeq(s, 1, n - 1), s[n]) = SubSeq(s, 1, n)
  <2>1. n - 1 \in 0..Len(s) /\ n \in 0..Len(s) /\ (n - 1) + 1 = n /\ n \in Nat /\ s[n] \in S
        BY <1>1
  <2> DEFINE p == SubSeq(s, 1, n - 1)
             q == SubSeq(s, 1, n)
             a == Append(p, s[n])
  <2>2. p \in Seq(S) /\ Len(p) = n - 1 /\ \A i \in 1..(n - 1) : p[i] = s[i]
        BY <1>2, <2>1
  <2>3. q \in Seq(S) /\ Len(q) = n /\ \A i \in 1..n : q[i] = s[i]
        BY <1>2, <2>1
  <2> HIDE DEF p, q
  <2>4. a \in Seq(S) /\ Len(a) = n /\ \A i \in 1..n : a[i] = s[i]
        BY <2>1, <2>2
  <2> HIDE DEF a
  <2>5. a = q
        BY <2>1, <2>3, <2>4
  <2>6. QED  BY <2>5 DEF a, p, q
<1>5. QED  BY <1>2, <1>3, <1>4

Upto(m, a, n) == m \o SubSeq(a, 1, n)

LEMMA JoinedPrefixes ==
    ASSUME NEW S, NEW m \in Seq(S), NEW a \in Seq(S)
    PROVE  /\ Upto(m, a, 0) = m /\ Upto(m, a, Len(a)) = m \o a
           /\ \A n \in 1..Len(a) : Append(Upto(m, a, n - 1), a[n]) = Upto(m, a, n)
<1>1. m \o SubSeq(a, 1, 0) = m /\ m \o SubSeq(a, 1, Len(a)) = m \o a
  <2>1. SubSeq(a, 1, 0) = <<>> /\ SubSeq(a, 1, Len(a)) = a
        BY PrefixFacts
  <2>2. m \o <<>> = m
        OBVIOUS
  <2>3. QED  BY <2>1, <2>2
<1>2. ASSUME NEW n \in 1..Len(a)
      PROVE  Append(m \o SubSeq(a, 1, n - 1), a[n]) = m \o SubSeq(a, 1, n)
  <2> DEFINE p == SubSeq(a, 1, n - 1)
             x == a[n]
  <2>1. x \in S /\ n - 1 \in 0..Len(a)
        OBVIOUS
  <2>2. p \in Seq(S) /\ Append(p, x) = SubSeq(a, 1, n)
        BY <2>1, PrefixFacts
  <2> HIDE DEF p, x
  <2>3. <<x>> \in Seq(S) /\ m \o p \in Seq(S)
        BY <2>1, <2>2
  <2>4. Append(m \o p, x) = (m \o p) \o <<x>>
        BY <2>1, <2>3, AppendIsConcat
  <2>5. Append(p, x) = p \o <<x>>
        BY <2>1, <2>2, AppendIsConcat
  <2>6. (m \o p) \o <<x>> = m \o (p \o <<x>>)
        BY <2>2, <2>3, SMTT(30)
  <2>7. Append(m \o p, x) = m \o SubSeq(a, 1, n)
        BY <2>2, <2>4, <2>5, <2>6, Zenon
  <2>8. QED  BY <2>7, Zenon DEF p, x
<1>3. QED  BY <1>1, <1>2 DEF Upto

\* Results of calls that have none yet are all appended.
LEMMA FirstAnswer ==
    ASSUME NEW m \in Seq(Message), NEW a \in Seq(Message), Results(a), Distinct(a),
           Materialized(a) \cap Materialized(m) = {}, NEW n \in 1..Len(a)
    PROVE  ~ (a[n].of \subseteq Materialized(Upto(m, a, n - 1)))
<1> DEFINE p == SubSeq(a, 1, n - 1)
<1>1. /\ n - 1 \in 0..Len(a) /\ \A i \in 1..(n - 1) : i \in 1..Len(a) /\ i # n
      /\ a[n] \in Message
      OBVIOUS
<1>2. p \in Seq(Message) /\ Len(p) = n - 1 /\ \A i \in 1..(n - 1) : p[i] = a[i]
      BY <1>1, PrefixFacts
<1> HIDE DEF p
<1>3. Materialized(m \o p) = Materialized(m) \cup Materialized(p)
      BY <1>2, SeenJoined
<1>4. PICK c \in Call : a[n].of = {c}
      BY <1>1, MessageFacts DEF Results
<1>5. c \in Materialized(a)
      BY <1>4, SeenIn DEF Results
<1>6. c \notin Materialized(p)
  <2>1. SUFFICES ASSUME c \in Materialized(p) PROVE FALSE
        OBVIOUS
  <2>2. PICK i \in 1..(n - 1) : p[i].kind = "result" /\ c \in p[i].of
        BY <1>2, <2>1, SeenIn
  <2>3. a[i].kind = "result" /\ c \in a[i].of /\ a[i] \in Message /\ i \in 1..Len(a) /\ i # n
        BY <1>1, <1>2, <2>2
  <2>4. a[i].of = {c}
        BY <2>3, MessageFacts
  <2>5. QED  BY <1>4, <2>3, <2>4 DEF Distinct
<1>7. QED  BY <1>3, <1>4, <1>5, <1>6 DEF p, Upto

LEMMA AppendResultsFresh ==
    ASSUME NEW m \in Seq(Message), NEW a \in Seq(Message), Results(a), Distinct(a),
           Materialized(a) \cap Materialized(m) = {}
    PROVE  AppendResults(m, a) = m \o a
<1> DEFINE Step(f, n) == IF n = 0 THEN m
                         ELSE IF a[n].of \subseteq Materialized(f[n - 1]) THEN f[n - 1]
                         ELSE Append(f[n - 1], a[n])
           Is(f) == f = [n \in 0..Len(a) |-> Step(f, n)]
           f0 == CHOOSE f : Is(f)
           h == [n \in 0..Len(a) |-> Upto(m, a, n)]
<1>1. AppendResults(m, a) = f0[Len(a)]
      BY DEF AppendResults
<1>2. Len(a) \in Nat
      OBVIOUS
<1>3. ASSUME NEW n \in 1..Len(a)
      PROVE  /\ ~ (a[n].of \subseteq Materialized(Upto(m, a, n - 1)))
             /\ Append(Upto(m, a, n - 1), a[n]) = Upto(m, a, n)
  <2>1. ~ (a[n].of \subseteq Materialized(Upto(m, a, n - 1)))
        BY FirstAnswer
  <2>2. Append(Upto(m, a, n - 1), a[n]) = Upto(m, a, n)
        BY JoinedPrefixes
  <2>3. QED  BY <2>1, <2>2
<1>4. Upto(m, a, 0) = m /\ Upto(m, a, Len(a)) = m \o a
      BY JoinedPrefixes
<1>5. Is(h)
  <2>1. \A n \in 0..Len(a) : h[n] = Upto(m, a, n)
        OBVIOUS
  <2>2. ASSUME NEW n \in 0..Len(a)
        PROVE  Upto(m, a, n) = Step(h, n)
    <3>1. CASE n = 0
          BY <1>4, <3>1
    <3>2. CASE n # 0
      <4>1. n \in 1..Len(a) /\ n - 1 \in 0..Len(a)
            BY <1>2, <3>2
      <4>2. h[n - 1] = Upto(m, a, n - 1)
            BY <2>1, <4>1
      <4> HIDE DEF h
      <4>3. QED  BY <1>3, <3>2, <4>1, <4>2
    <3>3. QED  BY <3>1, <3>2
  <2> HIDE DEF Step
  <2>3. h = [n \in 0..Len(a) |-> Step(h, n)]
        BY <2>2
  <2>4. QED  BY <2>3
<1>6. Is(f0)
  <2> HIDE DEF Is, h
  <2>1. QED  BY <1>5, Zenon
<1> HIDE DEF f0, h
<1>7. \A n \in 0..Len(a) : f0[n] = Step(f0, n)
  <2> HIDE DEF Step
  <2>1. QED  BY <1>6
<1> DEFINE P == {n \in Nat : n <= Len(a) => f0[n] = Upto(m, a, n)}
<1>8. 0 \in P
  <2>1. f0[0] = m
        BY <1>2, <1>7
  <2>2. QED  BY <1>4, <2>1
<1>9. \A n \in Nat : n \in P => n + 1 \in P
  <2>1. SUFFICES ASSUME NEW n \in Nat, n \in P, n + 1 <= Len(a)
                 PROVE  f0[n + 1] = Upto(m, a, n + 1)
        OBVIOUS
  <2>6. f0[n] = Upto(m, a, n)
        BY <1>2, <2>1
  <2>2. n + 1 \in 1..Len(a) /\ n + 1 \in 0..Len(a) /\ n + 1 # 0 /\ (n + 1) - 1 = n
        BY <1>2, <2>1
  <2>3. f0[n + 1] = Step(f0, n + 1)
        BY <1>7, <2>2
  <2>4. /\ ~ (a[n + 1].of \subseteq Materialized(Upto(m, a, n)))
        /\ Append(Upto(m, a, n), a[n + 1]) = Upto(m, a, n + 1)
        BY <1>3, <2>2
  <2>5. QED  BY <2>2, <2>3, <2>4, <2>6
<1>10. f0[Len(a)] = Upto(m, a, Len(a))
  <2> HIDE DEF P
  <2>1. Len(a) \in P
        BY <1>2, <1>8, <1>9, FromZero
  <2>2. QED  BY <1>2, <2>1 DEF P
<1>11. QED  BY <1>1, <1>4, <1>10
-----------------------------------------------------------------------------
(* Tidy conversations. *)

LEMMA ResultHasCall ==
    ASSUME NEW m, NEW n \in Nat, Tidy(m, n), NEW j \in 1..Len(m), m[j].kind = "result",
           NEW c \in m[j].of
    PROVE  \E i \in 1..j - 1 : /\ m[i].kind = "calls" /\ c \in m[i].of /\ i \in 1..Len(m)
                               /\ \A k \in i + 1..j : m[k].kind = "result"
<1>1. m \in Seq(Message) /\ DOMAIN m = 1..Len(m) /\ Len(m) \in Nat
      BY DEF Tidy
<1>2. InPlace(m)
      BY DEF Tidy
<1>3. PICK i \in 1..j-1 : /\ m[i].kind = "calls" /\ m[j].of \subseteq m[i].of
                          /\ \A k \in i + 1..j : m[k].kind = "result"
      BY <1>1, <1>2 DEF InPlace
<1>4. i \in 1..Len(m)
      BY <1>1
<1>5. QED  BY <1>3, <1>4

\* The calls that the conversation ends with have no result yet.
LEMMA OpenUnanswered ==
    ASSUME NEW m, NEW n \in Nat, Tidy(m, n)
    PROVE  Open(m) \cap Materialized(m) = {} /\ Open(m) \subseteq Called(m)
<1>1. m \in Seq(Message) /\ Len(m) \in Nat /\ Apart(m)
      BY DEF Tidy
<1>2. SUFFICES ASSUME NEW c \in Open(m)
               PROVE  c \notin Materialized(m) /\ c \in Called(m)
      OBVIOUS
<1> DEFINE l == Len(m)
<1>3. l \in 1..l /\ m[l].kind = "calls" /\ c \in m[l].of
      BY <1>1, <1>2 DEF Open
<1>4. c \in Called(m)
      BY <1>1, <1>3, SeenIn
<1>5. ASSUME c \in Materialized(m) PROVE FALSE
  <2>1. PICK j \in 1..l : m[j].kind = "result" /\ c \in m[j].of
        BY <1>1, <1>5, SeenIn
  <2>2. PICK i \in 1..j - 1 : m[i].kind = "calls" /\ c \in m[i].of /\ i \in 1..l
        BY <2>1, ResultHasCall
  <2>3. i # l
        BY <1>1
  <2>4. QED  BY <1>1, <1>3, <2>2, <2>3 DEF Apart
<1>6. QED  BY <1>4, <1>5

LEMMA PendingIn ==
    ASSUME NEW m \in Seq(Message), NEW i \in 1..Len(m)
    PROVE  \A c : c \in Pending(m, i) <=>
               /\ \E j \in 1..i : /\ m[j].kind = "calls" /\ c \in m[j].of
                                  /\ \A k \in j + 1..i : m[k].kind = "result"
               /\ c \notin Materialized(SubSeq(m, 1, i))
<1> DEFINE Latest(j) == m[j].kind = "calls" /\ \A k \in j + 1..i : m[k].kind = "result"
           open == {j \in 1..i : Latest(j)}
           asks == UNION {m[j].of : j \in open}
           done == Materialized(SubSeq(m, 1, i))
<1>1. Pending(m, i) = asks \ done
      BY DEF Pending
<1>2. \A c : c \in asks <=> \E j \in 1..i : Latest(j) /\ c \in m[j].of
  <2> HIDE DEF Latest
  <2>1. QED  OBVIOUS
<1> HIDE DEF open, asks, done
<1>3. \A c : c \in Pending(m, i) <=> /\ \E j \in 1..i : Latest(j) /\ c \in m[j].of
                                   /\ c \notin done
  <2> HIDE DEF Latest
  <2>1. QED  BY <1>1, <1>2
<1>4. QED  BY <1>3, Zenon DEF done

LEMMA PendingFacts ==
    ASSUME NEW m, NEW n \in Nat, Tidy(m, n), Unanswered(m) \subseteq Open(m)
    PROVE  /\ \A i \in 1..Len(m) : i # Len(m) /\ m[i + 1].kind # "result" => Pending(m, i) = {}
           /\ m # <<>> => Pending(m, Len(m)) = Unanswered(m)
<1>1. m \in Seq(Message) /\ Len(m) \in Nat /\ Apart(m)
      BY DEF Tidy
<1>2. ASSUME NEW i \in 1..Len(m), i # Len(m), m[i + 1].kind # "result", NEW c \in Pending(m, i)
      PROVE  FALSE
  <2>1. PICK j \in 1..i : /\ m[j].kind = "calls" /\ c \in m[j].of
                          /\ \A k \in j + 1..i : m[k].kind = "result"
        BY <1>1, PendingIn
  <2>2. c \notin Materialized(SubSeq(m, 1, i))
        BY <1>1, PendingIn
  <2>3. j \in 1..Len(m) /\ c \in Called(m)
    <3>1. j \in 1..Len(m)
          BY <1>1
    <3>2. QED  BY <1>1, <2>1, <3>1, SeenIn
  <2>4. CASE c \in Unanswered(m)
    <3>1. Len(m) \in 1..Len(m) /\ m[Len(m)].kind = "calls" /\ c \in m[Len(m)].of
          BY <1>1, <2>4 DEF Open
    <3>2. j # Len(m)
          BY <1>1, <1>2
    <3>3. QED  BY <1>1, <2>1, <2>3, <3>1, <3>2 DEF Apart
  <2>5. CASE c \notin Unanswered(m)
    <3>1. c \in Materialized(m)
          BY <2>3, <2>5 DEF Unanswered
    <3>2. PICK k \in 1..Len(m) : m[k].kind = "result" /\ c \in m[k].of
          BY <1>1, <3>1, SeenIn
    <3>3. k > i
      <4>1. SUFFICES ASSUME k <= i PROVE FALSE
            BY <1>1
      <4> DEFINE p == SubSeq(m, 1, i)
      <4>2. i \in 0..Len(m) /\ k \in 1..i
            BY <1>1, <4>1
      <4>3. p \in Seq(Message) /\ Len(p) = i /\ p[k] = m[k]
            BY <1>1, <4>2, PrefixFacts
      <4> HIDE DEF p
      <4>4. c \in Materialized(p)
            BY <3>2, <4>2, <4>3, SeenIn
      <4>5. QED  BY <2>2, <4>4 DEF p
    <3>4. PICK j0 \in 1..k - 1 : /\ m[j0].kind = "calls" /\ c \in m[j0].of /\ j0 \in 1..Len(m)
                                 /\ \A l \in j0 + 1..k : m[l].kind = "result"
          BY <3>2, ResultHasCall, SMTT(30)
    <3>5. j0 = j
          BY <1>1, <2>1, <2>3, <3>4 DEF Apart
    <3>6. i + 1 \in j0 + 1..k
          BY <1>1, <3>3, <3>5
    <3>7. QED  BY <1>2, <3>4, <3>6
  <2>6. QED  BY <2>4, <2>5
<1>3. ASSUME m # <<>> PROVE Pending(m, Len(m)) = Unanswered(m)
  <2> DEFINE l == Len(m)
  <2>1. l \in 1..l /\ SubSeq(m, 1, l) = m
        BY <1>1, <1>3, PrefixFacts
  <2>2. ASSUME NEW c \in Pending(m, l) PROVE c \in Unanswered(m)
    <3>1. PICK j \in 1..l : m[j].kind = "calls" /\ c \in m[j].of
          BY <1>1, <2>1, PendingIn
    <3>2. c \notin Materialized(m)
          BY <1>1, <2>1, PendingIn
    <3>3. c \in Called(m)
          BY <1>1, <3>1, SeenIn
    <3>4. QED  BY <3>2, <3>3 DEF Unanswered
  <2>3. ASSUME NEW c \in Unanswered(m) PROVE c \in Pending(m, l)
    <3>1. m[l].kind = "calls" /\ c \in m[l].of
          BY <2>3 DEF Open
    <3>2. c \notin Materialized(SubSeq(m, 1, l))
          BY <2>1, <2>3 DEF Unanswered
    <3>3. \A k \in l + 1..l : FALSE
          BY <1>1
    <3>4. QED  BY <1>1, <2>1, <3>1, <3>2, <3>3, PendingIn
  <2>4. QED  BY <2>2, <2>3
<1>4. QED  BY <1>2, <1>3

\* What is repaired is the end of the conversation.
LEMMA RepairedFacts ==
    ASSUME NEW m, NEW n \in Nat, Tidy(m, n), Unanswered(m) \subseteq Open(m)
    PROVE  Repaired(m) = m \o Answers(Unanswered(m), "interrupted")
<1> DEFINE More(i) == IF i = Len(m) \/ m[i + 1].kind # "result"
                      THEN Answers(Pending(m, i), "interrupted") ELSE <<>>
           Step(f, i) == IF i = 0 THEN <<>> ELSE Append(f[i - 1], m[i]) \o More(i)
           Is(f) == f = [i \in 0..Len(m) |-> Step(f, i)]
           f0 == CHOOSE f : Is(f)
           all == m \o Answers(Unanswered(m), "interrupted")
           h == [i \in 0..Len(m) |-> IF i = Len(m) THEN all ELSE SubSeq(m, 1, i)]
<1>1. Repaired(m) = f0[Len(m)]
      BY DEF Repaired
<1>2. m \in Seq(Message) /\ Len(m) \in Nat
      BY DEF Tidy
<1>3. Answers({}, "interrupted") = <<>>
  <2>1. {} \in SUBSET Call /\ IsFiniteSet({})
        BY FS_EmptySet
  <2>2. QED  BY <2>1, AnswersFacts
<1>4. /\ \A i \in 1..Len(m) : i # Len(m) => More(i) = <<>>
      /\ m # <<>> => More(Len(m)) = Answers(Unanswered(m), "interrupted")
      BY <1>3, PendingFacts
<1>5. /\ \A i \in 1..Len(m) : Append(SubSeq(m, 1, i - 1), m[i]) = SubSeq(m, 1, i)
      /\ SubSeq(m, 1, Len(m)) = m /\ SubSeq(m, 1, 0) = <<>>
      /\ \A i \in 0..Len(m) : SubSeq(m, 1, i) \in Seq(Message)
      BY <1>2, PrefixFacts
<1>6. m = <<>> => all = <<>>
  <2>1. ASSUME m = <<>> PROVE Called(m) = {}
    <3>1. \A i \in 1..Len(m) : FALSE
          BY <1>2, <2>1
    <3>2. QED  BY <1>2, <3>1, SeenIn
  <2>2. m = <<>> => Unanswered(m) = {}
        BY <2>1 DEF Unanswered
  <2>3. <<>> \o <<>> = <<>>
        OBVIOUS
  <2>4. ASSUME m = <<>> PROVE all = <<>>
        BY <1>3, <2>2, <2>3, <2>4, Zenon
  <2>5. QED  BY <2>4
<1> HIDE DEF More, all
<1>7. m # <<>> => all = m \o More(Len(m))
      BY <1>4 DEF all
<1>8. h[0] = <<>> /\ \A i \in 0..Len(m) : h[i] = IF i = Len(m) THEN all ELSE SubSeq(m, 1, i)
  <2>1. \A i \in 0..Len(m) : h[i] = IF i = Len(m) THEN all ELSE SubSeq(m, 1, i)
        OBVIOUS
  <2>2. 0 \in 0..Len(m) /\ (Len(m) = 0 => m = <<>>)
        BY <1>2
  <2> HIDE DEF h
  <2>3. h[0] = <<>>
    <3>1. CASE Len(m) = 0
          BY <1>6, <2>1, <2>2, <3>1
    <3>2. CASE Len(m) # 0
      <4>1. h[0] = SubSeq(m, 1, 0)
            BY <2>1, <2>2, <3>2
      <4>2. QED  BY <1>5, <4>1, Zenon
    <3>3. QED  BY <3>1, <3>2
  <2>4. QED  BY <2>1, <2>3
<1>9. Is(h)
  <2>1. ASSUME NEW i \in 0..Len(m)
        PROVE  h[i] = Step(h, i)
    <3> HIDE DEF h
    <3>1. CASE i = 0
          BY <1>8, <3>1
    <3>2. CASE i # 0
      <4>1. i \in 1..Len(m) /\ i - 1 \in 0..Len(m) /\ i - 1 # Len(m)
            BY <1>2, <3>2
      <4>2. h[i - 1] = SubSeq(m, 1, i - 1)
            BY <1>8, <4>1
      <4>3. Append(h[i - 1], m[i]) = SubSeq(m, 1, i)
            BY <1>5, <4>1, <4>2
      <4>4. Step(h, i) = SubSeq(m, 1, i) \o More(i)
            BY <3>2, <4>3, Zenon
      <4> HIDE DEF Step
      <4>7. CASE i = Len(m)
        <5>1. m # <<>>
              BY <1>2, <3>2, <4>7
        <5>2. Step(h, i) = m \o More(Len(m))
              BY <1>5, <4>4, <4>7, Zenon
        <5>3. QED  BY <1>7, <1>8, <4>7, <5>1, <5>2
      <4>5. CASE i # Len(m)
        <5>1. SubSeq(m, 1, i) \in Seq(Message)
              BY <1>5
        <5>2. SubSeq(m, 1, i) \o <<>> = SubSeq(m, 1, i)
              BY <5>1, ConcatEmptySeq
        <5>3. More(i) = <<>>
              BY <1>4, <4>1, <4>5
        <5>4. h[i] = SubSeq(m, 1, i)
              BY <1>8, <4>5
        <5>5. QED  BY <4>4, <5>2, <5>3, <5>4, Zenon
      <4>6. QED  BY <4>5, <4>7
    <3>3. QED  BY <3>1, <3>2
  <2>2. h = [i \in 0..Len(m) |-> h[i]]
        OBVIOUS
  <2> HIDE DEF h, Step
  <2>3. QED  BY <2>1, <2>2
<1>10. Is(f0)
  <2> HIDE DEF Is, h
  <2>1. QED  BY <1>9, Zenon
<1> HIDE DEF f0, h
<1>11. \A i \in 0..Len(m) : f0[i] = Step(f0, i)
  <2> HIDE DEF Step
  <2>1. QED  BY <1>10
<1>12. \A i \in 0..Len(m) : h[i] = Step(h, i)
  <2> HIDE DEF Step
  <2>1. QED  BY <1>9
<1> DEFINE P == {i \in Nat : i <= Len(m) => f0[i] = h[i]}
<1>13. 0 \in P
  <2>1. f0[0] = <<>>
        BY <1>2, <1>11
  <2>2. QED  BY <1>8, <2>1
<1>14. \A i \in Nat : i \in P => i + 1 \in P
  <2>1. SUFFICES ASSUME NEW i \in Nat, i \in P, i + 1 <= Len(m)
                 PROVE  f0[i + 1] = h[i + 1]
        OBVIOUS
  <2>2. i + 1 \in 0..Len(m) /\ i + 1 # 0 /\ (i + 1) - 1 = i
        BY <1>2, <2>1
  <2>3. f0[i] = h[i]
        BY <1>2, <2>1
  <2>4. f0[i + 1] = Append(f0[i], m[i + 1]) \o More(i + 1)
        BY <1>11, <2>2
  <2>5. h[i + 1] = Append(h[i], m[i + 1]) \o More(i + 1)
        BY <1>12, <2>2
  <2>6. QED  BY <2>3, <2>4, <2>5
<1>15. f0[Len(m)] = h[Len(m)]
  <2> HIDE DEF P
  <2>1. Len(m) \in P
        BY <1>2, <1>13, <1>14, FromZero
  <2>2. QED  BY <1>2, <2>1 DEF P
<1>16. h[Len(m)] = all
      BY <1>2, <1>8
<1>17. QED  BY <1>1, <1>15, <1>16 DEF all

\* What a conversation says does not change when more is said.
Placed(w, j) ==
    /\ \E i \in 1..j-1 : /\ w[i].kind = "calls" /\ w[j].of \subseteq w[i].of
                         /\ \A k \in i+1..j : w[k].kind = "result"
    /\ \A k \in 1..j-1 : w[k].kind = "result" => w[k].of # w[j].of
NewCalls(m, r, n) ==
    \A i \in 1..Len(r) : r[i].kind = "calls" =>
        /\ \A c \in r[i].of : c[1] <= n /\ c \notin Called(m)
        /\ \A j \in 1..Len(r) : r[j].kind = "calls" => i = j

LEMMA TidyJoined ==
    ASSUME NEW m, NEW n \in Nat, Tidy(m, n), NEW r \in Seq(Message), NEW n2 \in Nat, n <= n2,
           NewCalls(m, r, n2)
    PROVE  /\ m \o r \in Seq(Message) /\ Apart(m \o r) /\ Numbered(m \o r, n2)
           /\ \A j \in 1..Len(m) : (m \o r)[j].kind = "result" => Placed(m \o r, j)
<1> DEFINE w == m \o r
<1>1. m \in Seq(Message) /\ Len(m) \in Nat /\ Len(r) \in Nat /\ DOMAIN m = 1..Len(m)
      BY DEF Tidy
<1>2. /\ w \in Seq(Message)
      /\ \A i \in 1..Len(m) : w[i] = m[i]
      /\ \A i \in 1..Len(r) : w[Len(m) + i] = r[i]
      /\ \A k \in 1..Len(w) : k \in 1..Len(m) \/ \E i \in 1..Len(r) : k = Len(m) + i
      BY <1>1, Joined
<1> HIDE DEF w
<1>3. Apart(w)
  <2>1. SUFFICES ASSUME NEW i \in 1..Len(w), NEW j \in 1..Len(w), w[i].kind = "calls",
                        w[j].kind = "calls", i # j, NEW c \in w[i].of, c \in w[j].of
                 PROVE  FALSE
        BY DEF Apart
  <2>2. CASE i \in 1..Len(m) /\ j \in 1..Len(m)
        BY <1>2, <2>1, <2>2 DEF Tidy, Apart
  <2>3. ASSUME NEW a \in 1..Len(m), NEW b \in 1..Len(r), w[a].kind = "calls", c \in w[a].of,
               w[Len(m) + b].kind = "calls", c \in w[Len(m) + b].of
        PROVE  FALSE
    <3>0. w[a] = m[a] /\ m \in Seq(Message)
          BY <1>1, <1>2
    <3>1. c \in Called(m)
          BY <2>3, <3>0, SeenAt
    <3>2. QED  BY <1>2, <2>3, <3>1 DEF NewCalls
  <2>4. ASSUME NEW a \in 1..Len(r), NEW b \in 1..Len(r), i = Len(m) + a, j = Len(m) + b
        PROVE  FALSE
    <3>1. r[a].kind = "calls" /\ r[b].kind = "calls"
          BY <1>2, <2>1, <2>4
    <3>2. a = b
          BY <3>1 DEF NewCalls
    <3>3. QED  BY <2>1, <2>4, <3>2
  <2>5. CASE i \in 1..Len(m)
        BY <1>2, <2>1, <2>2, <2>3, <2>5
  <2>6. CASE j \in 1..Len(m)
        BY <1>2, <2>1, <2>2, <2>3, <2>6
  <2>7. QED  BY <1>2, <2>4, <2>5, <2>6
<1>4. Numbered(w, n2)
  <2>1. SUFFICES ASSUME NEW i \in 1..Len(w), w[i].kind = "calls", NEW c \in w[i].of
                 PROVE  c[1] <= n2
        BY DEF Numbered
  <2>2. CASE i \in 1..Len(m)
    <3>1. m[i].kind = "calls" /\ c \in m[i].of /\ m[i] \in Message
          BY <1>1, <1>2, <2>1, <2>2
    <3>2. c[1] <= n
          BY <2>2, <3>1 DEF Tidy, Numbered
    <3>3. c[1] \in Nat
          BY <3>1, MessageFacts DEF Call
    <3>4. QED  BY <3>2, <3>3
  <2>3. ASSUME NEW b \in 1..Len(r), i = Len(m) + b PROVE c[1] <= n2
    <3>1. r[b].kind = "calls" /\ c \in r[b].of
          BY <1>2, <2>1, <2>3
    <3>2. QED  BY <3>1 DEF NewCalls
  <2>4. QED  BY <1>2, <2>2, <2>3
<1>5. ASSUME NEW j \in 1..Len(m), w[j].kind = "result"
      PROVE  Placed(w, j)
  <2>1. m[j].kind = "result" /\ j \in DOMAIN m /\ w[j] = m[j]
        BY <1>1, <1>2, <1>5
  <2>2. InPlace(m)
        BY DEF Tidy
  <2>3. PICK i \in 1..j-1 : /\ m[i].kind = "calls" /\ m[j].of \subseteq m[i].of
                            /\ \A k \in i+1..j : m[k].kind = "result"
        BY <2>1, <2>2 DEF InPlace
  <2>4. \A k \in 1..j-1 : m[k].kind = "result" => m[k].of # m[j].of
        BY <2>1, <2>2 DEF InPlace
  <2>5. \A k \in 1..j : w[k] = m[k]
        BY <1>1, <1>2
  <2>6. \A k \in 1..j-1 : w[k].kind = "result" => w[k].of # w[j].of
    <3>1. \A k \in 1..j-1 : w[k] = m[k]
          BY <1>1, <2>1, <2>5
    <3>2. w[j] = m[j]
          BY <1>1, <2>1, <2>5
    <3>3. QED  BY <2>4, <3>1, <3>2
  <2>7. /\ w[i].kind = "calls" /\ w[j].of \subseteq w[i].of
        /\ \A k \in i+1..j : w[k].kind = "result"
    <3>1. w[i] = m[i]
          BY <2>5
    <3>2. \A k \in i+1..j : w[k] = m[k]
          BY <2>5
    <3>3. QED  BY <2>1, <2>3, <3>1, <3>2
  <2>8. QED  BY <2>6, <2>7 DEF Placed
<1>6. QED  BY <1>2, <1>3, <1>4, <1>5 DEF w

LEMMA TidySaid ==
    ASSUME NEW m, NEW n \in Nat, Tidy(m, n), NEW x \in Message, NEW n2 \in Nat, n <= n2,
           x.kind # "result",
           x.kind = "calls" => \A c \in x.of : c[1] <= n2 /\ n < c[1]
    PROVE  Tidy(Append(m, x), n2)
<1> DEFINE r == <<x>>
           w == m \o r
<1>1. m \in Seq(Message) /\ Len(m) \in Nat /\ r \in Seq(Message) /\ Len(r) = 1 /\ r[1] = x
      BY DEF Tidy
<1>2. Append(m, x) = w /\ w \in Seq(Message) /\ Len(w) = Len(m) + 1 /\ w[Len(m) + 1] = x
      BY <1>1, Longer
<1>3. ASSUME x.kind = "calls", NEW c \in x.of PROVE c \notin Called(m)
  <2>1. SUFFICES ASSUME c \in Called(m) PROVE FALSE
        OBVIOUS
  <2>2. PICK i \in 1..Len(m) : m[i].kind = "calls" /\ c \in m[i].of
        BY <1>1, <2>1, SeenIn
  <2>3. c[1] <= n
        BY <2>2 DEF Tidy, Numbered
  <2>4. c[1] \in Nat
        BY <1>3, MessageFacts DEF Call
  <2>5. QED  BY <1>3, <2>3, <2>4
<1>4. NewCalls(m, r, n2)
  <2>1. \A i \in 1..Len(r) : i = 1
        BY <1>1
  <2>2. QED  BY <1>1, <1>3, <2>1 DEF NewCalls
<1> HIDE DEF r
<1>5. /\ Apart(w) /\ Numbered(w, n2)
      /\ \A j \in 1..Len(m) : w[j].kind = "result" => Placed(w, j)
      BY <1>1, <1>4, TidyJoined
<1> HIDE DEF w
<1>6. InPlace(w)
  <2>1. DOMAIN w = 1..(Len(m) + 1)
        BY <1>1, <1>2
  <2>2. \A j \in DOMAIN w : w[j].kind = "result" => j \in 1..Len(m)
        BY <1>1, <1>2, <2>1
  <2>3. QED  BY <1>5, <2>2 DEF InPlace, Placed
<1>7. QED  BY <1>2, <1>5, <1>6 DEF Tidy

\* The results of the calls that a conversation ends with are put in their place.
LEMMA TidyAnswered ==
    ASSUME NEW m, NEW n \in Nat, Tidy(m, n), NEW r, Results(r), Distinct(r),
           Materialized(r) \subseteq Open(m)
    PROVE  Tidy(m \o r, n)
<1> DEFINE w == m \o r
           l == Len(m)
<1>1. m \in Seq(Message) /\ l \in Nat /\ r \in Seq(Message) /\ Len(r) \in Nat
      BY DEF Tidy, Results
<1>2. /\ w \in Seq(Message) /\ DOMAIN w = 1..Len(w)
      /\ \A i \in 1..l : w[i] = m[i]
      /\ \A i \in 1..Len(r) : w[l + i] = r[i]
      /\ \A k \in 1..Len(w) : k \in 1..l \/ \E i \in 1..Len(r) : k = l + i
  <2>1. w \in Seq(Message)
        BY <1>1, Joined
  <2>2. DOMAIN w = 1..Len(w)
        BY <2>1
  <2>3. QED  BY <1>1, <2>1, <2>2, Joined
<1>3. \A i \in 1..Len(r) : r[i].kind = "result"
      BY DEF Results
<1>4. /\ Apart(w) /\ Numbered(w, n)
      /\ \A j \in 1..l : w[j].kind = "result" => Placed(w, j)
  <2>1. NewCalls(m, r, n)
        BY <1>3 DEF NewCalls
  <2>2. QED  BY <1>1, <2>1, TidyJoined
<1> HIDE DEF w
<1>5. ASSUME NEW b \in 1..Len(r)
      PROVE  Placed(w, l + b)
  <2>1. PICK c \in Call : r[b].of = {c}
        BY <1>1, <1>3, MessageFacts
  <2>2. c \in Open(m)
    <3>1. c \in Materialized(r)
          BY <1>1, <1>3, <2>1, SeenIn
    <3>2. QED  BY <3>1
  <2>3. l \in 1..l /\ m[l].kind = "calls" /\ c \in m[l].of
        BY <1>1, <2>2 DEF Open
  <2>4. l \in 1..(l + b)-1 /\ \A k \in l+1..(l + b) : k - l \in 1..Len(r) /\ k = l + (k - l)
        BY <1>1, <2>3
  <2>5. w[l].kind = "calls" /\ w[l + b].of \subseteq w[l].of
        BY <1>2, <2>1, <2>3
  <2>6. \A k \in l+1..(l + b) : w[k].kind = "result"
    <3>1. SUFFICES ASSUME NEW k \in l+1..(l + b) PROVE w[k].kind = "result"
          OBVIOUS
    <3>2. k - l \in 1..Len(r) /\ k = l + (k - l)
          BY <2>4
    <3>3. w[l + (k - l)] = r[k - l]
          BY <1>2, <3>2
    <3>4. QED  BY <1>3, <3>2, <3>3
  <2>7. ASSUME NEW k \in 1..(l + b)-1, w[k].kind = "result", w[k].of = w[l + b].of
        PROVE  FALSE
    <3>1. CASE k \in 1..l
      <4>0. w[k] = m[k] /\ c \in w[k].of
            BY <1>2, <2>1, <2>7, <3>1
      <4>1. c \in Materialized(m)
            BY <1>1, <2>7, <3>1, <4>0, SeenAt
      <4>2. QED  BY <2>2, <4>1, OpenUnanswered
    <3>2. CASE k \notin 1..l
      <4>1. k - l \in 1..Len(r) /\ k = l + (k - l) /\ k - l # b
            BY <1>1, <3>2
      <4>2. w[l + (k - l)] = r[k - l]
            BY <1>2, <4>1
      <4>3. w[l + b] = r[b]
            BY <1>2
      <4>4. r[k - l].of = r[b].of
            BY <2>7, <4>1, <4>2, <4>3
      <4>5. QED  BY <4>1, <4>4 DEF Distinct
    <3>3. QED  BY <3>1, <3>2
  <2>8. QED  BY <2>4, <2>5, <2>6, <2>7 DEF Placed
<1>6. InPlace(w)
  <2>1. SUFFICES ASSUME NEW j \in DOMAIN w, w[j].kind = "result" PROVE Placed(w, j)
        BY DEF InPlace, Placed
  <2>2. CASE j \in 1..l
        BY <1>4, <2>1, <2>2
  <2>3. ASSUME NEW b \in 1..Len(r), j = l + b
        PROVE  Placed(w, j)
        BY <1>5, <2>3
  <2>4. QED  BY <1>2, <2>2, <2>3
<1>7. QED  BY <1>2, <1>4, <1>6 DEF Tidy, w
-----------------------------------------------------------------------------
(* What the helpers make of a tidy conversation. *)

LEMMA OpenIsFinite ==
    ASSUME NEW m, NEW n \in Nat, Tidy(m, n)
    PROVE  Open(m) \subseteq Call /\ IsFiniteSet(Open(m))
<1>1. m \in Seq(Message) /\ Len(m) \in Nat
      BY DEF Tidy
<1>2. CASE m # <<>> /\ m[Len(m)].kind = "calls"
  <2>1. Len(m) \in 1..Len(m)
        BY <1>1, <1>2
  <2>2. m[Len(m)] \in Message
        BY <1>1, <2>1
  <2>3. QED  BY <1>2, <2>2, MessageFacts DEF Open
<1>3. CASE ~ (m # <<>> /\ m[Len(m)].kind = "calls")
  <2>1. Open(m) = {}
        BY <1>3 DEF Open
  <2>2. QED  BY <2>1, FS_EmptySet
<1>4. QED  BY <1>2, <1>3

\* One more message, that is no result.
LEMMA SaidFacts ==
    ASSUME NEW m \in Seq(Message), NEW x \in Message, x.kind # "result"
    PROVE  /\ Append(m, x) \in Seq(Message) /\ Append(m, x) # <<>>
           /\ Materialized(Append(m, x)) = Materialized(m)
           /\ Called(Append(m, x)) = Called(m) \cup (IF x.kind = "calls" THEN x.of ELSE {})
           /\ Open(Append(m, x)) = (IF x.kind = "calls" THEN x.of ELSE {})
           /\ \A C : Honest(m, C) => Honest(Append(m, x), C)
           /\ \A U : Has(m, U) => Has(Append(m, x), U)
           /\ Append(m, x)[Len(Append(m, x))] = x
<1> DEFINE r == <<x>>
           w == Append(m, x)
<1>1. /\ w \in Seq(Message) /\ Len(w) = Len(m) + 1 /\ w = m \o r /\ r \in Seq(Message)
      /\ Len(m) \in Nat /\ Len(r) = 1 /\ r[1] = x /\ w[Len(m) + 1] = x
      BY Longer
<1> HIDE DEF r, w
<1>2. \A i \in 1..Len(r) : i = 1
      BY <1>1
<1>3. Materialized(r) = {}
  <2>1. SUFFICES ASSUME NEW c \in Materialized(r) PROVE FALSE
        OBVIOUS
  <2>2. PICK i \in 1..Len(r) : r[i].kind = "result"
        BY <1>1, SeenIn
  <2>3. QED  BY <1>1, <1>2, <2>2
<1>4. Called(r) = (IF x.kind = "calls" THEN x.of ELSE {})
  <2>1. ASSUME NEW c \in Called(r) PROVE c \in x.of /\ x.kind = "calls"
    <3>1. PICK i \in 1..Len(r) : r[i].kind = "calls" /\ c \in r[i].of
          BY <1>1, SeenIn
    <3>2. QED  BY <1>1, <1>2, <3>1
  <2>2. ASSUME x.kind = "calls", NEW c \in x.of PROVE c \in Called(r)
    <3>1. 1 \in 1..Len(r) /\ r[1].kind = "calls" /\ c \in r[1].of
          BY <1>1, <2>2
    <3>2. QED  BY <1>1, <3>1, SeenIn
  <2>3. QED  BY <2>1, <2>2
<1>5. /\ Materialized(w) = Materialized(m)
      /\ Called(w) = Called(m) \cup (IF x.kind = "calls" THEN x.of ELSE {})
  <2>1. Materialized(w) = Materialized(m) \cup Materialized(r) /\ Called(w) = Called(m) \cup Called(r)
        BY <1>1, SeenJoined
  <2>2. QED  BY <1>3, <1>4, <2>1
<1>6. w # <<>> /\ w[Len(w)] = x
      BY <1>1
<1>7. Open(w) = (IF x.kind = "calls" THEN x.of ELSE {})
      BY <1>6 DEF Open
<1>8. ASSUME NEW C, Honest(m, C) PROVE Honest(w, C)
  <2>1. x.what # "interrupted"
        BY MessageFacts
  <2>2. Honest(r, C)
        BY <1>1, <1>2, <2>1 DEF Honest
  <2>3. QED  BY <1>1, <1>8, <2>2, HonestJoined
<1>9. ASSUME NEW U, Has(m, U) PROVE Has(w, U)
      BY <1>1, <1>9, HasJoined
<1>10. QED  BY <1>1, <1>5, <1>6, <1>7, <1>8, <1>9 DEF w

LEMMA ResultsFacts ==
    ASSUME NEW r, Results(r)
    PROVE  r \in Seq(Message) /\ Called(r) = {} /\ Materialized(r) \subseteq Call
<1>1. r \in Seq(Message)
      BY DEF Results
<1>2. ASSUME NEW c \in Called(r) PROVE FALSE
  <2>1. PICK i \in 1..Len(r) : r[i].kind = "calls"
        BY <1>1, SeenIn
  <2>2. QED  BY <2>1 DEF Results
<1>3. QED  BY <1>1, <1>2, SeenIn

\* The results of the open calls are appended as they are.
LEMMA AnsweredFacts ==
    ASSUME NEW m, NEW n \in Nat, Tidy(m, n), NEW r, Results(r), Distinct(r),
           Materialized(r) \subseteq Open(m)
    PROVE  /\ AppendResults(m, r) = m \o r /\ m \o r \in Seq(Message)
           /\ Tidy(m \o r, n) /\ (m # <<>> => m \o r # <<>>)
           /\ Materialized(m \o r) = Materialized(m) \cup Materialized(r)
           /\ Called(m \o r) = Called(m)
           /\ \A U : Has(m, U) => Has(m \o r, U)
<1>1. m \in Seq(Message) /\ r \in Seq(Message) /\ Called(r) = {}
      BY ResultsFacts DEF Tidy
<1>2. Materialized(r) \cap Materialized(m) = {}
      BY OpenUnanswered
<1>3. AppendResults(m, r) = m \o r
      BY <1>1, <1>2, AppendResultsFresh
<1>4. Materialized(m \o r) = Materialized(m) \cup Materialized(r) /\ Called(m \o r) = Called(m)
  <2>1. Called(m \o r) = Called(m) \cup Called(r)
        BY <1>1, SeenJoined
  <2>2. Materialized(m \o r) = Materialized(m) \cup Materialized(r)
        BY <1>1, SeenJoined
  <2>3. QED  BY <1>1, <2>1, <2>2
<1>5. m # <<>> => m \o r # <<>>
  <2>1. Len(m \o r) = Len(m) + Len(r) /\ Len(m) \in Nat /\ Len(r) \in Nat /\ m \o r \in Seq(Message)
        BY <1>1, Joined
  <2>2. m # <<>> => Len(m) # 0
        BY <1>1
  <2>3. QED  BY <2>1, <2>2
<1>6. Tidy(m \o r, n)
      BY TidyAnswered
<1>7. \A U : Has(m, U) => Has(m \o r, U)
      BY <1>1, HasJoined
<1>8. QED  BY <1>1, <1>3, <1>4, <1>5, <1>6, <1>7, Joined

\* A repaired conversation is a complete one, and says what the other does.
LEMMA Completed ==
    ASSUME NEW m, NEW n \in Nat, Tidy(m, n), Unanswered(m) \subseteq Open(m)
    PROVE  /\ Tidy(Repaired(m), n) /\ Unanswered(Repaired(m)) = {}
           /\ Materialized(Repaired(m)) = Materialized(m) \cup Unanswered(m)
           /\ m # <<>> => Repaired(m) # <<>>
           /\ Unanswered(m) = {} => Repaired(m) = m
           /\ \A U : Has(m, U) => Has(Repaired(m), U)
           /\ \A C : Honest(m, C) /\ Unanswered(m) \cap C = {} => Honest(Repaired(m), C)
<1> DEFINE u == Unanswered(m)
           r == Answers(u, "interrupted")
<1>1. m \in Seq(Message)
      BY DEF Tidy
<1>2. u \in SUBSET Call /\ IsFiniteSet(u)
  <2>1. u \in SUBSET Open(m) /\ Open(m) \subseteq Call /\ IsFiniteSet(Open(m))
        BY OpenIsFinite
  <2>2. QED  BY <2>1, FS_Subset
<1> HIDE DEF u
<1>3. /\ Results(r) /\ Distinct(r) /\ Materialized(r) = u
      /\ \A i \in 1..Len(r) : \E c \in u : r[i].of = {c}
      /\ u = {} => r = <<>>
      BY <1>2, AnswersFacts
<1> HIDE DEF r
<1>4. Repaired(m) = m \o r
      BY RepairedFacts DEF r, u
<1>5. /\ Tidy(m \o r, n) /\ (m # <<>> => m \o r # <<>>)
      /\ Materialized(m \o r) = Materialized(m) \cup u
      /\ Called(m \o r) = Called(m)
      /\ \A U : Has(m, U) => Has(m \o r, U)
      BY <1>3, AnsweredFacts DEF u
<1>6. Unanswered(m \o r) = {}
      BY <1>5 DEF Unanswered, u
<1>7. u = {} => m \o r = m
      BY <1>1, <1>3, ConcatEmptySeq
<1>8. ASSUME NEW C, Honest(m, C), u \cap C = {} PROVE Honest(m \o r, C)
  <2>1. Honest(r, C)
        BY <1>3, <1>8 DEF Honest
  <2>2. QED  BY <1>1, <1>3, <1>8, <2>1, HonestJoined DEF Results
<1>9. QED  BY <1>4, <1>5, <1>6, <1>7, <1>8 DEF u

\* And so is the one that a steer is put into.
LEMMA SteeredFacts ==
    ASSUME NEW m, NEW n \in Nat, Tidy(m, n), Unanswered(m) \subseteq Open(m), NEW s \in Steer
    PROVE  /\ Tidy(Steered(m, s), n) /\ Unanswered(Steered(m, s)) = {} /\ Steered(m, s) # <<>>
           /\ Materialized(Steered(m, s)) = Materialized(m) \cup Unanswered(m)
           /\ \A U : Has(m, U) => Has(Steered(m, s), U \cup {s})
           /\ \A C : Honest(m, C) /\ Unanswered(m) \cap C = {} => Honest(Steered(m, s), C)
<1> DEFINE r == Repaired(m)
           x == Said(s)
           w == Append(r, x)
<1>1. Steered(m, s) = w
      BY DEF Steered
<1>2. x \in Message /\ x.kind = "user"
      BY Made DEF User
<1>3. /\ Tidy(r, n) /\ Unanswered(r) = {}
      /\ Materialized(r) = Materialized(m) \cup Unanswered(m)
      /\ \A U : Has(m, U) => Has(r, U)
      /\ \A C : Honest(m, C) /\ Unanswered(m) \cap C = {} => Honest(r, C)
      BY Completed
<1> HIDE DEF r, x
<1>4. r \in Seq(Message)
      BY <1>3 DEF Tidy
<1>5. /\ w \in Seq(Message) /\ w # <<>> /\ Materialized(w) = Materialized(r)
      /\ Called(w) = Called(r) \cup {} /\ w[Len(w)] = x
      /\ \A C : Honest(r, C) => Honest(w, C)
      /\ \A U : Has(r, U) => Has(w, U)
      BY <1>2, <1>4, SaidFacts
<1>6. Tidy(w, n)
      BY <1>2, <1>3, TidySaid
<1> HIDE DEF w
<1>7. Unanswered(w) = {}
      BY <1>3, <1>5 DEF Unanswered
<1>8. ASSUME NEW U, Has(m, U) PROVE Has(w, U \cup {s})
  <2>1. Has(w, U)
        BY <1>3, <1>5, <1>8
  <2>2. Len(w) \in 1..Len(w)
        BY <1>5
  <2>3. QED  BY <1>5, <2>1, <2>2 DEF Has, x
<1>9. QED  BY <1>1, <1>3, <1>5, <1>6, <1>7, <1>8

LEMMA HonestMore ==
    ASSUME NEW m \in Seq(Message), NEW C, NEW D, Honest(m, C), D \cap Materialized(m) = {}
    PROVE  Honest(m, C \cup D)
<1>1. SUFFICES ASSUME NEW i \in 1..Len(m), m[i].what = "interrupted", NEW c \in m[i].of, c \in D
               PROVE  FALSE
      BY DEF Honest
<1>2. m[i] \in Message
      OBVIOUS
<1>3. m[i].kind = "result"
      BY <1>1, <1>2, MessageFacts
<1>4. QED  BY <1>1, <1>3, SeenIn

LEMMA SoundMore ==
    ASSUME NEW m, NEW n \in Nat, NEW C, Sound(m, n, C), NEW n2 \in Nat, n <= n2,
           NEW D, D \cap Materialized(m) = {}
    PROVE  Sound(m, n2, C \cup D)
<1>1. /\ m \in Seq(Message) /\ InPlace(m) /\ Apart(m) /\ Numbered(m, n)
      /\ Unanswered(m) \subseteq Open(m) /\ Honest(m, C)
      BY DEF Sound, Tidy
<1>2. Honest(m, C \cup D)
      BY <1>1, HonestMore
<1>3. Numbered(m, n2)
  <2>1. ASSUME NEW i \in 1..Len(m), m[i].kind = "calls", NEW c \in m[i].of PROVE c[1] <= n2
    <3>1. m[i] \in Message /\ c[1] <= n
          BY <1>1, <2>1 DEF Numbered
    <3>2. m[i].of \subseteq Call
          BY <2>1, <3>1, MessageFacts
    <3>3. c[1] \in Nat
          BY <3>2 DEF Call
    <3>4. QED  BY <3>1, <3>3
  <2>2. QED  BY <2>1 DEF Numbered
<1>4. QED  BY <1>1, <1>2, <1>3 DEF Sound, Tidy

\* Answers of different calls, put together.
LEMMA ResultsJoined ==
    ASSUME NEW a, Results(a), Distinct(a), NEW b, Results(b), Distinct(b),
           Materialized(a) \cap Materialized(b) = {}
    PROVE  /\ Results(a \o b) /\ Distinct(a \o b)
           /\ Materialized(a \o b) = Materialized(a) \cup Materialized(b)
           /\ Uninterrupted(a) /\ Uninterrupted(b) => Uninterrupted(a \o b)
<1> DEFINE w == a \o b
<1>1. a \in Seq(Message) /\ b \in Seq(Message)
      BY DEF Results
<1>2. /\ \A i \in 1..Len(a) : w[i] = a[i]
      /\ \A i \in 1..Len(b) : w[Len(a) + i] = b[i]
      /\ \A k \in 1..Len(w) : k \in 1..Len(a) \/ \E i \in 1..Len(b) : k = Len(a) + i
      /\ Len(a) \in Nat /\ Len(b) \in Nat /\ w \in Seq(Message)
      BY <1>1, Joined
<1>3. Materialized(w) = Materialized(a) \cup Materialized(b)
      BY <1>1, SeenJoined
<1> HIDE DEF w
<1>4. Results(w)
  <2>1. ASSUME NEW k \in 1..Len(w) PROVE w[k].kind = "result"
    <3>1. CASE k \in 1..Len(a)
          BY <1>2, <3>1 DEF Results
    <3>2. ASSUME NEW i \in 1..Len(b), k = Len(a) + i PROVE w[k].kind = "result"
      <4>1. w[k] = b[i]
            BY <1>2, <3>2
      <4>2. QED  BY <4>1 DEF Results
    <3>3. QED  BY <1>2, <3>1, <3>2
  <2>2. QED  BY <1>2, <2>1 DEF Results
<1>5. Uninterrupted(a) /\ Uninterrupted(b) => Uninterrupted(w)
  <2>1. ASSUME Uninterrupted(a), Uninterrupted(b), NEW k \in 1..Len(w)
        PROVE  w[k].what # "interrupted"
    <3>1. CASE k \in 1..Len(a)
          BY <1>2, <2>1, <3>1 DEF Uninterrupted
    <3>2. ASSUME NEW i \in 1..Len(b), k = Len(a) + i PROVE w[k].what # "interrupted"
      <4>1. w[k] = b[i]
            BY <1>2, <3>2
      <4>2. QED  BY <2>1, <4>1 DEF Uninterrupted
    <3>3. QED  BY <1>2, <3>1, <3>2
  <2>2. QED  BY <2>1 DEF Uninterrupted
<1>6. \A i \in 1..Len(a), j \in 1..Len(b) : a[i].of # b[j].of
  <2>1. ASSUME NEW i \in 1..Len(a), NEW j \in 1..Len(b), a[i].of = b[j].of PROVE FALSE
    <3>1. a[i] \in Message /\ a[i].kind = "result" /\ b[j].kind = "result"
          BY <1>1 DEF Results
    <3>2. PICK c \in Call : a[i].of = {c}
          BY <3>1, MessageFacts
    <3>3. c \in Materialized(a) /\ c \in Materialized(b)
          BY <1>1, <2>1, <3>1, <3>2, SeenAt
    <3>4. QED  BY <3>3
  <2>2. QED  BY <2>1
<1>7. Distinct(w)
  <2>1. SUFFICES ASSUME NEW k \in 1..Len(w), NEW l \in 1..Len(w), w[k].of = w[l].of PROVE k = l
        BY DEF Distinct
  <2>2. CASE k \in 1..Len(a) /\ l \in 1..Len(a)
        BY <1>2, <2>1, <2>2 DEF Distinct
  <2>3. ASSUME k \in 1..Len(a), NEW j \in 1..Len(b), l = Len(a) + j PROVE FALSE
    <3>1. w[k] = a[k] /\ w[l] = b[j]
          BY <1>2, <2>3
    <3>2. QED  BY <1>6, <2>1, <2>3, <3>1
  <2>4. ASSUME l \in 1..Len(a), NEW j \in 1..Len(b), k = Len(a) + j PROVE FALSE
    <3>1. w[l] = a[l] /\ w[k] = b[j]
          BY <1>2, <2>4
    <3>2. QED  BY <1>6, <2>1, <2>4, <3>1
  <2>5. ASSUME NEW i \in 1..Len(b), k = Len(a) + i, NEW j \in 1..Len(b), l = Len(a) + j PROVE k = l
    <3>1. w[k] = b[i] /\ w[l] = b[j]
          BY <1>2, <2>5
    <3>2. i = j
          BY <2>1, <3>1 DEF Distinct
    <3>3. QED  BY <2>5, <3>2
  <2>6. QED  BY <1>2, <2>2, <2>3, <2>4, <2>5
<1>8. QED  BY <1>3, <1>4, <1>5, <1>7 DEF w

\* Results that already are in their places are of different calls, and new ones.
LEMMA ResultsInPlace ==
    ASSUME NEW m \in Seq(Message), NEW r, Results(r), InPlace(m \o r)
    PROVE  AppendResults(m, r) = m \o r
<1> DEFINE w == m \o r
<1>1. r \in Seq(Message) /\ \A i \in 1..Len(r) : r[i].kind = "result"
      BY DEF Results
<1>2. /\ \A i \in 1..Len(m) : i \in 1..Len(w) /\ w[i] = m[i]
      /\ \A i \in 1..Len(r) : Len(m) + i \in 1..Len(w) /\ w[Len(m) + i] = r[i]
      /\ Len(m) \in Nat /\ Len(r) \in Nat /\ w \in Seq(Message)
      BY <1>1, Joined
<1>3. InPlace(w)
      OBVIOUS
<1> HIDE DEF w
<1>4. DOMAIN w = 1..Len(w)
      BY <1>2
<1>5. \A j \in 1..Len(w) : w[j].kind = "result" =>
          \A k \in 1..j-1 : w[k].kind = "result" => w[k].of # w[j].of
      BY <1>3, <1>4 DEF InPlace
<1>6. \A i, j \in 1..Len(r) : i < j => r[i].of # r[j].of
  <2>1. ASSUME NEW i \in 1..Len(r), NEW j \in 1..Len(r), i < j PROVE r[i].of # r[j].of
    <3>1. w[Len(m) + i] = r[i] /\ w[Len(m) + j] = r[j] /\ Len(m) + j \in 1..Len(w)
          BY <1>2
    <3>2. Len(m) + i \in 1..(Len(m) + j) - 1
          BY <1>2, <2>1
    <3>3. QED  BY <1>1, <1>5, <3>1, <3>2
  <2>2. QED  BY <2>1
<1>7. Distinct(r)
  <2>1. \A i, j \in 1..Len(r) : i < j \/ j < i \/ i = j
        BY <1>2
  <2>2. QED  BY <1>6, <2>1 DEF Distinct
<1>8. Materialized(r) \cap Materialized(m) = {}
  <2>1. SUFFICES ASSUME NEW c \in Materialized(r), c \in Materialized(m) PROVE FALSE
        OBVIOUS
  <2>2. PICK j \in 1..Len(r) : c \in r[j].of
        BY <1>1, <2>1, SeenIn
  <2>3. PICK i \in 1..Len(m) : m[i].kind = "result" /\ c \in m[i].of
        BY <2>1, SeenIn
  <2>4. m[i] \in Message /\ r[j] \in Message /\ r[j].kind = "result"
        BY <1>1
  <2>5. m[i].of = {c} /\ r[j].of = {c}
        BY <2>2, <2>3, <2>4, MessageFacts
  <2>6. w[i] = m[i] /\ w[Len(m) + j] = r[j] /\ Len(m) + j \in 1..Len(w)
        BY <1>2
  <2>7. i \in 1..(Len(m) + j) - 1
        BY <1>2
  <2>8. QED  BY <1>5, <2>3, <2>4, <2>5, <2>6, <2>7
<1>9. QED  BY <1>1, <1>7, <1>8, AppendResultsFresh

\* The first of the calls that are left, and the others.
LEMMA HeadAndTail ==
    ASSUME NEW S, NEW s \in Seq(S), s # <<>>, Different(s)
    PROVE  /\ Head(s) \in S /\ Tail(s) \in Seq(S) /\ Different(Tail(s))
           /\ ToSet(s) = {Head(s)} \cup ToSet(Tail(s)) /\ Head(s) \notin ToSet(Tail(s))
<1> DEFINE t == Tail(s)
<1>1. /\ Len(s) \in Nat /\ Len(s) > 0 /\ Head(s) = s[1] /\ Head(s) \in S
      /\ t \in Seq(S) /\ Len(t) = Len(s) - 1 /\ \A i \in 1..Len(t) : t[i] = s[i + 1]
      /\ DOMAIN s = 1..Len(s) /\ DOMAIN t = 1..Len(t)
      OBVIOUS
<1>2. ToSet(s) = {s[i] : i \in 1..Len(s)} /\ ToSet(t) = {t[i] : i \in 1..Len(t)}
      BY <1>1 DEF ToSet
<1> HIDE DEF t
<1>3. Different(t)
  <2>1. ASSUME NEW i \in 1..Len(t), NEW j \in 1..Len(t), t[i] = t[j] PROVE i = j
    <3>1. i + 1 \in 1..Len(s) /\ j + 1 \in 1..Len(s) /\ s[i + 1] = s[j + 1]
          BY <1>1, <2>1
    <3>2. i + 1 = j + 1
          BY <3>1 DEF Different
    <3>3. QED  BY <3>2
  <2>2. QED  BY <2>1 DEF Different
<1>4. ASSUME NEW x \in ToSet(s) PROVE x = Head(s) \/ x \in ToSet(t)
  <2>1. PICK i \in 1..Len(s) : x = s[i]
        BY <1>2
  <2>2. CASE i = 1
        BY <1>1, <2>1, <2>2
  <2>3. CASE i # 1
    <3>1. i - 1 \in 1..Len(t) /\ (i - 1) + 1 = i
          BY <1>1, <2>3
    <3>2. t[i - 1] = s[i]
          BY <1>1, <3>1
    <3>3. QED  BY <1>2, <2>1, <3>1, <3>2
  <2>4. QED  BY <2>2, <2>3
<1>5. ASSUME NEW x \in ToSet(t) PROVE x \in ToSet(s) /\ x # Head(s)
  <2>1. PICK i \in 1..Len(t) : x = t[i]
        BY <1>2
  <2>2. i + 1 \in 1..Len(s) /\ x = s[i + 1] /\ 1 \in 1..Len(s) /\ i + 1 # 1
        BY <1>1, <2>1
  <2>3. QED  BY <1>1, <1>2, <2>2 DEF Different
<1>6. Head(s) \in ToSet(s)
      BY <1>1, <1>2
<1>7. QED  BY <1>1, <1>3, <1>4, <1>5, <1>6 DEF t

\* The calls of some tools, in an order.
LEMMA CallsFacts ==
    ASSUME NEW m, NEW n \in Nat, Tidy(m, n), m = core, m # <<>>, m[Len(m)].kind = "calls",
           NEW T \in SUBSET Tool
    PROVE  /\ Last(core) = m[Len(m)] /\ Open(m) = Last(core).of
           /\ CallsOf(T) = {c \in Open(m) : c[2] \in T}
           /\ CallsOf(T) \subseteq Call /\ IsFiniteSet(CallsOf(T))
           /\ \A S : CallsOf(T) \subseteq S =>
                  SetToSeq(CallsOf(T)) \in Seq(S) 
           /\ Different(SetToSeq(CallsOf(T))) /\ ToSet(SetToSeq(CallsOf(T))) = CallsOf(T)
<1>1. Last(core) = m[Len(m)] /\ Open(m) = Last(core).of
      BY DEF Last, Open
<1>2. CallsOf(T) = {c \in Open(m) : c[2] \in T}
      BY <1>1 DEF CallsOf
<1>3. Open(m) \subseteq Call /\ IsFiniteSet(Open(m))
      BY OpenIsFinite
<1> DEFINE C == CallsOf(T)
           s == SetToSeq(C)
<1>4. C \subseteq Open(m)
      BY <1>2
<1>5. C \subseteq Call /\ IsFiniteSet(C)
      BY <1>3, <1>4, FS_Subset
<1> HIDE DEF C
<1>6. /\ s \in Seq(C) /\ Len(s) \in Nat
      /\ \A i, j \in 1..Len(s) : s[i] = s[j] => i = j
      /\ \A x \in C : \E i \in 1..Len(s) : s[i] = x
      BY <1>5, SetToSeqFacts
<1> HIDE DEF s
<1>7. Different(s)
      BY <1>6 DEF Different
<1>8. ToSet(s) = C
  <2>1. DOMAIN s = 1..Len(s) /\ \A i \in 1..Len(s) : s[i] \in C
        BY <1>6
  <2>2. QED  BY <1>6, <2>1 DEF ToSet
<1>9. ASSUME NEW S, C \subseteq S PROVE s \in Seq(S)
      BY <1>6, <1>9
<1>10. QED  BY <1>1, <1>2, <1>5, <1>7, <1>8, <1>9 DEF C, s
-----------------------------------------------------------------------------
(* Steps that go on. *)

LEMMA NotOver ==
    ASSUME TypesOK', phase # "over", phase' # "over", GoingOn'
    PROVE  RunInv'
BY DEF RunInv, SavedIsComplete, NoFalseInterruption, LeavesTrace, SaidIsSaved

\* A step inside a batch: the tools it runs are of the calls at the end of the conversation.
LEMMA Serves ==
    ASSUME TypesOK, GoingOn, phase \in Batch, phase' \in Batch,
           UNCHANGED <<loopInput, core, driver, asked, cancelled, queue, emitted, injected, stale>>,
           ran \subseteq ran', ran' \subseteq ran \cup Open(core), operations' \in Nat, BatchInv'
    PROVE  RunInv'
<1> DEFINE D == ran' \ ran
<1>1. /\ whole = core /\ whole' = core /\ heard' = heard /\ phase # "chat" /\ phase' # "chat"
      /\ phase # "over" /\ phase' # "over" /\ phase' \in Phases
      BY DEF whole, heard, Batch, Phases
<1>2. /\ Sound(core, asked, ran) /\ core # <<>> /\ Has(core, heard)
      BY <1>1 DEF GoingOn, TalkInv
<1>3. asked \in Nat /\ asked <= asked /\ Tidy(core, asked) /\ ran \subseteq Call
      BY <1>2 DEF TypesOK, Sound
<1>4. Open(core) \cap Materialized(core) = {} /\ Open(core) \subseteq Call
      BY <1>3, OpenUnanswered, OpenIsFinite
<1>5. D \subseteq Open(core) /\ ran \cup D = ran'
      OBVIOUS
<1> HIDE DEF D
<1>6. Sound(core, asked, ran')
  <2>1. D \cap Materialized(core) = {}
        BY <1>4, <1>5
  <2>2. Sound(core, asked, ran \cup D)
        BY <1>2, <1>3, <2>1, SoundMore
  <2>3. QED  BY <1>5, <2>2
<1>7. TalkInv'
      BY <1>1, <1>2, <1>6 DEF TalkInv
<1>8. CheckpointInv'
  <2>1. Sound(checkpoint, asked, ran) /\ Materialized(checkpoint) \subseteq Materialized(core)
        BY <1>1 DEF GoingOn, CheckpointInv
  <2>2. D \cap Materialized(checkpoint) = {}
        BY <1>4, <1>5, <2>1
  <2>3. Sound(checkpoint, asked, ran \cup D)
        BY <1>3, <2>1, <2>2, SoundMore
  <2>4. Sound(checkpoint, asked, ran')
        BY <1>5, <2>3
  <2>5. QED  BY <1>1, <2>1, <2>4 DEF GoingOn, CheckpointInv, driver
<1>9. EmittedInv'
  <2>1. Sound(emitted, asked, ran) /\ Materialized(emitted) \subseteq Materialized(core)
        BY <1>1 DEF GoingOn, EmittedInv
  <2>2. D \cap Materialized(emitted) = {}
        BY <1>4, <1>5, <2>1
  <2>3. Sound(emitted, asked, ran \cup D)
        BY <1>3, <2>1, <2>2, SoundMore
  <2>4. Sound(emitted, asked, ran')
        BY <1>5, <2>3
  <2>5. QED  BY <1>1, <2>1, <2>4 DEF GoingOn, EmittedInv
<1>10. TypesOK'
  <2>1. ran' \subseteq Call
        BY <1>3, <1>4
  <2>2. QED  BY <1>1, <2>1 DEF TypesOK, driver
<1>11. GoingOn'
      BY <1>7, <1>8, <1>9 DEF GoingOn
<1>12. QED  BY <1>1, <1>10, <1>11, NotOver

\* A steer is put into a conversation that has the results of all tools that ran.
LEMMA Injects ==
    ASSUME TypesOK, GoingOn, phase # "over", queue # <<>>, NEW m, Inject(m),
           Tidy(m, asked), Unanswered(m) \subseteq Open(m), Honest(m, ran),
           ran \subseteq Materialized(m), Has(m, heard),
           Sound(checkpoint', asked, ran), Materialized(checkpoint') \subseteq Materialized(m),
           fresh' \in BOOLEAN, operations' \in Nat, UNCHANGED <<asked, cancelled, ran>>
    PROVE  RunInv'
<1> DEFINE s == Head(queue)
           w == Steered(m, s)
<1>1. s \in Steer /\ Tail(queue) \in Seq(Steer) /\ asked \in Nat
      BY DEF TypesOK
<1> HIDE DEF s
<1>2. Unanswered(m) \cap ran = {}
      BY DEF Unanswered
<1>3. /\ Tidy(w, asked) /\ Unanswered(w) = {} /\ w # <<>>
      /\ Materialized(w) = Materialized(m) \cup Unanswered(m)
      /\ Has(w, heard \cup {s}) /\ Honest(w, ran)
      BY <1>1, <1>2, SteeredFacts
<1> HIDE DEF w
<1>4. /\ queue' = Tail(queue) /\ injected' = injected \cup {s}
      /\ emitted' = w /\ stale' = FALSE
      /\ loopInput'.messages = w /\ loopInput'.results = <<>>
      /\ phase' = "chat"
      BY DEF Inject, Starting, s, w
<1>5. w \in Seq(Message)
      BY <1>3 DEF Tidy
<1>6. whole' = w
      BY <1>4, <1>5, ConcatEmptySeq DEF whole
<1>7. heard' = heard \cup {s}
      BY <1>4 DEF heard
<1>8. Results(<<>>)
      BY DEF Results
<1>9. Sound(w, asked, ran)
      BY <1>3 DEF Sound
<1>10. ran \subseteq Materialized(w)
      BY <1>3
<1>11. TalkInv'
      BY <1>3, <1>4, <1>5, <1>6, <1>7, <1>8, <1>9, <1>10 DEF TalkInv
<1>12. CheckpointInv'
      BY <1>3, <1>4, <1>6 DEF CheckpointInv
<1>13. EmittedInv'
  <2>1. injected' # {}
        BY <1>4
  <2>2. QED  BY <1>3, <1>4, <1>6, <1>7, <1>9, <2>1 DEF EmittedInv
<1>14. BatchInv'
      BY <1>4 DEF BatchInv, Batch
<1>15. TypesOK'
      BY <1>1, <1>4 DEF TypesOK, Phases
<1>16. GoingOn'
      BY <1>4, <1>11, <1>12, <1>13, <1>14 DEF GoingOn
<1>17. QED  BY <1>4, <1>15, <1>16, NotOver
-----------------------------------------------------------------------------
(* Steps that end the run. *)

LEMMA EndTypes ==
    ASSUME TypesOK, NEW e, NEW m, End(e, m), stale' \in BOOLEAN
    PROVE  TypesOK'
BY DEF TypesOK, End, NoCalls, Phases

\* With the history that was reported last, or what the recorder has seen.
LEMMA EndsReported ==
    ASSUME TypesOK, GoingOn, NEW e \in {"error", "denied", "cancelled"}, End(e, emitted),
           UNCHANGED stale
    PROVE  RunInv'
<1>1. /\ phase' = "over" /\ ended' = e /\ saved' = Persisted(e, emitted)
      /\ ran' = ran /\ injected' = injected
      BY DEF End
<1>2. stale = FALSE /\ stale' = FALSE
      BY DEF GoingOn, TypesOK
<1>3. TypesOK'
      BY <1>2, EndTypes
<1>4. /\ Sound(emitted, asked, ran) /\ Unanswered(emitted) = {}
      /\ emitted = <<>> <=> injected = {}
      /\ emitted # <<>> => Has(emitted, heard)
      BY DEF GoingOn, EmittedInv
<1>5. emitted \in Seq(Message) /\ InPlace(emitted) /\ Honest(emitted, ran)
      BY <1>4 DEF Sound, Tidy
<1>6. CASE emitted # <<>>
  <2>1. saved' = emitted /\ injected # {}
        BY <1>1, <1>4, <1>6 DEF Persisted
  <2>2. DOMAIN emitted = 1..Len(emitted)
        BY <1>5
  <2>3. SavedIsComplete'
        BY <1>4, <1>5, <2>1 DEF SavedIsComplete
  <2>4. NoFalseInterruption'
        BY <1>1, <1>5, <2>1, <2>2 DEF NoFalseInterruption, Honest
  <2>5. LeavesTrace'
        BY <1>1, <2>1 DEF LeavesTrace
  <2>6. SaidIsSaved'
        BY <1>1, <1>4, <1>6, <2>1, <2>2 DEF SaidIsSaved, Has, heard
  <2>7. QED  BY <1>1, <1>3, <2>3, <2>4, <2>5, <2>6 DEF RunInv
<1>7. CASE emitted = <<>> /\ e = "denied"
  <2>1. saved' = <<>> /\ injected = {} /\ ended' = "denied"
        BY <1>1, <1>4, <1>7 DEF Persisted
  <2>2. SavedIsComplete'
        BY <2>1 DEF SavedIsComplete, InPlace, Unanswered, Called
  <2>3. NoFalseInterruption'
        BY <2>1 DEF NoFalseInterruption
  <2>4. LeavesTrace'
        BY <2>1 DEF LeavesTrace
  <2>5. SaidIsSaved'
        BY <1>1, <2>1 DEF SaidIsSaved
  <2>6. QED  BY <1>1, <1>3, <2>2, <2>3, <2>4, <2>5 DEF RunInv
<1>8. CASE emitted = <<>> /\ e \in {"cancelled", "error"}
  <2>1. saved' = <<Said(Opening), Note(ran)>> /\ injected = {}
        BY <1>1, <1>4, <1>8 DEF Persisted, Recorded
  <2>2. /\ DOMAIN saved' = {1, 2} /\ saved'[1] = Said(Opening) /\ saved'[2] = Note(ran)
        BY <2>1
  <2>3. /\ saved'[1].kind = "user" /\ saved'[1].what = "none"
        /\ saved'[2].kind = "note" /\ saved'[2].of = ran /\ saved'[2].what = "none"
        BY <2>2 DEF Said, Note
  <2>4. SavedIsComplete'
    <3>1. InPlace(saved')
          BY <2>2, <2>3 DEF InPlace
    <3>2. Unanswered(saved') = {}
          BY <2>2, <2>3 DEF Unanswered, Called
    <3>3. QED  BY <3>1, <3>2 DEF SavedIsComplete
  <2>5. NoFalseInterruption'
        BY <2>2, <2>3 DEF NoFalseInterruption
  <2>6. LeavesTrace'
        BY <1>1, <2>2, <2>3 DEF LeavesTrace
  <2>7. SaidIsSaved'
        BY <1>1, <2>1, <2>2 DEF SaidIsSaved
  <2>8. QED  BY <1>1, <1>3, <2>4, <2>5, <2>6, <2>7 DEF RunInv
<1>9. QED  BY <1>6, <1>7, <1>8

\* With a history of its own, which is complete but for the groups not begun, and
\* says what has happened unless the checkpoint is of an earlier question.
LEMMA EndsSaved ==
    ASSUME TypesOK, NEW e, NEW m, End(e, m), stale' \in BOOLEAN, m # <<>> \/ e = "done",
           Tidy(m, asked), \A c \in Unanswered(m) : c[2] \in NotBegun',
           ~stale' => Honest(m, ran) /\ ran \subseteq Materialized(m) /\ Has(m, heard)
    PROVE  RunInv'
<1>1. /\ phase' = "over" /\ ended' = e /\ saved' = m
      /\ ran' = ran /\ injected' = injected
      BY DEF End, Persisted
<1>2. TypesOK'
      BY EndTypes
<1>3. m \in Seq(Message) /\ InPlace(m) /\ DOMAIN m = 1..Len(m)
      BY DEF Tidy
<1>4. SavedIsComplete'
  <2>1. InPlace(saved') /\ \A c \in Unanswered(saved') : c[2] \in NotBegun'
        BY <1>1, <1>3
  <2>2. QED  BY <2>1 DEF SavedIsComplete
<1>5. NoFalseInterruption'
      BY <1>1, <1>3 DEF NoFalseInterruption, Honest
<1>6. LeavesTrace'
  <2>1. ASSUME ~stale', NEW c \in ran
        PROVE  \E i \in DOMAIN m : c \in m[i].of /\ m[i].kind \in {"result", "note"}
        BY <1>3, <2>1, SeenIn
  <2>2. QED  BY <1>1, <2>1 DEF LeavesTrace
<1>7. SaidIsSaved'
      BY <1>1, <1>3 DEF SaidIsSaved, Has, heard
<1>8. QED  BY <1>1, <1>2, <1>4, <1>5, <1>6, <1>7 DEF RunInv
-----------------------------------------------------------------------------
(* The actions. *)

LEMMA InitStep ==
    ASSUME AgentRunInit
    PROVE  RunInv
<1> DEFINE x == Said(Opening)
           none == <<>>
           w == Append(none, x)
<1>1. x \in Message /\ x.kind = "user"
      BY Made DEF User
<1>2. none \in Seq(Message) /\ Tidy(none, 0) /\ Has(none, {}) /\ \A C : Honest(none, C)
      BY DEF Tidy, InPlace, Apart, Numbered, Has, Honest
<1>3. Materialized(none) = {} /\ Called(none) = {} /\ Open(none) = {} /\ none \o none = none
      BY DEF Materialized, Called, Open
<1>4. Results(none) /\ none \in Seq(Steer)
      BY DEF Results
<1>5. w = <<x>>
      OBVIOUS
<1>6. /\ phase = "chat" /\ loopInput.messages = w /\ loopInput.results = none
      /\ asked = 0 /\ ran = {} /\ injected = {} /\ checkpoint = none /\ fresh = FALSE
      /\ emitted = none /\ stale = FALSE /\ operations = 0 /\ cancelled = FALSE /\ queue = none
  <2>1. loopInput = Starting(<<x>>)
        BY Zenon DEF AgentRunInit
  <2>2. loopInput.messages = <<x>> /\ loopInput.results = none
        BY <2>1 DEF Starting
  <2>3. /\ phase = "chat" /\ asked = 0 /\ ran = {} /\ injected = {} /\ checkpoint = none
        /\ fresh = FALSE /\ emitted = none /\ stale = FALSE /\ operations = 0
        /\ cancelled = FALSE /\ queue = none
        BY Zenon DEF AgentRunInit
  <2>4. QED  BY <1>5, <2>2, <2>3, Zenon
<1> HIDE DEF x
<1>7. none # w
      BY <1>1, <1>5
<1> HIDE DEF none
<1>8. /\ w \in Seq(Message) /\ Materialized(w) = Materialized(none)
      /\ Called(w) = Called(none) \cup {} /\ w[Len(w)] = x
      /\ \A C : Honest(none, C) => Honest(w, C)
      BY <1>1, <1>2, SaidFacts
<1>9. Tidy(w, 0)
      BY <1>1, <1>2, TidySaid
<1> HIDE DEF w
<1>10. Sound(w, 0, {}) /\ Sound(none, 0, {}) /\ Unanswered(w) = {} /\ Unanswered(none) = {}
      BY <1>2, <1>3, <1>8, <1>9 DEF Sound, Unanswered
<1>11. Has(w, {Opening})
  <2>1. Len(w) # 0 /\ Len(w) \in Nat
        BY <1>1, <1>5, <1>8
  <2>2. Len(w) \in 1..Len(w)
        BY <2>1
  <2>3. QED  BY <1>8, <2>2 DEF Has, x
<1>12. whole = w \o none /\ heard = {Opening} /\ w # <<>>
      BY <1>6, <1>7 DEF whole, heard, none
<1>13. whole = w
      BY <1>8, <1>12, ConcatEmptySeq DEF none
<1>14. TypesOK
      BY <1>4, <1>6 DEF TypesOK, Phases
<1>15. TalkInv
      BY <1>2, <1>4, <1>6, <1>8, <1>10, <1>11, <1>12, <1>13 DEF TalkInv
<1>16. CheckpointInv
      BY <1>3, <1>6, <1>10 DEF CheckpointInv
<1>17. EmittedInv
      BY <1>3, <1>6, <1>10 DEF EmittedInv, none
<1>18. BatchInv
      BY <1>6 DEF BatchInv, Batch
<1>19. QED  BY <1>6, <1>14, <1>15, <1>16, <1>17, <1>18
            DEF RunInv, GoingOn, SavedIsComplete, NoFalseInterruption, LeavesTrace, SaidIsSaved

LEMMA EnvironmentSteps ==
    ASSUME RunInv, CancelRun \/ (\E s \in Steer : QueueSteer(s)) \/ UNCHANGED agentRunVars
    PROVE  RunInv'
<1>1. /\ UNCHANGED <<phase, loopInput, core, checkpoint, fresh, asked, group, todo, approved,
                     results, outcomes, operations, emitted, ended, saved, ran, injected, stale>>
      /\ cancelled' \in BOOLEAN /\ queue' \in Seq(Steer)
  <2>1. TypesOK
        BY DEF RunInv
  <2>2. CASE CancelRun
        BY <2>1, <2>2 DEF CancelRun, TypesOK, driver, batch
  <2>3. ASSUME NEW s \in Steer, QueueSteer(s) PROVE <1>1
        BY <2>1, <2>3 DEF QueueSteer, TypesOK, driver, batch
  <2>4. CASE UNCHANGED agentRunVars
        BY <2>1, <2>4 DEF agentRunVars, TypesOK, driver, batch
  <2>5. QED  BY <2>2, <2>3, <2>4
<1>2. /\ whole' = whole /\ heard' = heard /\ begun' = begun /\ served' = served
      /\ NotBegun' = NotBegun
      BY <1>1 DEF whole, heard, begun, served, CallsOf, NotBegun
<1>3. TypesOK'
      BY <1>1 DEF RunInv, TypesOK
<1>4. phase # "over" => GoingOn'
  <2>1. ASSUME GoingOn PROVE TalkInv'
        BY <1>1, <1>2, <2>1 DEF GoingOn, TalkInv
  <2>2. ASSUME GoingOn PROVE CheckpointInv'
        BY <1>1, <1>2, <2>2 DEF GoingOn, CheckpointInv
  <2>3. ASSUME GoingOn PROVE EmittedInv'
        BY <1>1, <1>2, <2>3 DEF GoingOn, EmittedInv
  <2>4. ASSUME GoingOn PROVE BatchInv'
        BY <1>1, <1>2, <2>4 DEF GoingOn, BatchInv
  <2>5. QED  BY <1>1, <2>1, <2>2, <2>3, <2>4 DEF RunInv, GoingOn
<1>5. /\ SavedIsComplete' /\ NoFalseInterruption' /\ LeavesTrace' /\ SaidIsSaved'
  <2>1. SavedIsComplete'
        BY <1>1, <1>2 DEF RunInv, SavedIsComplete
  <2>2. NoFalseInterruption'
        BY <1>1 DEF RunInv, NoFalseInterruption
  <2>3. LeavesTrace'
        BY <1>1 DEF RunInv, LeavesTrace
  <2>4. SaidIsSaved'
        BY <1>1 DEF RunInv, SaidIsSaved
  <2>5. QED  BY <2>1, <2>2, <2>3, <2>4
<1>6. QED  BY <1>1, <1>3, <1>4, <1>5 DEF RunInv

\* The input of a question is what its messages and its results make together.
LEMMA InputIsWhole ==
    ASSUME TypesOK, GoingOn, phase = "chat"
    PROVE  AppendResults(loopInput.messages, loopInput.results) = whole
<1>1. /\ whole = loopInput.messages \o loopInput.results
      /\ Tidy(whole, asked) /\ Results(loopInput.results) /\ loopInput.messages \in Seq(Message)
      BY DEF GoingOn, TalkInv, Sound, whole
<1>2. InPlace(loopInput.messages \o loopInput.results)
      BY <1>1 DEF Tidy
<1>3. QED  BY <1>1, <1>2, ResultsInPlace

LEMMA AskCoreStep ==
    ASSUME TypesOK, GoingOn, AskCore
    PROVE  RunInv'
<1>1. /\ phase = "chat" /\ phase' = "stream" /\ fresh' = FALSE /\ core' = whole
      /\ UNCHANGED <<checkpoint, asked, cancelled, queue, emitted, ran, injected, stale, operations>>
      BY InputIsWhole DEF AskCore, batch
<1>2. whole' = whole /\ heard' = heard
      BY <1>1 DEF whole, heard
<1>3. TypesOK'
      BY <1>1 DEF TypesOK, Phases
<1>4. TalkInv'
      BY <1>1, <1>2 DEF GoingOn, TalkInv, Batch
<1>5. CheckpointInv'
      BY <1>1, <1>2 DEF GoingOn, CheckpointInv
<1>6. EmittedInv'
      BY <1>1, <1>2 DEF GoingOn, EmittedInv
<1>7. BatchInv'
      BY <1>1 DEF BatchInv, Batch
<1>8. GoingOn'
      BY <1>1, <1>4, <1>5, <1>6, <1>7 DEF GoingOn
<1>9. QED  BY <1>1, <1>3, <1>8, NotOver

\* The core fails, a batch is refused, a person denies or is waited for in vain.
LEMMA FailSteps ==
    ASSUME TypesOK, GoingOn,
           \/ AskFails \/ CoreFails \/ DispatchFails \/ ToolDenied \/ PersonDenies
           \/ ApprovalCancelled \/ SideDenied \/ OperationFails
           \/ CancelSeen /\ checkpoint = <<>>
    PROVE  RunInv'
<1>1. \E e \in {"error", "denied", "cancelled"} : End(e, emitted) /\ UNCHANGED stale
      BY DEF AskFails, CoreFails, DispatchFails, ToolDenied, PersonDenies, ApprovalCancelled,
             SideDenied, OperationFails, CancelSeen
<1>2. QED  BY <1>1, EndsReported

\* Between two questions the core has the results of all calls but the last batch's.
LEMMA Streaming ==
    ASSUME TypesOK, GoingOn, phase = "stream"
    PROVE  /\ whole = core /\ Sound(core, asked, ran) /\ Tidy(core, asked) /\ core # <<>>
           /\ core \in Seq(Message) /\ Len(core) \in 1..Len(core)
           /\ Last(core) = core[Len(core)] /\ Has(core, heard)
           /\ ran \subseteq Materialized(core)
           /\ Sound(checkpoint, asked, ran) /\ Tidy(checkpoint, asked)
           /\ Materialized(checkpoint) \subseteq Materialized(core)
           /\ fresh => /\ checkpoint # <<>> /\ Has(checkpoint, heard)
                       /\ Materialized(checkpoint) = Materialized(core)
           /\ asked \in Nat /\ asked <= asked
<1>1. whole = core /\ asked \in Nat
      BY DEF whole, TypesOK
<1>2. /\ Sound(core, asked, ran) /\ core # <<>> /\ Has(core, heard)
      /\ ran \subseteq Materialized(core)
      BY <1>1 DEF GoingOn, TalkInv, Batch
<1>3. /\ Sound(checkpoint, asked, ran)
      /\ Materialized(checkpoint) \subseteq Materialized(core)
      /\ fresh => /\ checkpoint # <<>> /\ Has(checkpoint, heard)
                  /\ Materialized(checkpoint) = Materialized(core)
      BY <1>1 DEF GoingOn, CheckpointInv
<1>4. Tidy(core, asked) /\ Tidy(checkpoint, asked)
      BY <1>2, <1>3 DEF Sound
<1>5. core \in Seq(Message)
      BY <1>4 DEF Tidy
<1>6. Len(core) \in 1..Len(core)
      BY <1>2, <1>5
<1>7. Last(core) = core[Len(core)]
      BY DEF Last
<1>8. QED  BY <1>1, <1>2, <1>3, <1>4, <1>5, <1>6, <1>7

\* What the model says is appended to the conversation of the core.
LEMMA Spoken ==
    ASSUME TypesOK, GoingOn, phase = "stream", Last(core).kind \in {"user", "result"},
           NEW x \in Message, x.kind \in {"calls", "text"}, core' = Append(core, x),
           asked' \in Nat, asked <= asked',
           x.kind = "calls" => \A c \in x.of : c[1] <= asked' /\ asked < c[1],
           UNCHANGED <<phase, loopInput, driver, batch, cancelled, queue, emitted, ran,
                       injected, stale>>
    PROVE  RunInv'
<1>1. /\ whole = core /\ Sound(core, asked, ran) /\ Tidy(core, asked) /\ core # <<>>
      /\ core \in Seq(Message) /\ Len(core) \in 1..Len(core)
      /\ Last(core) = core[Len(core)] /\ Has(core, heard)
      /\ ran \subseteq Materialized(core)
      /\ Sound(checkpoint, asked, ran) /\ asked \in Nat
      /\ Materialized(checkpoint) \subseteq Materialized(core)
      /\ fresh => /\ checkpoint # <<>> /\ Has(checkpoint, heard)
                  /\ Materialized(checkpoint) = Materialized(core)
      BY Streaming
<1> DEFINE w == Append(core, x)
<1>2. /\ w \in Seq(Message) /\ w # <<>> /\ Materialized(w) = Materialized(core)
      /\ Called(w) = Called(core) \cup (IF x.kind = "calls" THEN x.of ELSE {})
      /\ Open(w) = (IF x.kind = "calls" THEN x.of ELSE {})
      /\ \A C : Honest(core, C) => Honest(w, C)
      /\ \A U : Has(core, U) => Has(w, U)
      BY <1>1, SaidFacts
<1>3. Tidy(w, asked')
      BY <1>1, TidySaid
<1>4. core' = w
      OBVIOUS
<1> HIDE DEF w
<1>5. Unanswered(core) = {}
  <2>1. Open(core) = {}
        BY <1>1 DEF Open
  <2>2. QED  BY <1>1, <2>1 DEF Sound
<1>6. Sound(w, asked', ran)
  <2>1. Unanswered(w) \subseteq Open(w)
        BY <1>2, <1>5 DEF Unanswered
  <2>2. Honest(w, ran)
        BY <1>1, <1>2 DEF Sound
  <2>3. QED  BY <1>3, <2>1, <2>2 DEF Sound
<1>7. whole' = w /\ heard' = heard /\ phase' = "stream" /\ phase # "over"
      BY <1>4 DEF whole, heard
<1>8. /\ checkpoint' = checkpoint /\ fresh' = fresh /\ emitted' = emitted /\ ran' = ran
      /\ stale' = stale /\ injected' = injected
      BY DEF driver
<1>9. TypesOK'
      BY DEF TypesOK, driver, batch
<1>10. TalkInv'
      BY <1>1, <1>2, <1>6, <1>7, <1>8 DEF TalkInv, Batch
<1>11. ran \cup {} = ran
      OBVIOUS
<1>12. CheckpointInv'
  <2>1. Sound(checkpoint, asked', ran \cup {})
        BY <1>1, SoundMore
  <2>2. Sound(checkpoint, asked', ran)
        BY <1>11, <2>1
  <2>3. QED  BY <1>1, <1>2, <1>7, <1>8, <2>2 DEF CheckpointInv
<1>13. EmittedInv'
  <2>1. Sound(emitted, asked, ran) /\ Materialized(emitted) \subseteq Materialized(core)
        BY <1>1 DEF GoingOn, EmittedInv
  <2>2. Sound(emitted, asked', ran \cup {})
        BY <1>1, <2>1, SoundMore
  <2>3. Sound(emitted, asked', ran)
        BY <1>11, <2>2
  <2>4. QED  BY <1>2, <1>7, <1>8, <2>1, <2>3 DEF GoingOn, EmittedInv
<1>14. BatchInv'
      BY <1>7 DEF BatchInv, Batch
<1>15. GoingOn'
      BY <1>8, <1>10, <1>12, <1>13, <1>14 DEF GoingOn
<1>16. QED  BY <1>7, <1>9, <1>15, NotOver

LEMMA CoreSpeaksStep ==
    ASSUME TypesOK, GoingOn, CoreSpeaks
    PROVE  RunInv'
<1>1. asked \in Nat
      BY DEF TypesOK
<1>2. CASE core' = Append(core, Speech) /\ UNCHANGED asked
  <2>1. Speech \in Message /\ Speech.kind = "text"
        BY Made
  <2>2. QED  BY <1>1, <1>2, <2>1, Spoken DEF CoreSpeaks
<1>3. ASSUME NEW T \in (SUBSET Tool) \ {{}}, asked' = asked + Cardinality(T),
             core' = Append(core, Asks({asked'} \X T))
      PROVE  RunInv'
  <2> DEFINE C == {asked'} \X T
  <2>1. IsFiniteSet(T)
    <3>1. IsFiniteSet(LocalTool \cup DynamicTool)
          BY AgentRunAssumption, FS_Union
    <3>2. IsFiniteSet(Tool)
          BY <3>1, AgentRunAssumption, FS_Union DEF Tool
    <3>3. QED  BY <3>2, FS_Subset
  <2>2. Cardinality(T) \in Nat /\ Cardinality(T) # 0
        BY <2>1, FS_CardinalityType, FS_EmptySet
  <2>3. asked' \in Nat /\ asked < asked' /\ asked <= asked' /\ asked' <= asked'
        BY <1>1, <1>3, <2>2
  <2>4. IsFiniteSet({asked'})
        BY FS_Singleton
  <2>5. IsFiniteSet(C)
        BY <2>1, <2>4, FS_Product
  <2>6. C \in SUBSET Call /\ \A c \in C : c[1] = asked'
        BY <2>3 DEF Call
  <2> HIDE DEF C
  <2>7. Asks(C) \in Message /\ Asks(C).kind = "calls" /\ Asks(C).of = C
        BY <2>5, <2>6, Made
  <2>8. core' = Append(core, Asks(C))
        BY <1>3 DEF C
  <2>9. \A c \in Asks(C).of : c[1] <= asked' /\ asked < c[1]
        BY <2>3, <2>6, <2>7
  <2>10. QED  BY <2>3, <2>7, <2>8, <2>9, Spoken DEF CoreSpeaks
<1>4. QED  BY <1>2, <1>3 DEF CoreSpeaks

LEMMA TextArrivesStep ==
    ASSUME TypesOK, GoingOn, TextArrives
    PROVE  RunInv'
<1>1. /\ phase = "stream" /\ fresh /\ queue # <<>> /\ Inject(checkpoint)
      /\ UNCHANGED <<checkpoint, fresh, asked, operations, cancelled, ran>>
      BY DEF TextArrives, driver, batch
<1>2. /\ Sound(checkpoint, asked, ran) /\ Tidy(checkpoint, asked) /\ Has(checkpoint, heard)
      /\ ran \subseteq Materialized(checkpoint)
      BY <1>1, Streaming
<1>3. Unanswered(checkpoint) \subseteq Open(checkpoint) /\ Honest(checkpoint, ran)
      BY <1>2 DEF Sound
<1>4. /\ Sound(checkpoint', asked, ran) /\ Materialized(checkpoint') \subseteq Materialized(checkpoint)
      /\ fresh' \in BOOLEAN /\ operations' \in Nat /\ UNCHANGED <<asked, cancelled, ran>>
      BY <1>1, <1>2 DEF TypesOK
<1>5. QED  BY <1>1, <1>2, <1>3, <1>4, Injects

LEMMA CheckpointArrivesStep ==
    ASSUME TypesOK, GoingOn, CheckpointArrives
    PROVE  RunInv'
<1>1. /\ phase = "stream" /\ checkpoint' = core /\ fresh' = TRUE
      /\ UNCHANGED <<asked, operations, cancelled, ran>>
      BY DEF CheckpointArrives, batch
<1>2. /\ Sound(core, asked, ran) /\ Tidy(core, asked) /\ Has(core, heard) /\ core # <<>>
      /\ ran \subseteq Materialized(core) /\ whole = core
      BY <1>1, Streaming
<1>3. CASE queue # <<>> /\ Inject(core)
  <2>1. Unanswered(core) \subseteq Open(core) /\ Honest(core, ran)
        BY <1>2 DEF Sound
  <2>2. /\ Sound(checkpoint', asked, ran) /\ Materialized(checkpoint') \subseteq Materialized(core)
        /\ fresh' \in BOOLEAN /\ operations' \in Nat /\ UNCHANGED <<asked, cancelled, ran>>
        BY <1>1, <1>2 DEF TypesOK
  <2>3. phase # "over" /\ queue # <<>>
        BY <1>1, <1>3
  <2>4. QED  BY <1>2, <1>3, <2>1, <2>2, <2>3, Injects
<1>4. CASE UNCHANGED <<queue, injected, emitted, stale, loopInput, core, phase>>
  <2>1. /\ phase' = "stream" /\ core' = core /\ whole' = core /\ heard' = heard
        /\ queue' = queue /\ injected' = injected /\ emitted' = emitted /\ stale' = stale
        BY <1>1, <1>4 DEF whole, heard
  <2>2. TypesOK'
        BY <1>1, <2>1 DEF TypesOK
  <2>3. TalkInv'
        BY <1>1, <1>2, <2>1 DEF GoingOn, TalkInv
  <2>4. CheckpointInv'
        BY <1>1, <1>2, <2>1 DEF CheckpointInv
  <2>5. EmittedInv'
        BY <1>1, <1>2, <2>1 DEF GoingOn, EmittedInv
  <2>6. BatchInv'
        BY <2>1 DEF BatchInv, Batch
  <2>7. GoingOn'
        BY <2>1, <2>3, <2>4, <2>5, <2>6 DEF GoingOn
  <2>8. QED  BY <1>1, <2>1, <2>2, <2>7, NotOver
<1>5. QED  BY <1>3, <1>4 DEF CheckpointArrives

LEMMA CoreDoneStep ==
    ASSUME TypesOK, GoingOn, CoreDone
    PROVE  RunInv'
<1>1. /\ phase = "stream" /\ fresh /\ checkpoint = core /\ Last(core) = Speech
      /\ End("done", core) /\ stale' = FALSE
      BY DEF CoreDone
<1>2. /\ Sound(core, asked, ran) /\ Tidy(core, asked) /\ Has(core, heard) /\ core # <<>>
      /\ ran \subseteq Materialized(core) /\ Last(core) = core[Len(core)]
      BY <1>1, Streaming
<1>3. Unanswered(core) = {} /\ Honest(core, ran)
  <2>1. core[Len(core)].kind # "calls"
        BY <1>1, <1>2, Made
  <2>2. Open(core) = {}
        BY <2>1 DEF Open
  <2>3. QED  BY <1>2, <2>2 DEF Sound
<1>4. \A c \in Unanswered(core) : c[2] \in NotBegun'
      BY <1>3
<1>5. QED  BY <1>1, <1>2, <1>3, <1>4, EndsSaved

\* The last checkpoint is repaired, be it of this question or of an earlier one.
LEMMA CancelSteps ==
    ASSUME TypesOK, GoingOn, (CancelSeen /\ checkpoint # <<>>) \/ CoreCancelled
    PROVE  RunInv'
<1> DEFINE m == Repaired(checkpoint)
<1>1. phase = "stream" /\ stale' = ~fresh
      BY DEF CancelSeen, CoreCancelled
<1>2. \E e : End(e, m) /\ (checkpoint # <<>> \/ e = "done")
      BY DEF CancelSeen, CoreCancelled
<1>3. /\ Sound(checkpoint, asked, ran) /\ Tidy(checkpoint, asked) /\ asked \in Nat
      /\ ran \subseteq Materialized(core)
      /\ fresh => Has(checkpoint, heard) /\ Materialized(checkpoint) = Materialized(core)
      BY <1>1, Streaming
<1>4. Unanswered(checkpoint) \subseteq Open(checkpoint) /\ Honest(checkpoint, ran)
      BY <1>3 DEF Sound
<1>5. /\ Tidy(m, asked) /\ Unanswered(m) = {}
      /\ Materialized(m) = Materialized(checkpoint) \cup Unanswered(checkpoint)
      /\ checkpoint # <<>> => m # <<>>
      /\ \A U : Has(checkpoint, U) => Has(m, U)
      /\ \A C : Honest(checkpoint, C) /\ Unanswered(checkpoint) \cap C = {} => Honest(m, C)
      BY <1>3, <1>4, Completed
<1> HIDE DEF m
<1>6. ASSUME fresh PROVE Honest(m, ran) /\ ran \subseteq Materialized(m) /\ Has(m, heard)
  <2>1. ran \subseteq Materialized(checkpoint)
        BY <1>3, <1>6
  <2>2. Unanswered(checkpoint) \cap ran = {}
        BY <2>1 DEF Unanswered
  <2>3. QED  BY <1>3, <1>4, <1>5, <1>6, <2>1, <2>2
<1>7. stale' \in BOOLEAN
      BY <1>1 DEF TypesOK
<1>8. \A c \in Unanswered(m) : c[2] \in NotBegun'
      BY <1>5
<1>9. PICK e : End(e, m) /\ (checkpoint # <<>> \/ e = "done")
      BY <1>2
<1>10. m # <<>> \/ e = "done"
      BY <1>5, <1>9
<1>11. ~stale' => Honest(m, ran) /\ ran \subseteq Materialized(m) /\ Has(m, heard)
      BY <1>1, <1>6
<1>12. QED  BY <1>5, <1>7, <1>8, <1>9, <1>10, <1>11, EndsSaved
-----------------------------------------------------------------------------
(* The steps of a batch. *)

LEMMA InBatch ==
    ASSUME TypesOK, GoingOn, phase \in Batch
    PROVE  /\ phase # "over" /\ phase # "chat" /\ whole = core
           /\ Sound(core, asked, ran) /\ Tidy(core, asked) /\ Has(core, heard)
           /\ core # <<>> /\ core[Len(core)].kind = "calls" /\ asked \in Nat
           /\ \A T \in SUBSET Tool : CallsOf(T) = {c \in Open(core) : c[2] \in T}
           /\ Open(core) \subseteq Call /\ IsFiniteSet(Open(core))
           /\ Open(core) \cap Materialized(core) = {}
           /\ begun \subseteq Open(core) /\ served \subseteq begun
           /\ \A C : C \subseteq begun => C \in SUBSET Call /\ IsFiniteSet(C)
<1>1. phase # "over" /\ phase # "chat" /\ whole = core /\ asked \in Nat
      BY DEF Batch, whole, TypesOK
<1>2. /\ Sound(core, asked, ran) /\ core # <<>> /\ Has(core, heard)
      /\ core[Len(core)].kind = "calls"
      BY <1>1 DEF GoingOn, TalkInv, BatchInv
<1>3. Tidy(core, asked)
      BY <1>2 DEF Sound
<1>4. /\ Open(core) \subseteq Call /\ IsFiniteSet(Open(core))
      /\ Open(core) \cap Materialized(core) = {}
      BY <1>1, <1>3, OpenIsFinite, OpenUnanswered
<1>5. \A T \in SUBSET Tool : CallsOf(T) = {c \in Open(core) : c[2] \in T}
      BY <1>1, <1>2, <1>3, CallsFacts
<1>6. begun \subseteq Open(core) /\ served \subseteq begun
      BY <1>5 DEF begun, served, Tool
<1>7. ASSUME NEW C, C \subseteq begun PROVE C \in SUBSET Call /\ IsFiniteSet(C)
  <2>1. C \in SUBSET Open(core)
        BY <1>6, <1>7
  <2>2. QED  BY <1>4, <2>1, FS_Subset
<1>8. QED  BY <1>1, <1>2, <1>3, <1>4, <1>5, <1>6, <1>7

LEMMA SameBatch ==
    ASSUME UNCHANGED <<core, group>>
    PROVE  begun' = begun /\ served' = served
BY DEF begun, served, CallsOf

\* One call is answered or approved: it is the first of those that are left.
LEMMA OneCall ==
    ASSUME TypesOK, GoingOn, phase \in {"approve", "ask"}, todo # <<>>,
           phase' = "approve", todo' = Tail(todo),
           \/ /\ outcomes' = Append(outcomes, Answered(Head(todo), "error"))
              /\ approved' = approved
           \/ approved' = approved \cup {Head(todo)} /\ outcomes' = outcomes,
           UNCHANGED <<loopInput, core, driver, asked, group, results, operations, cancelled,
                       queue, emitted, ended, saved, ran, injected, stale>>
    PROVE  RunInv'
<1>1. phase \in Batch /\ phase' \in Batch
      BY DEF Batch
<1>2. /\ core[Len(core)].kind = "calls" /\ begun \subseteq Open(core) /\ served \subseteq begun
      /\ \A C : C \subseteq begun => C \in SUBSET Call /\ IsFiniteSet(C)
      BY <1>1, InBatch
<1>3. /\ group \in {"local", "dynamic"}
      /\ Results(outcomes) /\ Distinct(outcomes) /\ Uninterrupted(outcomes)
      /\ approved \subseteq served /\ results = {}
      /\ ran \subseteq Materialized(core) \cup Materialized(outcomes)
      /\ todo \in Seq(served) /\ Different(todo)
      /\ ToSet(todo) \cap (approved \cup Materialized(outcomes)) = {}
      /\ ToSet(todo) \cup approved \cup Materialized(outcomes) = begun
      BY <1>1 DEF GoingOn, BatchInv
<1> DEFINE c == Head(todo)
           t == Tail(todo)
<1>4. /\ c \in served /\ t \in Seq(served) /\ Different(t)
      /\ ToSet(todo) = {c} \cup ToSet(t) /\ c \notin ToSet(t)
      BY <1>3, HeadAndTail
<1>5. todo' = t
      OBVIOUS
<1> HIDE DEF t
<1>6. begun' = begun /\ served' = served
      BY SameBatch
<1>7. CASE outcomes' = Append(outcomes, Answered(c, "error")) /\ approved' = approved
  <2> DEFINE x == Answered(c, "error")
             o == <<x>>
  <2>1. c \in Call
        BY <1>2, <1>4
  <2>2. x \in Message /\ x.kind = "result" /\ x.of = {c} /\ x.what = "error"
        BY <2>1, Made
  <2> HIDE DEF x
  <2>3. Results(o) /\ Distinct(o) /\ Uninterrupted(o)
        BY <2>2 DEF Results, Distinct, Uninterrupted
  <2>4. Materialized(o) = {c}
        BY <2>2 DEF Materialized
  <2>5. outcomes' = outcomes \o o
        BY <1>3, <1>7, <2>2 DEF Results, x
  <2> HIDE DEF o
  <2>6. Materialized(outcomes) \cap Materialized(o) = {}
        BY <1>3, <1>4, <2>4
  <2>7. /\ Results(outcomes') /\ Distinct(outcomes') /\ Uninterrupted(outcomes')
        /\ Materialized(outcomes') = Materialized(outcomes) \cup {c}
        BY <1>3, <2>3, <2>4, <2>5, <2>6, ResultsJoined
  <2>8. /\ ToSet(t) \cap (approved \cup Materialized(outcomes')) = {}
        /\ ToSet(t) \cup approved \cup Materialized(outcomes') = begun
        /\ ran \subseteq Materialized(core) \cup Materialized(outcomes')
        /\ approved \cap Materialized(outcomes') = {}
    <3>1. approved \cap Materialized(outcomes) = {}
          BY <1>1 DEF GoingOn, BatchInv
    <3>2. QED  BY <1>3, <1>4, <2>7, <3>1
  <2>9. BatchInv'
        BY <1>2, <1>3, <1>4, <1>5, <1>6, <1>7, <2>7, <2>8 DEF BatchInv
  <2>10. operations' \in Nat
        BY DEF TypesOK
  <2>11. QED  BY <1>1, <2>9, <2>10, Serves
<1>8. CASE approved' = approved \cup {c} /\ outcomes' = outcomes
  <2>1. /\ ToSet(t) \cap (approved' \cup Materialized(outcomes)) = {}
        /\ ToSet(t) \cup approved' \cup Materialized(outcomes) = begun
        /\ approved' \subseteq served /\ approved' \cap Materialized(outcomes) = {}
    <3>1. approved \cap Materialized(outcomes) = {}
          BY <1>1 DEF GoingOn, BatchInv
    <3>2. QED  BY <1>3, <1>4, <1>8, <3>1
  <2>2. BatchInv'
        BY <1>2, <1>3, <1>4, <1>5, <1>6, <1>8, <2>1 DEF BatchInv
  <2>3. operations' \in Nat
        BY DEF TypesOK
  <2>4. QED  BY <1>1, <2>2, <2>3, Serves
<1>9. QED  BY <1>7, <1>8

LEMMA ApprovalSteps ==
    ASSUME TypesOK, GoingOn, HookBlocks \/ ToolApproved \/ PersonAllows
    PROVE  RunInv'
<1>1. CASE HookBlocks
      BY <1>1, OneCall DEF HookBlocks
<1>2. CASE ToolApproved
      BY <1>2, OneCall DEF ToolApproved
<1>3. CASE PersonAllows
  <2>1. phase = "ask" /\ phase \in Batch
        BY <1>3 DEF PersonAllows, Batch
  <2>2. todo # <<>>
        BY <2>1 DEF GoingOn, BatchInv
  <2>3. QED  BY <1>3, <2>1, <2>2, OneCall DEF PersonAllows
<1>4. QED  BY <1>1, <1>2, <1>3

LEMMA AskPersonStep ==
    ASSUME TypesOK, GoingOn, AskPerson
    PROVE  RunInv'
<1>1. /\ phase = "approve" /\ todo # <<>> /\ phase' = "ask"
      /\ UNCHANGED <<loopInput, core, driver, asked, batch, cancelled, queue, emitted, ended,
                     saved, ran, injected, stale>>
      BY DEF AskPerson
<1>2. phase \in Batch /\ phase' \in Batch
      BY <1>1 DEF Batch
<1>3. begun' = begun /\ served' = served
      BY <1>1, SameBatch DEF batch
<1>4. BatchInv'
      BY <1>1, <1>2, <1>3 DEF GoingOn, BatchInv, batch
<1>5. operations' \in Nat
      BY <1>1 DEF TypesOK, batch
<1>6. QED  BY <1>1, <1>2, <1>4, <1>5, Serves

LEMMA ExecuteToolsStep ==
    ASSUME TypesOK, GoingOn, ExecuteTools
    PROVE  RunInv'
<1>1. /\ phase = "approve" /\ todo = <<>> /\ phase' = (IF served = {} THEN "settled" ELSE "execute")
      /\ UNCHANGED <<loopInput, core, driver, asked, batch, cancelled, queue, emitted, ended,
                     saved, ran, injected, stale>>
      BY DEF ExecuteTools, served
<1>2. phase \in Batch /\ phase' \in Batch
      BY <1>1 DEF Batch
<1>3. begun' = begun /\ served' = served
      BY <1>1, SameBatch DEF batch
<1>4. /\ core[Len(core)].kind = "calls" /\ group \in {"local", "dynamic"}
      /\ Results(outcomes) /\ Distinct(outcomes) /\ Uninterrupted(outcomes)
      /\ results \subseteq approved /\ approved \subseteq served
      /\ ran \subseteq Materialized(core) \cup Materialized(outcomes) \cup results
      /\ approved \cap Materialized(outcomes) = {}
      /\ ToSet(todo) \cup approved \cup Materialized(outcomes) = begun
      BY <1>1, <1>2 DEF GoingOn, BatchInv
<1>5. ToSet(todo) = {}
      BY <1>1 DEF ToSet
<1>6. approved \cup Materialized(outcomes) = begun
      BY <1>4, <1>5
<1>7. UNCHANGED <<core, group, outcomes, approved, results, ran, operations>>
      BY <1>1 DEF batch
<1>8. phase' \in {"settled", "execute"} /\ (phase' = "settled" => Materialized(outcomes) = begun)
      BY <1>1, <1>4, <1>6
<1>9. BatchInv'
      BY <1>3, <1>4, <1>6, <1>7, <1>8 DEF BatchInv
<1>10. operations' \in Nat
      BY <1>7 DEF TypesOK
<1>11. QED  BY <1>1, <1>2, <1>9, <1>10, Serves

LEMMA ToolReturnsStep ==
    ASSUME TypesOK, GoingOn, NEW c \in approved, NEW operates \in BOOLEAN, ToolReturns(c, operates)
    PROVE  RunInv'
<1>1. /\ phase = "execute" /\ phase' \in {"execute", "refused"}
      /\ results' = results \cup {c} /\ ran' = ran \cup {c}
      /\ operations' = (IF operates THEN operations + 1 ELSE operations)
      /\ UNCHANGED <<loopInput, core, driver, asked, group, todo, approved, outcomes, cancelled,
                     queue, emitted, injected, stale>>
      BY DEF ToolReturns
<1>2. phase \in Batch /\ phase' \in Batch
      BY <1>1 DEF Batch
<1>3. begun' = begun /\ served' = served
      BY <1>1, SameBatch
<1>4. /\ core[Len(core)].kind = "calls" /\ group \in {"local", "dynamic"}
      /\ Results(outcomes) /\ Distinct(outcomes) /\ Uninterrupted(outcomes)
      /\ results \subseteq approved /\ approved \subseteq served
      /\ ran \subseteq Materialized(core) \cup Materialized(outcomes) \cup results
      /\ approved \cap Materialized(outcomes) = {}
      /\ approved \cup Materialized(outcomes) = begun
      BY <1>1, <1>2 DEF GoingOn, BatchInv
<1>5. results' \subseteq approved /\ ran' \subseteq Materialized(core) \cup Materialized(outcomes) \cup results'
      BY <1>1, <1>4
<1>6. BatchInv'
      BY <1>1, <1>3, <1>4, <1>5 DEF BatchInv
<1>7. c \in Open(core)
      BY <1>2, <1>4, InBatch
<1>8. ran \subseteq ran' /\ ran' \subseteq ran \cup Open(core)
      BY <1>1, <1>7
<1>9. operations' \in Nat
      BY <1>1 DEF TypesOK
<1>10. QED  BY <1>1, <1>2, <1>6, <1>8, <1>9, Serves

\* The results of the tools that have run to their end, with those of the batch so far.
LEMMA PushedFacts ==
    ASSUME TypesOK, GoingOn, phase = "execute"
    PROVE  /\ Results(Pushed) /\ Distinct(Pushed) /\ Uninterrupted(Pushed)
           /\ Materialized(Pushed) = Materialized(outcomes) \cup results
<1> DEFINE C == results \ Materialized(outcomes)
           r == Answers(C, "ok")
<1>1. phase \in Batch
      BY DEF Batch
<1>2. /\ Results(outcomes) /\ Distinct(outcomes) /\ Uninterrupted(outcomes)
      /\ results \subseteq approved /\ approved \subseteq served
      BY <1>1 DEF GoingOn, BatchInv
<1>3. C \in SUBSET Call /\ IsFiniteSet(C)
  <2>1. C \subseteq begun
        BY <1>1, <1>2, InBatch
  <2>2. QED  BY <1>1, <2>1, InBatch
<1> HIDE DEF C
<1>4. /\ Results(r) /\ Distinct(r) /\ Materialized(r) = C
      /\ \A i \in 1..Len(r) : r[i].what = "ok"
      BY <1>3, AnswersFacts
<1> HIDE DEF r
<1>5. Uninterrupted(r)
      BY <1>4 DEF Uninterrupted
<1>6. Materialized(outcomes) \cap Materialized(r) = {}
      BY <1>4 DEF C
<1>7. Pushed = outcomes \o r
      BY DEF Pushed, r, C
<1>8. Materialized(outcomes) \cup C = Materialized(outcomes) \cup results
      BY DEF C
<1>9. QED  BY <1>2, <1>4, <1>5, <1>6, <1>7, <1>8, ResultsJoined

LEMMA GroupReturnsStep ==
    ASSUME TypesOK, GoingOn, GroupReturns
    PROVE  RunInv'
<1>1. /\ phase = "execute" /\ phase' = "settled" /\ results = approved /\ outcomes' = Pushed
      /\ UNCHANGED <<loopInput, core, driver, asked, group, todo, approved, results, operations,
                     cancelled, queue, emitted, ran, injected, stale>>
      BY DEF GroupReturns
<1>2. phase \in Batch /\ phase' \in Batch
      BY <1>1 DEF Batch
<1>3. begun' = begun /\ served' = served
      BY <1>1, SameBatch
<1>4. /\ core[Len(core)].kind = "calls" /\ group \in {"local", "dynamic"}
      /\ approved \subseteq served
      /\ ran \subseteq Materialized(core) \cup Materialized(outcomes) \cup results
      /\ approved \cup Materialized(outcomes) = begun
      BY <1>1, <1>2 DEF GoingOn, BatchInv
<1>5. /\ Results(outcomes') /\ Distinct(outcomes') /\ Uninterrupted(outcomes')
      /\ Materialized(outcomes') = Materialized(outcomes) \cup results
      BY <1>1, PushedFacts
<1>6. /\ Materialized(outcomes') = begun
      /\ ran \subseteq Materialized(core) \cup Materialized(outcomes')
      BY <1>1, <1>4, <1>5
<1>7. BatchInv'
      BY <1>1, <1>3, <1>4, <1>5, <1>6 DEF BatchInv
<1>8. operations' \in Nat
      BY <1>1 DEF TypesOK
<1>9. QED  BY <1>1, <1>2, <1>7, <1>8, Serves

LEMMA ToolDispatchStep ==
    ASSUME TypesOK, GoingOn, ToolDispatch
    PROVE  RunInv'
<1> DEFINE C == CallsOf(LocalTool)
           s == SetToSeq(C)
           none == <<>>
<1>1. /\ phase = "stream" /\ phase' = "approve" /\ Last(core).kind = "calls"
      /\ group' = "local" /\ todo' = s /\ approved' = {} /\ results' = {}
      /\ outcomes' = none /\ operations' = 0
      /\ UNCHANGED <<loopInput, core, checkpoint, fresh, asked, cancelled, queue, emitted, ran,
                     injected, stale>>
      BY DEF ToolDispatch, Begin, driver
<1>2. /\ whole = core /\ Tidy(core, asked) /\ core # <<>> /\ asked \in Nat
      /\ Last(core) = core[Len(core)] /\ ran \subseteq Materialized(core)
      BY <1>1, Streaming
<1>3. LocalTool \in SUBSET Tool
      BY DEF Tool
<1>4. s \in Seq(C) /\ Different(s) /\ ToSet(s) = C
      BY <1>1, <1>2, <1>3, CallsFacts
<1>5. begun' = C /\ served' = C
      BY <1>1 DEF begun, served, CallsOf
<1> HIDE DEF C, s
<1>6. /\ Results(none) /\ Distinct(none) /\ Uninterrupted(none) /\ Materialized(none) = {}
      BY DEF Results, Distinct, Uninterrupted, Materialized
<1> HIDE DEF none
<1>7. /\ {} \subseteq C /\ ToSet(s) \cap ({} \cup {}) = {} /\ ToSet(s) \cup {} \cup {} = C
      /\ ran \subseteq Materialized(core) \cup {} \cup {}
      BY <1>2, <1>4
<1>8. BatchInv'
      BY <1>1, <1>2, <1>4, <1>5, <1>6, <1>7 DEF BatchInv
<1>9. whole' = core /\ heard' = heard
      BY <1>1 DEF whole, heard
<1>10. TypesOK'
      BY <1>1 DEF TypesOK, Phases
<1>11. TalkInv'
      BY <1>1, <1>2, <1>9 DEF GoingOn, TalkInv, Batch
<1>12. CheckpointInv'
      BY <1>1, <1>2, <1>9 DEF GoingOn, CheckpointInv
<1>13. EmittedInv'
      BY <1>1, <1>2, <1>9 DEF GoingOn, EmittedInv
<1>14. GoingOn'
      BY <1>1, <1>8, <1>11, <1>12, <1>13 DEF GoingOn
<1>15. QED  BY <1>1, <1>10, <1>14, NotOver

\* The outcomes of a group that has been served are those of the calls up to it.
LEMMA Settled ==
    ASSUME TypesOK, GoingOn, phase = "settled"
    PROVE  /\ Results(outcomes) /\ Distinct(outcomes) /\ Uninterrupted(outcomes)
           /\ Materialized(outcomes) = begun
           /\ ran \subseteq Materialized(core) \cup Materialized(outcomes)
<1>1. phase \in Batch
      BY DEF Batch
<1>2. served \subseteq begun
      BY <1>1, InBatch
<1>3. /\ Results(outcomes) /\ Distinct(outcomes) /\ Uninterrupted(outcomes)
      /\ results \subseteq approved /\ approved \subseteq served
      /\ ran \subseteq Materialized(core) \cup Materialized(outcomes) \cup results
      /\ Materialized(outcomes) = begun
      BY <1>1 DEF GoingOn, BatchInv
<1>4. QED  BY <1>2, <1>3

LEMMA DynamicGroupStep ==
    ASSUME TypesOK, GoingOn, DynamicGroup
    PROVE  RunInv'
<1> DEFINE C == CallsOf(DynamicTool)
           s == SetToSeq(C)
<1>1. /\ phase = "settled" /\ phase' = "approve" /\ group = "local"
      /\ group' = "dynamic" /\ todo' = s /\ approved' = {} /\ results' = {}
      /\ UNCHANGED <<loopInput, core, driver, asked, outcomes, operations, cancelled, queue,
                     emitted, ran, injected, stale>>
      BY DEF DynamicGroup, Begin
<1>2. phase \in Batch /\ phase' \in Batch
      BY <1>1 DEF Batch
<1>3. /\ core[Len(core)].kind = "calls" /\ Tidy(core, asked) /\ core # <<>> /\ asked \in Nat
      /\ \A T \in SUBSET Tool : CallsOf(T) = {c \in Open(core) : c[2] \in T}
      BY <1>2, InBatch
<1>4. /\ DynamicTool \in SUBSET Tool /\ LocalTool \in SUBSET Tool
      /\ LocalTool \cup DynamicTool \in SUBSET Tool /\ LocalTool \cap DynamicTool = {}
      BY AgentRunAssumption DEF Tool
<1>5. s \in Seq(C) /\ Different(s) /\ ToSet(s) = C
      BY <1>3, <1>4, CallsFacts
<1>6. begun = CallsOf(LocalTool)
      BY <1>1 DEF begun
<1>7. begun' = CallsOf(LocalTool \cup DynamicTool) /\ served' = C
      BY <1>1 DEF begun, served, CallsOf
<1>8. begun \cap C = {} /\ begun \cup C = begun'
  <2>1. /\ begun = {c \in Open(core) : c[2] \in LocalTool}
        /\ C = {c \in Open(core) : c[2] \in DynamicTool}
        /\ begun' = {c \in Open(core) : c[2] \in LocalTool \cup DynamicTool}
        BY <1>3, <1>4, <1>6, <1>7
  <2> HIDE DEF C
  <2>2. QED  BY <1>4, <2>1
<1> HIDE DEF C, s
<1>9. /\ Results(outcomes) /\ Distinct(outcomes) /\ Uninterrupted(outcomes)
      /\ Materialized(outcomes) = begun
      /\ ran \subseteq Materialized(core) \cup Materialized(outcomes)
      BY <1>1, Settled
<1>10. /\ {} \subseteq C /\ ToSet(s) \cap ({} \cup begun) = {} /\ ToSet(s) \cup {} \cup begun = begun'
       /\ {} \cap begun = {}
      BY <1>5, <1>8
<1>11. BatchInv'
      BY <1>1, <1>3, <1>5, <1>7, <1>9, <1>10 DEF BatchInv
<1>12. operations' \in Nat
      BY <1>1 DEF TypesOK
<1>13. QED  BY <1>1, <1>2, <1>11, <1>12, Serves

\* A batch that is served has an answer to each of its calls.
LEMMA BatchAnswered ==
    ASSUME TypesOK, GoingOn, phase = "settled", group = "dynamic"
    PROVE  LET all == outcomes \o MissingErrors
               w == core \o all
           IN  /\ Results(all) /\ AppendResults(core, all) = w /\ w # <<>>
               /\ Sound(w, asked, ran) /\ Unanswered(w) = {} /\ Has(w, heard)
               /\ Materialized(core) \subseteq Materialized(w) /\ ran \subseteq Materialized(w)
               /\ Repaired(w) = w
<1> DEFINE M == CallsOf(MissingTool)
           r == Answers(M, "error")
           all == outcomes \o r
           w == core \o all
<1>1. phase \in Batch
      BY DEF Batch
<1>2. /\ Sound(core, asked, ran) /\ Tidy(core, asked) /\ Has(core, heard) /\ core # <<>>
      /\ asked \in Nat /\ Open(core) \subseteq Call /\ IsFiniteSet(Open(core))
      /\ \A T \in SUBSET Tool : CallsOf(T) = {c \in Open(core) : c[2] \in T}
      BY <1>1, InBatch
<1>3. /\ Results(outcomes) /\ Distinct(outcomes) /\ Uninterrupted(outcomes)
      /\ Materialized(outcomes) = begun
      /\ ran \subseteq Materialized(core) \cup Materialized(outcomes)
      BY Settled
<1>4. begun \cap M = {} /\ begun \cup M = Open(core)
  <2>1. begun = CallsOf(LocalTool \cup DynamicTool)
        BY DEF begun
  <2>2. /\ LocalTool \cup DynamicTool \in SUBSET Tool /\ MissingTool \in SUBSET Tool
        /\ (LocalTool \cup DynamicTool) \cap MissingTool = {}
        /\ Tool = (LocalTool \cup DynamicTool) \cup MissingTool
        BY AgentRunAssumption DEF Tool
  <2>3. /\ begun = {c \in Open(core) : c[2] \in LocalTool \cup DynamicTool}
        /\ M = {c \in Open(core) : c[2] \in MissingTool}
        BY <1>2, <2>1, <2>2
  <2>4. \A c \in Open(core) : c[2] \in Tool
        BY <1>2 DEF Call
  <2> HIDE DEF M
  <2>5. QED  BY <2>2, <2>3, <2>4
<1> HIDE DEF M
<1>5. M \in SUBSET Call /\ IsFiniteSet(M)
  <2>1. M \in SUBSET Open(core)
        BY <1>4
  <2>2. QED  BY <1>2, <2>1, FS_Subset
<1>6. /\ Results(r) /\ Distinct(r) /\ Materialized(r) = M
      /\ \A i \in 1..Len(r) : r[i].what = "error"
      BY <1>5, AnswersFacts
<1> HIDE DEF r
<1>7. Uninterrupted(r)
      BY <1>6 DEF Uninterrupted
<1>8. Materialized(outcomes) \cap Materialized(r) = {}
      BY <1>3, <1>4, <1>6
<1>9. /\ Results(all) /\ Distinct(all) /\ Uninterrupted(all)
      /\ Materialized(all) = Materialized(outcomes) \cup Materialized(r)
      BY <1>3, <1>6, <1>7, <1>8, ResultsJoined
<1>10. Materialized(all) = Open(core) /\ Materialized(all) \subseteq Open(core)
      BY <1>3, <1>4, <1>6, <1>9
<1> HIDE DEF all
<1>11. /\ AppendResults(core, all) = w /\ Tidy(w, asked) /\ w # <<>>
       /\ Materialized(w) = Materialized(core) \cup Materialized(all)
       /\ Called(w) = Called(core) /\ Has(w, heard)
      BY <1>2, <1>9, <1>10, AnsweredFacts
<1>12. Honest(w, ran)
  <2>1. Honest(all, ran)
        BY <1>9 DEF Honest, Uninterrupted
  <2>2. core \in Seq(Message) /\ all \in Seq(Message) /\ Honest(core, ran)
        BY <1>2, <1>9 DEF Tidy, Sound, Results
  <2>3. QED  BY <2>1, <2>2, HonestJoined
<1> HIDE DEF w
<1>13. Unanswered(w) = {}
  <2>1. Unanswered(core) \subseteq Open(core)
        BY <1>2 DEF Sound
  <2>2. QED  BY <1>10, <1>11, <2>1 DEF Unanswered
<1>14. Sound(w, asked, ran)
      BY <1>11, <1>12, <1>13 DEF Sound
<1>15. Materialized(core) \subseteq Materialized(w) /\ ran \subseteq Materialized(w)
      BY <1>3, <1>4, <1>6, <1>9, <1>11
<1>16. Repaired(w) = w
      BY <1>2, <1>11, <1>13, Completed
<1>17. outcomes \o MissingErrors = all
      BY DEF MissingErrors, all, r, M
<1>18. core \o (outcomes \o MissingErrors) = w
      BY <1>17 DEF w
<1>19. QED  BY <1>9, <1>11, <1>13, <1>14, <1>15, <1>16, <1>17, <1>18, Zenon

LEMMA EndBatchStep ==
    ASSUME TypesOK, GoingOn, EndBatch
    PROVE  RunInv'
<1> DEFINE all == outcomes \o MissingErrors
           w == core \o all
<1>1. /\ phase = "settled" /\ group = "dynamic" /\ operations' = 0
      /\ UNCHANGED <<checkpoint, fresh, asked, cancelled, ran>>
      /\ \/ queue # <<>> /\ Inject(Repaired(AppendResults(core, all)))
         \/ Resume(core, all)
      BY DEF EndBatch, NoCalls, driver
<1>2. /\ Results(all) /\ AppendResults(core, all) = w /\ w # <<>>
      /\ Sound(w, asked, ran) /\ Unanswered(w) = {} /\ Has(w, heard)
      /\ Materialized(core) \subseteq Materialized(w) /\ ran \subseteq Materialized(w)
      /\ Repaired(w) = w
      BY <1>1, BatchAnswered
<1> HIDE DEF all
<1>3. phase \in Batch
      BY <1>1 DEF Batch
<1>4. /\ whole = core /\ Tidy(core, asked) /\ phase # "over"
      BY <1>3, InBatch
<1>5. /\ Sound(checkpoint, asked, ran) /\ Materialized(checkpoint) \subseteq Materialized(w)
      BY <1>2, <1>4 DEF GoingOn, CheckpointInv
<1>6. CASE queue # <<>> /\ Inject(Repaired(AppendResults(core, all)))
  <2>1. Inject(w) /\ queue # <<>>
        BY <1>2, <1>6
  <2> HIDE DEF w
  <2>2. Tidy(w, asked) /\ Unanswered(w) \subseteq Open(w) /\ Honest(w, ran)
        BY <1>2 DEF Sound
  <2>3. /\ Sound(checkpoint', asked, ran) /\ Materialized(checkpoint') \subseteq Materialized(w)
        /\ fresh' \in BOOLEAN /\ operations' \in Nat /\ UNCHANGED <<asked, cancelled, ran>>
        BY <1>1, <1>5 DEF TypesOK
  <2>4. QED  BY <1>2, <1>4, <2>1, <2>2, <2>3, Injects
<1>7. CASE Resume(core, all)
  <2>1. /\ phase' = "chat" /\ loopInput'.messages = core /\ loopInput'.results = all
        /\ UNCHANGED <<queue, injected, emitted, stale>>
        BY <1>7 DEF Resume
  <2>2. whole' = w /\ heard' = heard
        BY <2>1 DEF whole, heard
  <2> HIDE DEF w
  <2>3. TypesOK'
        BY <1>1, <2>1 DEF TypesOK, Phases
  <2>4. core \in Seq(Message)
        BY <1>4 DEF Tidy
  <2>5. TalkInv'
        BY <1>1, <1>2, <2>1, <2>2, <2>4 DEF TalkInv
  <2>6. CheckpointInv'
        BY <1>1, <1>5, <2>1, <2>2 DEF CheckpointInv
  <2>7. EmittedInv'
        BY <1>1, <1>2, <1>4, <2>1, <2>2 DEF GoingOn, EmittedInv
  <2>8. BatchInv'
        BY <2>1 DEF BatchInv, Batch
  <2>9. GoingOn'
        BY <2>1, <2>5, <2>6, <2>7, <2>8 DEF GoingOn
  <2>10. QED  BY <1>4, <2>1, <2>3, <2>9, NotOver
<1>8. QED  BY <1>1, <1>6, <1>7

\* The tools that run are cancelled: their calls are answered as interrupted, those
\* of the groups that were not begun are not answered.
LEMMA ExecutionCancelledStep ==
    ASSUME TypesOK, GoingOn, ExecutionCancelled
    PROVE  RunInv'
<1> DEFINE p == Pushed
           I == approved \ (Materialized(core) \cup Materialized(p))
           r == Answers(I, "interrupted")
           all == p \o r
           m == core \o all
<1>1. /\ phase = "execute" /\ stale' = FALSE
      /\ End("cancelled", CompleteInterrupted(core, p, approved))
      BY DEF ExecutionCancelled
<1>2. phase \in Batch
      BY <1>1 DEF Batch
<1>3. /\ Sound(core, asked, ran) /\ Tidy(core, asked) /\ Has(core, heard) /\ core # <<>>
      /\ asked \in Nat /\ Open(core) \cap Materialized(core) = {} /\ Open(core) \subseteq Call
      /\ \A T \in SUBSET Tool : CallsOf(T) = {c \in Open(core) : c[2] \in T}
      /\ begun \subseteq Open(core) /\ served \subseteq begun
      /\ \A C : C \subseteq begun => C \in SUBSET Call /\ IsFiniteSet(C)
      BY <1>2, InBatch
<1>4. /\ results \subseteq approved /\ approved \subseteq served /\ group \in {"local", "dynamic"}
      /\ ran \subseteq Materialized(core) \cup Materialized(outcomes) \cup results
      /\ approved \cup Materialized(outcomes) = begun
      BY <1>1, <1>2 DEF GoingOn, BatchInv
<1>5. /\ Results(p) /\ Distinct(p) /\ Uninterrupted(p)
      /\ Materialized(p) = Materialized(outcomes) \cup results
      BY <1>1, PushedFacts
<1> HIDE DEF p
<1>6. I \in SUBSET Call /\ IsFiniteSet(I)
  <2>1. I \subseteq begun
        BY <1>3, <1>4
  <2>2. QED  BY <1>3, <2>1
<1>7. I \cap Materialized(p) = {} /\ I \cup Materialized(p) = begun /\ I \cap ran = {}
      /\ ran \subseteq Materialized(core) \cup Materialized(p)
      BY <1>3, <1>4, <1>5
<1> HIDE DEF I
<1>8. /\ Results(r) /\ Distinct(r) /\ Materialized(r) = I
      /\ \A i \in 1..Len(r) : \E c \in I : r[i].of = {c}
      BY <1>6, AnswersFacts
<1> HIDE DEF r
<1>9. Materialized(p) \cap Materialized(r) = {}
      BY <1>7, <1>8
<1>10. /\ Results(all) /\ Distinct(all) /\ Materialized(all) = Materialized(p) \cup Materialized(r)
      BY <1>5, <1>8, <1>9, ResultsJoined
<1>11. Materialized(all) = begun /\ Materialized(all) \subseteq Open(core)
      BY <1>3, <1>7, <1>8, <1>10
<1>12. core \in Seq(Message) /\ p \in Seq(Message) /\ r \in Seq(Message)
      BY <1>3, <1>5, <1>8 DEF Tidy, Results
<1>13. Honest(all, ran)
  <2>1. Honest(p, ran)
        BY <1>5 DEF Honest, Uninterrupted
  <2>2. Honest(r, ran)
        BY <1>7, <1>8 DEF Honest
  <2>3. QED  BY <1>12, <2>1, <2>2, HonestJoined
<1>14. m = (core \o p) \o r
      BY <1>12, SMTT(30)
<1>15. AppendResults(core, p) = core \o p
  <2>1. Materialized(p) \subseteq Open(core)
        BY <1>3, <1>7
  <2>2. QED  BY <1>3, <1>5, <2>1, AnsweredFacts
<1>16. CompleteInterrupted(core, p, approved) = m
      BY <1>14, <1>15 DEF CompleteInterrupted, r, I
<1> HIDE DEF all
<1>17. /\ Tidy(m, asked) /\ m # <<>>
       /\ Materialized(m) = Materialized(core) \cup begun
       /\ Called(m) = Called(core) /\ Has(m, heard)
      BY <1>3, <1>10, <1>11, AnsweredFacts
<1>18. Honest(m, ran)
  <2>1. all \in Seq(Message) /\ Honest(core, ran)
        BY <1>3, <1>10 DEF Sound, Results
  <2>2. QED  BY <1>12, <1>13, <2>1, HonestJoined
<1> HIDE DEF m
<1>19. ran \subseteq Materialized(m)
      BY <1>7, <1>17
<1>20. ASSUME NEW c \in Unanswered(m) PROVE c[2] \in NotBegun'
  <2>1. c \in Open(core) /\ c \notin begun /\ c[2] \in Tool
    <3>1. c \in Unanswered(core) /\ c \notin begun
          BY <1>17, <1>20 DEF Unanswered
    <3>2. c \in Open(core)
          BY <1>3, <3>1 DEF Sound
    <3>3. QED  BY <1>3, <3>1, <3>2 DEF Call
  <2>2. ended' = "cancelled" /\ group' = group
        BY <1>1 DEF End
  <2>3. CASE group = "local"
    <3>1. begun = {d \in Open(core) : d[2] \in LocalTool}
          BY <1>3, <2>3 DEF begun, Tool
    <3>2. c[2] \in DynamicTool \cup MissingTool
          BY <2>1, <3>1 DEF Tool
    <3>3. QED  BY <2>2, <2>3, <3>2 DEF NotBegun
  <2>4. CASE group = "dynamic"
    <3>1. begun = {d \in Open(core) : d[2] \in LocalTool \cup DynamicTool}
          BY <1>3, <2>4 DEF begun, Tool
    <3>2. c[2] \in MissingTool
          BY <2>1, <3>1 DEF Tool
    <3>3. QED  BY <2>2, <2>4, <3>2 DEF NotBegun
  <2>5. QED  BY <1>4, <2>3, <2>4
<1>21. stale' \in BOOLEAN /\ End("cancelled", m)
      BY <1>1, <1>16
<1>22. QED  BY <1>17, <1>18, <1>19, <1>20, <1>21, EndsSaved
-----------------------------------------------------------------------------
(* The run. *)

\* Every step of a run that goes on keeps what its conversations promise.
LEMMA RunStep ==
    ASSUME RunInv, [AgentRunNext]_agentRunVars
    PROVE  RunInv'
<1>1. CASE CancelRun \/ (\E s \in Steer : QueueSteer(s)) \/ UNCHANGED agentRunVars
      BY <1>1, EnvironmentSteps
<1>2. CASE ~ (CancelRun \/ (\E s \in Steer : QueueSteer(s)) \/ UNCHANGED agentRunVars)
  <2>1. \/ AskFails \/ CoreFails \/ DispatchFails \/ ToolDenied \/ PersonDenies
        \/ ApprovalCancelled \/ SideDenied \/ OperationFails
        \/ CancelSeen \/ CoreCancelled
        \/ AskCore \/ CoreSpeaks \/ TextArrives \/ CheckpointArrives \/ CoreDone
        \/ HookBlocks \/ ToolApproved \/ PersonAllows \/ AskPerson \/ ExecuteTools
        \/ (\E c \in approved, operates \in BOOLEAN : ToolReturns(c, operates))
        \/ ExecutionCancelled \/ GroupReturns \/ ToolDispatch \/ DynamicGroup \/ EndBatch
        BY <1>2 DEF AgentRunNext
  <2>2. TypesOK /\ GoingOn
    <3>1. phase # "over"
          BY <2>1 DEF AskFails, CoreFails, DispatchFails, ToolDenied, PersonDenies,
             ApprovalCancelled, SideDenied, OperationFails, CancelSeen, CoreCancelled, AskCore,
             CoreSpeaks, TextArrives, CheckpointArrives, CoreDone, HookBlocks, ToolApproved,
             PersonAllows, AskPerson, ExecuteTools, ToolReturns, ExecutionCancelled,
             GroupReturns, ToolDispatch, DynamicGroup, EndBatch
    <3>2. QED  BY <3>1 DEF RunInv
  <2>3. CASE CancelSeen
    <3>1. CASE checkpoint = <<>>
          BY <2>2, <2>3, <3>1, FailSteps
    <3>2. CASE checkpoint # <<>>
          BY <2>2, <2>3, <3>2, CancelSteps
    <3>3. QED  BY <3>1, <3>2
  <2>4. CASE \/ AskFails \/ CoreFails \/ DispatchFails \/ ToolDenied \/ PersonDenies
             \/ ApprovalCancelled \/ SideDenied \/ OperationFails
        BY <2>2, <2>4, FailSteps
  <2>5. CASE CoreCancelled
        BY <2>2, <2>5, CancelSteps
  <2>6. CASE AskCore \/ CoreSpeaks \/ TextArrives \/ CheckpointArrives \/ CoreDone
        BY <2>2, <2>6, AskCoreStep, CoreSpeaksStep, TextArrivesStep, CheckpointArrivesStep,
           CoreDoneStep
  <2>7. CASE HookBlocks \/ ToolApproved \/ PersonAllows \/ AskPerson \/ ExecuteTools
        BY <2>2, <2>7, ApprovalSteps, AskPersonStep, ExecuteToolsStep
  <2>8. ASSUME NEW c \in approved, NEW operates \in BOOLEAN, ToolReturns(c, operates)
        PROVE  RunInv'
        BY <2>2, <2>8, ToolReturnsStep
  <2>9. CASE ExecutionCancelled \/ GroupReturns \/ ToolDispatch \/ DynamicGroup \/ EndBatch
        BY <2>2, <2>9, ExecutionCancelledStep, GroupReturnsStep, ToolDispatchStep,
           DynamicGroupStep, EndBatchStep
  <2>10. QED  BY <2>1, <2>3, <2>4, <2>5, <2>6, <2>7, <2>8, <2>9
<1>3. QED  BY <1>1, <1>2

\* In every state of a run the conversation in progress, the checkpoint, the last
\* report and the batch are in step, and so is what is saved at its end.
THEOREM RunIsSound == AgentRunSpec => []RunInv
<1>1. AgentRunInit => RunInv
      BY InitStep
<1>2. RunInv /\ [AgentRunNext]_agentRunVars => RunInv'
      BY RunStep
<1>3. QED  BY <1>1, <1>2, PTL DEF AgentRunSpec

\* The core is only asked with a conversation in which every call that was made
\* has exactly one result, in its place (chat() of drive_agent_loop): whatever was
\* blocked, denied, missing or cut off by a steer.
THEOREM InputIsComplete == AgentRunSpec => []CompleteInput
<1>1. RunInv => CompleteInput
  <2>1. SUFFICES ASSUME RunInv, phase = "chat"
                 PROVE  /\ Unanswered(AppendResults(loopInput.messages, loopInput.results)) = {}
                        /\ InPlace(AppendResults(loopInput.messages, loopInput.results))
        BY DEF CompleteInput
  <2>2. TypesOK /\ GoingOn
        BY <2>1 DEF RunInv
  <2>3. AppendResults(loopInput.messages, loopInput.results) = whole
        BY <2>1, <2>2, InputIsWhole
  <2>4. Unanswered(whole) = {} /\ Sound(whole, asked, ran)
        BY <2>1, <2>2 DEF GoingOn, TalkInv
  <2>5. QED  BY <2>3, <2>4 DEF Sound, Tidy
<1>2. QED  BY <1>1, RunIsSound, PTL

\* What persist_turn saves has a result in its place for every call, but for those
\* of the groups that a cancelled batch had not come to.
THEOREM SavedHistoryIsComplete == AgentRunSpec => []SavedIsComplete
<1>1. RunInv => SavedIsComplete
      BY DEF RunInv
<1>2. QED  BY <1>1, RunIsSound, PTL

\* complete_interrupted_tool_results and complete_pending_tool_calls_in_state do not
\* call a tool interrupted that has run to its end, unless the checkpoint that they
\* complete is of an earlier question.
THEOREM NothingSaidFalsely == AgentRunSpec => []NoFalseInterruption
<1>1. RunInv => NoFalseInterruption
      BY DEF RunInv
<1>2. QED  BY <1>1, RunIsSound, PTL

\* A tool that has run leaves its result in what is saved, or its call in the note
\* of the partial turn recorder, unless the run was denied, took a steer, or was
\* cancelled with the checkpoint of an earlier question.
THEOREM EveryRunLeavesTrace == AgentRunSpec => []LeavesTrace
<1>1. RunInv => LeavesTrace
      BY DEF RunInv
<1>2. QED  BY <1>1, RunIsSound, PTL

\* The message of the turn and each steer that the run took from the queue are in
\* what is saved, unless the run was denied before it took one, or was cancelled
\* with the checkpoint of an earlier question.
THEOREM UsersAreSaved == AgentRunSpec => []SaidIsSaved
<1>1. RunInv => SaidIsSaved
      BY DEF RunInv
<1>2. QED  BY <1>1, RunIsSound, PTL
=============================================================================
