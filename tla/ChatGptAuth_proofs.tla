------------------------- MODULE ChatGptAuth_proofs -------------------------
(***************************************************************************)
(* What the stored credentials promise, for any number of callers,         *)
(* accounts, registrations and tokens.                                     *)
(***************************************************************************)
EXTENDS ChatGptAuth, TLAPS

Section == {"code", "signed", "refresh", "refreshed", "revoked"}
Login == {"browser", "code", "signed"}

\* A caller in a section holds the lock, and a copy of the record that is not
\* older than it.  A login that is not overtaken is of the same generation, and
\* within one generation nobody signs in or out.
CallerInv(c) ==
    /\ step[c] \in Section => holder = c
    /\ step[c] \in {"refresh", "refreshed", "revoked"} => attempt[c] = record
    /\ step[c] \in {"refresh", "refreshed"} => SignedIn
    /\ step[c] \in Login => attempt[c].generation <= record.generation
    /\ step[c] \in Login /\ attempt[c].generation = record.generation =>
          /\ begunAt[c] = logouts
          /\ replaces[c] => ~SignedIn
          /\ ~replaces[c] => attempt[c].subject = record.subject
    /\ step[c] \in {"code", "signed"} =>
          attempt[c].generation = record.generation /\ attempt[c].client \in Registration
    /\ step[c] \in {"signed", "refreshed"} => reply[c].number \in accepted
    /\ step[c] = "signed" => reply[c].client = attempt[c].client /\ reply[c].subject \in Account
    /\ step[c] = "refreshed" =>
          reply[c].client = record.client /\ reply[c].subject = record.subject

\* Tokens are stored with the registration and the account they are of, and are
\* accepted unless a caller has just been sent their successor.
StoredInv ==
    SignedIn =>
        /\ record.refresh.number \in 1..issued
        /\ record.client \in Registration /\ record.refresh.client = record.client
        /\ record.subject \in Account /\ record.refresh.subject = record.subject
        /\ session = logouts
        /\ (\A c \in Caller : step[c] # "refreshed") => record.refresh.number \in accepted \cup lost

TypeInv ==
    /\ record \in Record /\ expired \in BOOLEAN
    /\ holder \in Caller \cup {Unset}
    /\ step \in [Caller -> {"idle", "browser"} \cup Section]
    /\ attempt \in [Caller -> Record] /\ replaces \in [Caller -> BOOLEAN]
    /\ reply \in [Caller -> Token]
    /\ issued \in 0..MaxTokens /\ accepted \subseteq 1..issued /\ lost \subseteq 1..issued
    /\ logouts \in Nat /\ begunAt \in [Caller -> Nat] /\ session \in Nat

AuthInv == TypeInv /\ StoredInv /\ \A c \in Caller : CallerInv(c)
-----------------------------------------------------------------------------
LEMMA Empty ==
    /\ NoToken \in Token /\ EmptyRecord \in Record
    /\ EmptyRecord.refresh = NoToken /\ EmptyRecord.generation = 0
BY ChatGptAuthAssumption DEF NoToken, Token, EmptyRecord, Record

LEMMA AppliedFields ==
    ASSUME NEW r \in Record, NEW t \in Token, NEW direct \in BOOLEAN
    PROVE  /\ Applied(r, t, direct) \in Record
           /\ Applied(r, t, direct).refresh = t
           /\ Applied(r, t, direct).client = r.client
           /\ Applied(r, t, direct).subject = r.subject
           /\ Applied(r, t, direct).generation = r.generation + 1
<1> DEFINE r1 == [r EXCEPT !.refresh = t]
<1> DEFINE r2 == [r1 EXCEPT !.direct = direct]
<1> DEFINE r3 == [r2 EXCEPT !.needsLogin = FALSE]
<1>1. r1 \in Record /\ r.generation + 1 \in Nat
      BY DEF Record
<1> HIDE DEF r1
<1>2. r2 \in Record
      BY <1>1 DEF Record
<1> HIDE DEF r2
<1>3. r3 \in Record
      BY <1>2 DEF Record
<1> HIDE DEF r3
<1>4. [r3 EXCEPT !.generation = r.generation + 1] \in Record
      BY <1>1, <1>3 DEF Record
<1>5. Applied(r, t, direct) \in Record
      BY <1>4 DEF Applied, r1, r2, r3
<1>6. /\ Applied(r, t, direct).refresh = t
      /\ Applied(r, t, direct).client = r.client
      /\ Applied(r, t, direct).subject = r.subject
      /\ Applied(r, t, direct).generation = r.generation + 1
      BY DEF Applied, Record
<1>7. QED  BY <1>5, <1>6

LEMMA ClearedFields ==
    ASSUME NEW r \in Record
    PROVE  /\ Cleared(r) \in Record
           /\ Cleared(r).refresh = NoToken
           /\ Cleared(r).client = r.client
           /\ Cleared(r).subject = r.subject
           /\ Cleared(r).generation = r.generation + 1
<1> DEFINE direct == FALSE
<1>1. NoToken \in Token /\ direct \in BOOLEAN
      BY Empty
<1>2. Cleared(r) = Applied(r, NoToken, direct)
      BY DEF Cleared, Applied
<1> HIDE DEF direct
<1>3. QED  BY <1>1, <1>2, AppliedFields

LEMMA AuthInitially == AuthInit => AuthInv
<1> SUFFICES ASSUME AuthInit PROVE AuthInv
    OBVIOUS
<1>1. TypeInv
  <2>1. /\ record \in Record /\ attempt \in [Caller -> Record] /\ reply \in [Caller -> Token]
        BY Empty DEF AuthInit
  <2>2. /\ expired \in BOOLEAN /\ holder \in Caller \cup {Unset}
        /\ step \in [Caller -> {"idle", "browser"} \cup Section]
        BY DEF AuthInit
  <2>3. /\ replaces \in [Caller -> BOOLEAN] /\ begunAt \in [Caller -> Nat]
        BY DEF AuthInit
  <2>4. /\ issued \in 0..MaxTokens /\ accepted \subseteq 1..issued /\ lost \subseteq 1..issued
        /\ logouts \in Nat /\ session \in Nat
        BY ChatGptAuthAssumption DEF AuthInit
  <2>5. QED  BY <2>1, <2>2, <2>3, <2>4 DEF TypeInv
<1>2. StoredInv
      BY Empty DEF AuthInit, StoredInv, SignedIn
<1>3. \A c \in Caller : CallerInv(c)
      BY DEF AuthInit, CallerInv, Section, Login
<1>4. QED  BY <1>1, <1>2, <1>3 DEF AuthInv
-----------------------------------------------------------------------------
\* Where c leaves its section or its browser, it forgets what it had.
LEMMA EndsTypes ==
    ASSUME TypeInv, NEW c \in Caller, Ends(c)
    PROVE  /\ step' \in [Caller -> {"idle", "browser"} \cup Section]
           /\ attempt' \in [Caller -> Record] /\ replaces' \in [Caller -> BOOLEAN]
           /\ reply' \in [Caller -> Token] /\ begunAt' \in [Caller -> Nat]
           /\ step'[c] = "idle"
           /\ \A d \in Caller \ {c} :
                 /\ step'[d] = step[d] /\ attempt'[d] = attempt[d] /\ replaces'[d] = replaces[d]
                 /\ reply'[d] = reply[d] /\ begunAt'[d] = begunAt[d]
BY Empty DEF Ends, At, TypeInv

\* A caller that does not take part in a step that keeps the generation.
LEMMA OtherStays ==
    ASSUME AuthInv, NEW d \in Caller,
           step'[d] = step[d], attempt'[d] = attempt[d], replaces'[d] = replaces[d],
           reply'[d] = reply[d], begunAt'[d] = begunAt[d], logouts' = logouts,
           record'.generation = record.generation, record'.subject = record.subject,
           record'.refresh = record.refresh,
           step[d] \in Section => holder' = holder /\ record' = record /\ accepted' = accepted
    PROVE  CallerInv(d)'
<1>1. CallerInv(d)
      BY DEF AuthInv
<1>2. SignedIn' = SignedIn
      BY DEF SignedIn
<1>3. CASE step[d] \in Section
      BY <1>1, <1>2, <1>3 DEF CallerInv, Section, Login
<1>4. CASE step[d] \notin Section
      BY <1>1, <1>2, <1>4 DEF CallerInv, Section, Login
<1>5. QED  BY <1>3, <1>4

\* A caller outside of the sections, when the generation goes up.
LEMMA OtherIsOvertaken ==
    ASSUME AuthInv, NEW d \in Caller, step[d] \notin Section,
           step'[d] = step[d], attempt'[d] = attempt[d],
           record'.generation = record.generation + 1
    PROVE  CallerInv(d)'
<1>1. CallerInv(d) /\ attempt[d].generation \in Nat /\ record.generation \in Nat
      BY DEF AuthInv, TypeInv, Record
<1>2. QED  BY <1>1 DEF CallerInv, Section, Login

LEMMA IdleIsQuiet ==
    ASSUME NEW c \in Caller, step'[c] = "idle"
    PROVE  CallerInv(c)'
BY DEF CallerInv, Section, Login

\* Only the holder is in a section.
LEMMA OneSection ==
    ASSUME AuthInv, NEW c \in Caller, NEW d \in Caller, step[d] \in Section
    PROVE  holder = d /\ holder # Unset /\ (step[c] \in Section => c = d)
BY UnsetAssumption DEF AuthInv, CallerInv

LEMMA BeginKeeps ==
    ASSUME AuthInv, NEW c \in Caller, NEW newAccount \in BOOLEAN, BeginLogin(c, newAccount)
    PROVE  AuthInv'
<1> DEFINE begun == IF newAccount THEN [record EXCEPT !.client = Unset, !.subject = Unset] ELSE record
<1>1. /\ holder = Unset /\ (newAccount => ~SignedIn) /\ step[c] = "idle"
      /\ attempt' = [attempt EXCEPT ![c] = begun]
      /\ replaces' = [replaces EXCEPT ![c] = newAccount]
      /\ begunAt' = [begunAt EXCEPT ![c] = logouts]
      /\ step' = [step EXCEPT ![c] = "browser"]
      /\ UNCHANGED <<record, expired, holder, reply, issued, accepted, lost, logouts, session>>
      BY DEF BeginLogin, LockFree, At, server
<1>2. TypeInv /\ StoredInv /\ record \in Record /\ record.generation \in Nat
      BY DEF AuthInv, TypeInv, Record
<1>3. /\ begun \in Record /\ begun.generation = record.generation
      /\ ~newAccount => begun.subject = record.subject
      BY <1>2 DEF Record
<1> HIDE DEF begun
<1>4. TypeInv'
  <2>1. replaces' \in [Caller -> BOOLEAN]
        BY <1>1, <1>2 DEF TypeInv
  <2>2. attempt' \in [Caller -> Record] /\ begunAt' \in [Caller -> Nat]
        /\ step' \in [Caller -> {"idle", "browser"} \cup Section]
        BY <1>1, <1>2, <1>3 DEF TypeInv
  <2>3. QED  BY <1>1, <1>2, <2>1, <2>2 DEF TypeInv
<1>5. SignedIn' = SignedIn
      BY <1>1 DEF SignedIn
<1>6. StoredInv'
  <2>1. (\A d \in Caller : step'[d] # "refreshed") => \A d \in Caller : step[d] # "refreshed"
        BY <1>1, <1>2 DEF TypeInv
  <2>2. QED  BY <1>1, <1>2, <1>5, <2>1 DEF StoredInv
<1>7. ASSUME NEW d \in Caller PROVE CallerInv(d)'
  <2>1. CASE d = c
    <3>1. /\ step'[c] = "browser" /\ attempt'[c] = begun /\ begunAt'[c] = logouts
          BY <1>1, <1>2 DEF TypeInv
    <3>2. replaces'[c] = newAccount
          BY <1>1, <1>2 DEF TypeInv
    <3>3. QED  BY <2>1, <3>1, <3>2, <1>1, <1>2, <1>3, <1>5 DEF CallerInv, Section, Login
  <2>2. CASE d # c
        BY <2>2, <1>1, <1>2, OtherStays DEF TypeInv
  <2>3. QED  BY <2>1, <2>2
<1>8. QED  BY <1>4, <1>6, <1>7 DEF AuthInv

\* A caller ends without having changed the record.
LEMMA QuietEnd ==
    ASSUME AuthInv, NEW c \in Caller, Ends(c), step[c] # "idle",
           record' = record, expired' \in BOOLEAN, issued' = issued, accepted' = accepted,
           logouts' = logouts, session' = session,
           holder' = holder \/ (holder' = Unset /\ step[c] \in Section),
           lost \subseteq lost', lost' \subseteq 1..issued,
           step[c] = "refreshed" => record.refresh.number \in accepted \cup lost'
    PROVE  AuthInv'
<1>1. TypeInv /\ StoredInv
      BY DEF AuthInv
<1>2. TypeInv'
      BY <1>1, EndsTypes DEF TypeInv
<1>3. SignedIn' = SignedIn
      BY DEF SignedIn
<1>4. StoredInv'
  <2>1. SUFFICES ASSUME SignedIn, \A d \in Caller : step'[d] # "refreshed"
                 PROVE  record.refresh.number \in accepted \cup lost'
        BY <1>1, <1>3 DEF StoredInv
  <2>2. CASE step[c] = "refreshed"
        BY <2>2
  <2>3. CASE step[c] # "refreshed"
    <3>1. \A d \in Caller : step[d] # "refreshed"
          BY <2>1, <2>3, <1>1, EndsTypes
    <3>2. QED  BY <3>1, <2>1, <1>1 DEF StoredInv
  <2>4. QED  BY <2>2, <2>3
<1>5. ASSUME NEW d \in Caller PROVE CallerInv(d)'
  <2>1. CASE d = c
        BY <2>1, <1>1, EndsTypes, IdleIsQuiet
  <2>2. CASE d # c
    <3>1. /\ step'[d] = step[d] /\ attempt'[d] = attempt[d] /\ replaces'[d] = replaces[d]
          /\ reply'[d] = reply[d] /\ begunAt'[d] = begunAt[d]
          BY <2>2, <1>1, EndsTypes
    <3>2. step[d] \in Section => holder' = holder
          BY <2>2, OneSection
    <3>3. QED  BY <3>1, <3>2, OtherStays
  <2>3. QED  BY <2>1, <2>2
<1>6. QED  BY <1>2, <1>4, <1>5 DEF AuthInv

\* A section ends with a record of the next generation.
LEMMA RenewedEnd ==
    ASSUME AuthInv, NEW c \in Caller, step[c] \in Section, Leave(c),
           record' \in Record, record'.generation = record.generation + 1,
           expired' \in BOOLEAN, UNCHANGED <<issued, accepted, lost>>,
           logouts' \in Nat, session' \in Nat, StoredInv'
    PROVE  AuthInv'
<1>1. TypeInv /\ Ends(c) /\ holder' = Unset
      BY DEF AuthInv, Leave
<1>2. TypeInv'
      BY <1>1, EndsTypes DEF TypeInv
<1>3. ASSUME NEW d \in Caller PROVE CallerInv(d)'
  <2>1. CASE d = c
        BY <2>1, <1>1, EndsTypes, IdleIsQuiet
  <2>2. CASE d # c
    <3>1. step'[d] = step[d] /\ attempt'[d] = attempt[d]
          BY <2>2, <1>1, EndsTypes
    <3>2. step[d] \notin Section
          BY <2>2, OneSection
    <3>3. QED  BY <3>1, <3>2, OtherIsOvertaken
  <2>3. QED  BY <2>1, <2>2
<1>4. QED  BY <1>2, <1>3 DEF AuthInv
-----------------------------------------------------------------------------
(* The steps of a login. *)

LEMMA GiveUpKeeps ==
    ASSUME AuthInv, NEW c \in Caller, GiveUpLogin(c)
    PROVE  AuthInv'
<1>1. /\ step[c] = "browser" /\ Ends(c)
      /\ UNCHANGED <<record, expired, holder, issued, accepted, lost, logouts, session>>
      BY DEF GiveUpLogin, server
<1>2. expired' \in BOOLEAN /\ lost \subseteq lost' /\ lost' \subseteq 1..issued
      BY <1>1 DEF AuthInv, TypeInv
<1>3. QED  BY <1>1, <1>2, QuietEnd

LEMMA FinishKeeps ==
    ASSUME AuthInv, NEW c \in Caller, NEW client \in Registration, FinishLogin(c, client)
    PROVE  AuthInv'
<1>1. TypeInv /\ StoredInv /\ CallerInv(c) /\ record \in Record /\ attempt[c] \in Record
      BY DEF AuthInv, TypeInv
<1>2. step[c] = "browser" /\ holder = Unset
      /\ UNCHANGED <<expired, issued, accepted, lost, logouts, session>>
      BY DEF FinishLogin, Enter, LockFree, server
<1>3. \A d \in Caller : step[d] \notin Section
      BY <1>2, OneSection
<1>4. CASE ~SameSession(record, attempt[c])
  <2>1. Ends(c) /\ UNCHANGED <<holder, record>>
        BY <1>4 DEF FinishLogin
  <2>2. expired' \in BOOLEAN /\ lost \subseteq lost' /\ lost' \subseteq 1..issued
        BY <1>1, <1>2 DEF TypeInv
  <2>3. QED  BY <1>2, <2>1, <2>2, QuietEnd
<1>5. CASE SameSession(record, attempt[c])
  <2>1. /\ record.generation = attempt[c].generation
        /\ holder' = c /\ step' = [step EXCEPT ![c] = "code"]
        /\ attempt' = [attempt EXCEPT ![c].client = client]
        /\ record' = IF record.client = Unset THEN [record EXCEPT !.client = client] ELSE record
        /\ UNCHANGED <<replaces, reply, begunAt>>
        BY <1>5 DEF FinishLogin, Enter, At, SameSession
  <2>2. /\ record' \in Record /\ record'.generation = record.generation
        /\ record'.subject = record.subject /\ record'.refresh = record.refresh
        BY <1>1, <2>1 DEF Record
  <2>3. attempt' \in [Caller -> Record] /\ attempt'[c].generation = attempt[c].generation
        /\ attempt'[c].client = client /\ attempt'[c].subject = attempt[c].subject
        /\ step' \in [Caller -> {"idle", "browser"} \cup Section] /\ step'[c] = "code"
        BY <1>1, <2>1 DEF TypeInv, Record, Section
  <2>4. \A d \in Caller \ {c} : step'[d] = step[d] /\ attempt'[d] = attempt[d]
        BY <1>1, <2>1 DEF TypeInv
  <2>5. SignedIn' = SignedIn /\ (SignedIn => record' = record)
    <3>1. SignedIn => record.client # Unset
          BY <1>1, UnsetAssumption DEF StoredInv
    <3>2. QED  BY <3>1, <2>1, <2>2 DEF SignedIn
  <2>6. TypeInv'
        BY <1>1, <1>2, <2>1, <2>2, <2>3 DEF TypeInv
  <2>7. StoredInv'
    <3>1. \A d \in Caller : step[d] # "refreshed"
          BY <1>3 DEF Section
    <3>2. QED  BY <3>1, <1>1, <1>2, <2>5 DEF StoredInv
  <2>8. CallerInv(c)'
        BY <1>1, <1>2, <2>1, <2>2, <2>3, <2>5 DEF CallerInv, Section, Login
  <2>9. ASSUME NEW d \in Caller, d # c PROVE CallerInv(d)'
        BY <2>9, <1>2, <1>3, <2>1, <2>2, <2>4, OtherStays
  <2>10. QED  BY <2>6, <2>7, <2>8, <2>9 DEF AuthInv
<1>6. QED  BY <1>4, <1>5

\* What the server sends is a token of the next number.
LEMMA IssuesToken ==
    ASSUME AuthInv, NEW c \in Caller, NEW client \in Registration, NEW subject \in Account,
           NEW spent, Issues(c, client, subject, spent)
    PROVE  /\ reply' \in [Caller -> Token]
           /\ reply'[c].number = issued + 1 /\ reply'[c].client = client
           /\ reply'[c].subject = subject
           /\ \A d \in Caller \ {c} : reply'[d] = reply[d]
           /\ issued' \in 0..MaxTokens /\ issued' = issued + 1
           /\ accepted' = (accepted \ spent) \cup {issued + 1} /\ accepted' \subseteq 1..issued'
<1>1. /\ reply \in [Caller -> Token] /\ issued \in 0..MaxTokens /\ issued < MaxTokens
      /\ accepted \subseteq 1..issued /\ MaxTokens \in Nat
      BY ChatGptAuthAssumption DEF AuthInv, TypeInv, Issues
<1>2. [number |-> issued + 1, client |-> client, subject |-> subject] \in Token
      BY <1>1 DEF Token
<1>3. /\ issued' = issued + 1
      /\ reply' = [reply EXCEPT ![c] =
                      [number |-> issued + 1, client |-> client, subject |-> subject]]
      /\ accepted' = (accepted \ spent) \cup {issued + 1}
      BY DEF Issues
<1>4. /\ reply' \in [Caller -> Token]
      /\ reply'[c] = [number |-> issued + 1, client |-> client, subject |-> subject]
      /\ \A d \in Caller \ {c} : reply'[d] = reply[d]
      BY <1>1, <1>2, <1>3
<1>5. issued' \in 0..MaxTokens
      BY <1>1, <1>3
<1>6. accepted' \subseteq 1..issued'
  <2>1. accepted \ spent \subseteq 1..issued
        BY <1>1
  <2>2. 1..issued \subseteq 1..(issued + 1) /\ issued + 1 \in 1..(issued + 1)
        BY <1>1
  <2>3. QED  BY <2>1, <2>2, <1>3
<1>7. QED  BY <1>3, <1>4, <1>5, <1>6

LEMMA ExchangeCodeKeeps ==
    ASSUME AuthInv, NEW c \in Caller, NEW subject \in Account, ExchangeCode(c, subject)
    PROVE  AuthInv'
<1>1. /\ step[c] = "code" /\ step' = [step EXCEPT ![c] = "signed"]
      /\ Issues(c, attempt[c].client, subject, {})
      /\ UNCHANGED <<record, expired, holder, attempt, replaces, lost, logouts, begunAt, session>>
      BY DEF ExchangeCode, At
<1>2. TypeInv /\ StoredInv /\ CallerInv(c)
      BY DEF AuthInv
<1>3. attempt[c].client \in Registration
      BY <1>1, <1>2 DEF CallerInv
<1>4. /\ reply' \in [Caller -> Token]
      /\ reply'[c].number = issued + 1 /\ reply'[c].client = attempt[c].client
      /\ reply'[c].subject = subject
      /\ \A d \in Caller \ {c} : reply'[d] = reply[d]
      /\ issued' \in 0..MaxTokens /\ issued' = issued + 1
      /\ accepted' = (accepted \ {}) \cup {issued + 1} /\ accepted' \subseteq 1..issued'
      BY <1>1, <1>3, IssuesToken
<1>5. /\ step' \in [Caller -> {"idle", "browser"} \cup Section] /\ step'[c] = "signed"
      /\ \A d \in Caller \ {c} : step'[d] = step[d]
      BY <1>1, <1>2 DEF TypeInv, Section
<1>6. TypeInv'
  <2>1. lost' \subseteq 1..issued'
        BY <1>1, <1>2, <1>4 DEF TypeInv
  <2>2. QED  BY <1>1, <1>2, <1>4, <1>5, <2>1 DEF TypeInv
<1>7. SignedIn' = SignedIn
      BY <1>1 DEF SignedIn
<1>8. StoredInv'
  <2>1. record.refresh.number \in 1..issued => record.refresh.number \in 1..issued'
        BY <1>2, <1>4 DEF TypeInv
  <2>2. (\A d \in Caller : step'[d] # "refreshed") => \A d \in Caller : step[d] # "refreshed"
        BY <1>1, <1>5
  <2>3. QED  BY <1>1, <1>2, <1>4, <1>7, <2>1, <2>2 DEF StoredInv
<1>9. CallerInv(c)'
      BY <1>1, <1>2, <1>4, <1>5, <1>7 DEF CallerInv, Section, Login
<1>10. ASSUME NEW d \in Caller, d # c PROVE CallerInv(d)'
  <2>1. step[d] \notin Section
        BY <1>1, <1>10, OneSection DEF Section
  <2>2. QED  BY <1>1, <1>4, <1>5, <1>10, <2>1, OtherStays
<1>11. QED  BY <1>6, <1>8, <1>9, <1>10 DEF AuthInv

LEMMA SaveLoginKeeps ==
    ASSUME AuthInv, NEW c \in Caller, SaveLogin(c)
    PROVE  AuthInv'
<1> DEFINE base == [attempt[c] EXCEPT !.subject = reply[c].subject]
<1> DEFINE direct == TRUE
<1>1. /\ step[c] = "signed" /\ record' = Applied(base, reply[c], direct)
      /\ expired' = FALSE /\ session' = begunAt[c] /\ Leave(c)
      /\ UNCHANGED <<issued, accepted, lost, logouts>>
      BY DEF SaveLogin, server
<1>2. direct \in BOOLEAN
      OBVIOUS
<1> HIDE DEF direct
<1>3. TypeInv /\ CallerInv(c) /\ attempt[c] \in Record /\ reply[c] \in Token
      BY DEF AuthInv, TypeInv
<1>4. /\ step[c] \in Section /\ reply[c].number \in accepted
      /\ reply[c].client = attempt[c].client /\ reply[c].subject \in Account
      /\ attempt[c].client \in Registration /\ attempt[c].generation = record.generation
      /\ begunAt[c] = logouts
      BY <1>1, <1>3 DEF CallerInv, Section, Login
<1>5. /\ base \in Record /\ base.client = attempt[c].client
      /\ base.subject = reply[c].subject /\ base.generation = attempt[c].generation
      BY <1>3, <1>4 DEF Record
<1> HIDE DEF base
<1>6. /\ record' \in Record /\ record'.refresh = reply[c] /\ record'.client = attempt[c].client
      /\ record'.subject = reply[c].subject /\ record'.generation = record.generation + 1
      BY <1>1, <1>2, <1>3, <1>4, <1>5, AppliedFields
<1>7. StoredInv'
  <2>1. reply[c].number \in 1..issued
        BY <1>3, <1>4 DEF TypeInv
  <2>2. QED  BY <2>1, <1>1, <1>4, <1>6 DEF StoredInv
<1>8. expired' \in BOOLEAN
      BY <1>1
<1>9. logouts' \in Nat /\ session' \in Nat
      BY <1>1, <1>3 DEF TypeInv
<1>10. QED  BY <1>1, <1>4, <1>6, <1>7, <1>8, <1>9, RenewedEnd
-----------------------------------------------------------------------------
(* The steps of a refresh. *)

LEMMA ExpireKeeps == ASSUME AuthInv, Expire PROVE AuthInv'
<1>1. UNCHANGED <<record, holder, step, attempt, replaces, reply, issued, accepted, lost,
                  logouts, begunAt, session>>
      BY DEF Expire, server
<1>2. expired' \in BOOLEAN
      BY DEF Expire
<1>3. TypeInv'
      BY <1>1, <1>2 DEF AuthInv, TypeInv
<1>4. StoredInv'
      BY <1>1 DEF AuthInv, StoredInv, SignedIn
<1>5. \A c \in Caller : CallerInv(c)'
      BY <1>1, OtherStays
<1>6. QED  BY <1>3, <1>4, <1>5 DEF AuthInv

\* A caller enters with a copy of the record.
LEMMA EnterKeeps ==
    ASSUME AuthInv, NEW c \in Caller, NEW s \in {"refresh", "revoked"}, holder = Unset,
           holder' = c, step' = [step EXCEPT ![c] = s],
           attempt' = [attempt EXCEPT ![c] = record],
           s = "refresh" => SignedIn,
           UNCHANGED <<record, expired, replaces, reply, issued, logouts, begunAt, session>>,
           accepted' \subseteq accepted, lost \subseteq lost', lost' \subseteq 1..issued,
           SignedIn /\ record.refresh.number \in accepted \cup lost =>
               record.refresh.number \in accepted' \cup lost'
    PROVE  AuthInv'
<1>1. TypeInv /\ StoredInv
      BY DEF AuthInv
<1>2. \A d \in Caller : step[d] \notin Section
      BY OneSection
<1>3. /\ step' \in [Caller -> {"idle", "browser"} \cup Section] /\ step'[c] = s
      /\ attempt' \in [Caller -> Record] /\ attempt'[c] = record
      /\ \A d \in Caller \ {c} : step'[d] = step[d] /\ attempt'[d] = attempt[d]
      BY <1>1 DEF TypeInv, Section
<1>4. TypeInv'
      BY <1>1, <1>3 DEF TypeInv
<1>5. SignedIn' = SignedIn
      BY DEF SignedIn
<1>6. StoredInv'
  <2>1. \A d \in Caller : step[d] # "refreshed"
        BY <1>2 DEF Section
  <2>2. QED  BY <2>1, <1>1, <1>5 DEF StoredInv
<1>7. CallerInv(c)'
      BY <1>3, <1>5 DEF CallerInv, Section, Login
<1>8. ASSUME NEW d \in Caller, d # c PROVE CallerInv(d)'
      BY <1>2, <1>3, <1>8, OtherStays
<1>9. QED  BY <1>4, <1>6, <1>7, <1>8 DEF AuthInv

LEMMA RefreshKeeps ==
    ASSUME AuthInv, NEW c \in Caller, Refresh(c)
    PROVE  AuthInv'
<1>1. /\ holder = Unset /\ holder' = c /\ step' = [step EXCEPT ![c] = "refresh"]
      /\ attempt' = [attempt EXCEPT ![c] = record] /\ SignedIn
      /\ UNCHANGED <<record, expired, replaces, reply, issued, accepted, lost, logouts, begunAt,
                     session>>
      BY DEF Refresh, Enter, LockFree, At, server
<1>2. lost' \subseteq 1..issued
      BY <1>1 DEF AuthInv, TypeInv
<1>3. QED  BY <1>1, <1>2, EnterKeeps

\* The successor of the record's refresh token, or the same token again.
LEMMA ExchangeRefreshKeeps ==
    ASSUME AuthInv, NEW c \in Caller, ExchangeRefresh(c)
    PROVE  AuthInv'
<1> DEFINE old == attempt[c].refresh
<1>1. /\ step[c] = "refresh" /\ step' = [step EXCEPT ![c] = "refreshed"]
      /\ old.number \in accepted
      /\ \/ Issues(c, old.client, old.subject, {old.number})
         \/ reply' = [reply EXCEPT ![c] = old] /\ UNCHANGED <<issued, accepted>>
      /\ UNCHANGED <<record, expired, holder, attempt, replaces, lost, logouts, begunAt, session>>
      BY DEF ExchangeRefresh, At
<1>2. TypeInv /\ StoredInv /\ CallerInv(c) /\ record \in Record
      BY DEF AuthInv, TypeInv
<1>3. /\ attempt[c] = record /\ SignedIn /\ old = record.refresh /\ old \in Token
      /\ old.client = record.client /\ old.subject = record.subject
      /\ old.client \in Registration /\ old.subject \in Account
      BY <1>1, <1>2 DEF CallerInv, StoredInv, Record
<1> HIDE DEF old
<1>4. /\ reply' \in [Caller -> Token]
      /\ reply'[c].number \in accepted' /\ reply'[c].client = old.client
      /\ reply'[c].subject = old.subject
      /\ \A d \in Caller \ {c} : reply'[d] = reply[d]
      /\ issued' \in 0..MaxTokens /\ issued <= issued' /\ accepted' \subseteq 1..issued'
  <2>1. CASE Issues(c, old.client, old.subject, {old.number})
    <3>1. /\ reply' \in [Caller -> Token]
          /\ reply'[c].number = issued + 1 /\ reply'[c].client = old.client
          /\ reply'[c].subject = old.subject
          /\ \A d \in Caller \ {c} : reply'[d] = reply[d]
          /\ issued' \in 0..MaxTokens /\ issued' = issued + 1
          /\ accepted' = (accepted \ {old.number}) \cup {issued + 1}
          /\ accepted' \subseteq 1..issued'
          BY <2>1, <1>3, IssuesToken
    <3>2. issued <= issued'
          BY <3>1, <1>2 DEF TypeInv
    <3>3. QED  BY <3>1, <3>2
  <2>2. CASE reply' = [reply EXCEPT ![c] = old] /\ UNCHANGED <<issued, accepted>>
        BY <2>2, <1>1, <1>2, <1>3 DEF TypeInv
  <2>3. QED  BY <2>1, <2>2, <1>1
<1>5. /\ step' \in [Caller -> {"idle", "browser"} \cup Section] /\ step'[c] = "refreshed"
      /\ \A d \in Caller \ {c} : step'[d] = step[d]
      BY <1>1, <1>2 DEF TypeInv, Section
<1>6. 1..issued \subseteq 1..issued'
      BY <1>2, <1>4 DEF TypeInv
<1>7. TypeInv'
  <2>1. lost' \subseteq 1..issued'
        BY <1>1, <1>2, <1>6 DEF TypeInv
  <2>2. QED  BY <1>1, <1>2, <1>4, <1>5, <2>1 DEF TypeInv
<1>8. SignedIn' = SignedIn
      BY <1>1 DEF SignedIn
<1>9. StoredInv'
      BY <1>1, <1>2, <1>5, <1>6, <1>8 DEF StoredInv
<1>10. CallerInv(c)'
  <2>1. holder = c
        BY <1>1, <1>2 DEF CallerInv, Section
  <2>2. QED  BY <1>1, <1>3, <1>4, <1>5, <1>8, <2>1 DEF CallerInv, Section, Login
<1>11. ASSUME NEW d \in Caller, d # c PROVE CallerInv(d)'
  <2>1. step[d] \notin Section
        BY <1>1, <1>11, OneSection DEF Section
  <2>2. QED  BY <1>1, <1>4, <1>5, <1>11, <2>1, OtherStays
<1>12. QED  BY <1>7, <1>9, <1>10, <1>11 DEF AuthInv

LEMMA SaveRefreshKeeps ==
    ASSUME AuthInv, NEW c \in Caller, SaveRefresh(c)
    PROVE  AuthInv'
<1>1. /\ step[c] = "refreshed" /\ expired' = FALSE /\ Leave(c)
      /\ \E direct \in BOOLEAN : record' = Applied(attempt[c], reply[c], direct)
      /\ UNCHANGED <<issued, accepted, lost, logouts, session>>
      BY DEF SaveRefresh, server
<1>2. PICK direct \in BOOLEAN : record' = Applied(attempt[c], reply[c], direct)
      BY <1>1
<1>3. TypeInv /\ StoredInv /\ CallerInv(c) /\ attempt[c] \in Record /\ reply[c] \in Token
      BY DEF AuthInv, TypeInv
<1>4. /\ step[c] \in Section /\ attempt[c] = record /\ SignedIn
      /\ reply[c].number \in accepted
      /\ reply[c].client = record.client /\ reply[c].subject = record.subject
      /\ record.client \in Registration /\ record.subject \in Account /\ session = logouts
      BY <1>1, <1>3 DEF CallerInv, StoredInv, Section
<1>5. /\ record' \in Record /\ record'.refresh = reply[c] /\ record'.client = record.client
      /\ record'.subject = record.subject /\ record'.generation = record.generation + 1
      BY <1>2, <1>3, <1>4, AppliedFields
<1>6. StoredInv'
  <2>1. reply[c].number \in 1..issued
        BY <1>3, <1>4 DEF TypeInv
  <2>2. QED  BY <2>1, <1>1, <1>4, <1>5 DEF StoredInv
<1>7. expired' \in BOOLEAN
      BY <1>1
<1>8. logouts' \in Nat /\ session' \in Nat
      BY <1>1, <1>3 DEF TypeInv
<1>9. QED  BY <1>1, <1>4, <1>5, <1>6, <1>7, <1>8, RenewedEnd

LEMMA RefreshRefusedKeeps ==
    ASSUME AuthInv, NEW c \in Caller, RefreshRefused(c)
    PROVE  AuthInv'
<1> DEFINE r1 == [attempt[c] EXCEPT !.refresh = NoToken]
<1> DEFINE r2 == [r1 EXCEPT !.needsLogin = TRUE]
<1> DEFINE r3 == [r2 EXCEPT !.generation = attempt[c].generation + 1]
<1>1. /\ step[c] = "refresh" /\ expired' = FALSE /\ Leave(c) /\ record' = r3
      /\ UNCHANGED <<issued, accepted, lost, logouts, session>>
      BY DEF RefreshRefused, server
<1>2. TypeInv /\ CallerInv(c) /\ attempt[c] \in Record
      BY DEF AuthInv, TypeInv
<1>3. step[c] \in Section /\ attempt[c] = record
      BY <1>1, <1>2 DEF CallerInv, Section
<1>4. r1 \in Record /\ r1.refresh = NoToken /\ attempt[c].generation + 1 \in Nat
      BY <1>2, Empty DEF Record
<1> HIDE DEF r1
<1>5. r2 \in Record /\ r2.refresh = NoToken
      BY <1>4 DEF Record
<1> HIDE DEF r2
<1>6. r3 \in Record /\ r3.refresh = NoToken /\ r3.generation = attempt[c].generation + 1
      BY <1>4, <1>5 DEF Record
<1> HIDE DEF r3
<1>7. StoredInv'
      BY <1>1, <1>6 DEF StoredInv, SignedIn
<1>8. expired' \in BOOLEAN
      BY <1>1
<1>9. logouts' \in Nat /\ session' \in Nat
      BY <1>1, <1>2 DEF TypeInv
<1>10. QED  BY <1>1, <1>3, <1>6, <1>7, <1>8, <1>9, RenewedEnd

LEMMA FailKeeps ==
    ASSUME AuthInv, NEW c \in Caller, Fail(c)
    PROVE  AuthInv'
<1>1. /\ step[c] \in Section /\ Ends(c) /\ holder' = Unset
      /\ lost' = IF step[c] = "refreshed" THEN lost \cup ({record.refresh.number} \ accepted)
                 ELSE lost
      /\ UNCHANGED <<record, expired, issued, accepted, logouts, session>>
      BY DEF Fail, Leave, Section
<1>2. TypeInv /\ StoredInv /\ CallerInv(c)
      BY DEF AuthInv
<1>3. step[c] = "refreshed" => record.refresh.number \in 1..issued
      BY <1>2 DEF CallerInv, StoredInv
<1>4. lost \subseteq lost' /\ lost' \subseteq 1..issued
      BY <1>1, <1>2, <1>3 DEF TypeInv
<1>5. step[c] = "refreshed" => record.refresh.number \in accepted \cup lost'
      BY <1>1
<1>6. step[c] # "idle" /\ expired' \in BOOLEAN
      BY <1>1, <1>2 DEF Section, TypeInv
<1>7. QED  BY <1>1, <1>4, <1>5, <1>6, QuietEnd
-----------------------------------------------------------------------------
(* The steps of a logout. *)

LEMMA LogoutKeeps ==
    ASSUME AuthInv, NEW c \in Caller, Logout(c)
    PROVE  AuthInv'
<1> DEFINE s == "revoked"
<1>1. /\ holder = Unset /\ holder' = c /\ step' = [step EXCEPT ![c] = s]
      /\ attempt' = [attempt EXCEPT ![c] = record]
      /\ UNCHANGED <<record, expired, replaces, reply, issued, logouts, begunAt, session>>
      /\ \/ UNCHANGED <<accepted, lost>>
         \/ /\ SignedIn
            /\ accepted' = accepted \ {record.refresh.number}
            /\ lost' = lost \cup {record.refresh.number}
      BY DEF Logout, Enter, LockFree, At
<1>2. TypeInv /\ StoredInv
      BY DEF AuthInv
<1>3. SignedIn => record.refresh.number \in 1..issued
      BY <1>2 DEF StoredInv
<1>4. /\ accepted' \subseteq accepted /\ lost \subseteq lost' /\ lost' \subseteq 1..issued
      /\ SignedIn /\ record.refresh.number \in accepted \cup lost =>
             record.refresh.number \in accepted' \cup lost'
      BY <1>1, <1>2, <1>3 DEF TypeInv
<1>5. s \in {"refresh", "revoked"} /\ (s = "refresh" => SignedIn)
      OBVIOUS
<1>6. QED  BY <1>1, <1>4, <1>5, EnterKeeps

LEMMA SaveLogoutKeeps ==
    ASSUME AuthInv, NEW c \in Caller, SaveLogout(c)
    PROVE  AuthInv'
<1>1. /\ step[c] = "revoked" /\ expired' = FALSE /\ Leave(c)
      /\ record' = Cleared(attempt[c]) /\ logouts' = logouts + 1
      /\ UNCHANGED <<issued, accepted, lost, session>>
      BY DEF SaveLogout, server
<1>2. TypeInv /\ CallerInv(c) /\ attempt[c] \in Record
      BY DEF AuthInv, TypeInv
<1>3. step[c] \in Section /\ attempt[c] = record
      BY <1>1, <1>2 DEF CallerInv, Section
<1>4. /\ record' \in Record /\ record'.refresh = NoToken
      /\ record'.generation = record.generation + 1
      BY <1>1, <1>2, <1>3, ClearedFields
<1>5. StoredInv'
      BY <1>4 DEF StoredInv, SignedIn
<1>6. expired' \in BOOLEAN
      BY <1>1
<1>7. logouts' \in Nat /\ session' \in Nat
      BY <1>1, <1>2 DEF TypeInv
<1>8. QED  BY <1>1, <1>3, <1>4, <1>5, <1>6, <1>7, RenewedEnd
-----------------------------------------------------------------------------
LEMMA AuthStep == AuthInv /\ [AuthNext]_authVars => AuthInv'
<1> SUFFICES ASSUME AuthInv, [AuthNext]_authVars PROVE AuthInv'
    OBVIOUS
<1>1. CASE UNCHANGED authVars
  <2>1. UNCHANGED <<record, expired, holder, step, attempt, replaces, reply, issued, accepted,
                    lost, logouts, begunAt, session>>
        BY <1>1 DEF authVars, server
  <2>2. QED  BY <2>1 DEF AuthInv, TypeInv, StoredInv, SignedIn, CallerInv
<1>2. CASE Expire
      BY <1>2, ExpireKeeps
<1>3. ASSUME NEW c \in Caller,
             \/ \E newAccount \in BOOLEAN : BeginLogin(c, newAccount)
             \/ GiveUpLogin(c)
             \/ \E client \in Registration : FinishLogin(c, client)
             \/ \E subject \in Account : ExchangeCode(c, subject)
             \/ SaveLogin(c)
             \/ Refresh(c) \/ ExchangeRefresh(c) \/ SaveRefresh(c) \/ RefreshRefused(c)
             \/ Fail(c)
             \/ Logout(c) \/ SaveLogout(c)
      PROVE  AuthInv'
      BY <1>3, BeginKeeps, GiveUpKeeps, FinishKeeps, ExchangeCodeKeeps, SaveLoginKeeps,
         RefreshKeeps, ExchangeRefreshKeeps, SaveRefreshKeeps, RefreshRefusedKeeps, FailKeeps,
         LogoutKeeps, SaveLogoutKeeps
<1>4. QED  BY <1>1, <1>2, <1>3 DEF AuthNext

LEMMA AuthInvariant == AuthSpec => []AuthInv
<1>1. AuthInit => AuthInv
      BY AuthInitially
<1>2. AuthInv /\ [AuthNext]_authVars => AuthInv'
      BY AuthStep
<1>3. QED  BY <1>1, <1>2, PTL DEF AuthSpec
-----------------------------------------------------------------------------
\* The types of the record and of what the callers hold, and: whoever is between
\* lock() and the end of its section is the one that holds session.lock.
THEOREM AuthTypeCorrect == AuthSpec => []AuthTypeOK
<1>1. AuthInv => AuthTypeOK
  <2> SUFFICES ASSUME AuthInv PROVE AuthTypeOK
      OBVIOUS
  <2>1. TypeInv
        BY DEF AuthInv
  <2>2. step \in [Caller -> {"idle", "browser", "code", "signed", "refresh", "refreshed",
                             "revoked"}]
        BY <2>1 DEF TypeInv, Section
  <2>3. \A c \in Caller : step[c] \notin {"idle", "browser"} => holder = c
        BY <2>1 DEF AuthInv, TypeInv, CallerInv
  <2>4. QED  BY <2>1, <2>2, <2>3 DEF AuthTypeOK, TypeInv
<1>2. QED  BY <1>1, AuthInvariant, PTL

\* Outside of the sections the stored refresh token is the one that the server
\* accepts, of the stored registration and account, unless an answer of the
\* server was lost: refreshes and logins of any number of callers in any number
\* of processes never present a token that another one has used.
THEOREM StoredIsUsableAlways == AuthSpec => []StoredIsUsable
<1>1. AuthInv => StoredIsUsable
  <2> SUFFICES ASSUME AuthInv, holder = Unset, SignedIn PROVE StoredIsUsable
      BY DEF StoredIsUsable
  <2>1. \A d \in Caller : step[d] # "refreshed"
        BY OneSection DEF Section
  <2>2. QED  BY <2>1 DEF AuthInv, StoredInv, StoredIsUsable
<1>2. QED  BY <1>1, AuthInvariant, PTL

\* Whoever is signed in began the login after the last logout: a browser that
\* answers late does not undo a logout.
THEOREM LogoutHoldsAlways == AuthSpec => []LogoutHolds
<1>1. AuthInv => LogoutHolds
      BY DEF AuthInv, StoredInv, LogoutHolds
<1>2. QED  BY <1>1, AuthInvariant, PTL

\* The account changes only while nobody is signed in, and after the first login
\* only by a login that was begun to replace it.
THEOREM AccountIsKeptAlways == AuthSpec => AccountIsKept
<1> DEFINE Kept ==
      record'.subject # record.subject =>
          /\ ~SignedIn
          /\ record.subject # Unset => \E c \in Caller : step[c] = "signed" /\ replaces[c]
<1>1. ASSUME AuthInv, AuthNext PROVE Kept
  <2>1. TypeInv /\ record \in Record /\ attempt \in [Caller -> Record]
        BY <1>1 DEF AuthInv, TypeInv
  <2>2. ASSUME NEW c \in Caller, SaveLogin(c) PROVE Kept
    <3>1. /\ step[c] = "signed" /\ SameSubject(attempt[c], reply[c])
          /\ record'.subject = reply[c].subject
          BY <2>1, <2>2 DEF SaveLogin, Applied, Record
    <3>2. CallerInv(c) /\ (SignedIn => record.subject \in Account)
          BY <1>1 DEF AuthInv, StoredInv
    <3>3. /\ replaces[c] => ~SignedIn
          /\ ~replaces[c] => attempt[c].subject = record.subject
          BY <3>1, <3>2 DEF CallerInv, Login
    <3>4. attempt[c].subject \in {Unset, reply[c].subject}
          BY <3>1 DEF SameSubject
    <3>5. SignedIn => record.subject # Unset
          BY <3>2, UnsetAssumption
    <3>6. CASE replaces[c]
          BY <3>1, <3>3, <3>6
    <3>7. CASE ~replaces[c]
          BY <3>1, <3>3, <3>4, <3>5, <3>7
    <3>8. QED  BY <3>6, <3>7
  <2>3. ASSUME NEW c \in Caller, NEW client \in Registration, FinishLogin(c, client) PROVE Kept
        BY <2>1, <2>3 DEF FinishLogin, Record
  <2>4. ASSUME NEW c \in Caller,
               SaveRefresh(c) \/ RefreshRefused(c) \/ SaveLogout(c)
        PROVE  Kept
    <3>1. attempt[c] = record
          BY <1>1, <2>4 DEF AuthInv, CallerInv, SaveRefresh, RefreshRefused, SaveLogout
    <3>2. record'.subject = attempt[c].subject
          BY <2>1, <2>4 DEF SaveRefresh, RefreshRefused, SaveLogout, Applied, Cleared, Record
    <3>3. QED  BY <3>1, <3>2
  <2>5. ASSUME Expire \/ \E c \in Caller :
                 \/ \E newAccount \in BOOLEAN : BeginLogin(c, newAccount)
                 \/ GiveUpLogin(c)
                 \/ \E subject \in Account : ExchangeCode(c, subject)
                 \/ Refresh(c) \/ ExchangeRefresh(c) \/ Fail(c) \/ Logout(c)
        PROVE  Kept
        BY <2>5 DEF Expire, BeginLogin, GiveUpLogin, ExchangeCode, Refresh, ExchangeRefresh,
                    Fail, Logout
  <2>6. QED  BY <1>1, <2>2, <2>3, <2>4, <2>5 DEF AuthNext
<1>2. AuthInv /\ [AuthNext]_authVars => [Kept]_authVars
      BY <1>1
<1>3. QED  BY <1>2, AuthInvariant, PTL DEF AuthSpec, AccountIsKept
=============================================================================
