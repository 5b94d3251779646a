---------------------------- MODULE ChatGptAuth ----------------------------
(***************************************************************************)
(* The ChatGPT credentials of a profile (chatgpt/auth.rs): one record on    *)
(* disk, shared by the callers of several processes. Logins, refreshes and  *)
(* logouts are serialized by a gate in the process and an exclusive lock on *)
(* session.lock; a login is two sections, with a browser in between.        *)
(*                                                                         *)
(* The server (external) rotates refresh tokens: one that was exchanged is  *)
(* not accepted again.                                                      *)
(***************************************************************************)
EXTENDS Integers, FiniteSets

CONSTANTS
    Caller,       \* tasks of any process that use the credentials
    Account,      \* accounts a browser may sign in with
    Registration, \* client ids the server may issue
    MaxTokens,    \* bound on the refresh tokens ever issued
    MaxLogouts,   \* bound on the logouts
    MaxGeneration \* bound on the generation that an access token still expires in

ASSUME ChatGptAuthAssumption ==
    /\ IsFiniteSet(Caller) /\ IsFiniteSet(Account) /\ IsFiniteSet(Registration)
    /\ MaxTokens \in Nat /\ MaxLogouts \in Nat /\ MaxGeneration \in Nat

Unset == "unset"
ASSUME UnsetAssumption == Unset \notin Caller \cup Account \cup Registration

\* A refresh token, with what the server knows of it; 0 stands for none.
NoToken == [number |-> 0, client |-> Unset, subject |-> Unset]
Token == [number : 0..MaxTokens, client : Registration \cup {Unset},
          subject : Account \cup {Unset}]
Record == [client : Registration \cup {Unset}, subject : Account \cup {Unset},
           refresh : Token, direct : BOOLEAN, needsLogin : BOOLEAN, generation : Nat]

VARIABLES
    record,   \* credentials.json; a record has an access token iff a refresh token
    expired,  \* its access token is over, or about to be
    holder,   \* who holds session.lock; Unset if nobody
    step,     \* where a caller is
    attempt,  \* the LoginAttempt of a caller: the record it was begun with
    replaces, \* that attempt was begun with --new-account
    reply,    \* the tokens a caller has been sent and has not saved
    issued,   \* refresh tokens issued so far
    accepted, \* refresh tokens that the server still accepts
    lost,     \* history: tokens whose successor never reached the disk, or revoked
    logouts,  \* logouts that have ended
    begunAt,  \* history: logouts when the attempt of a caller was begun
    session   \* history: logouts when the login of the stored tokens was begun

server == <<issued, accepted, lost>>
authVars == <<record, expired, holder, step, attempt, replaces, reply, server, logouts, begunAt,
              session>>

EmptyRecord == [client |-> Unset, subject |-> Unset, refresh |-> NoToken, direct |-> FALSE,
                needsLogin |-> FALSE, generation |-> 0]
SignedIn == record.refresh # NoToken

AuthInit ==
    /\ record = EmptyRecord
    /\ expired = FALSE /\ holder = Unset
    /\ step = [c \in Caller |-> "idle"]
    /\ attempt = [c \in Caller |-> EmptyRecord] /\ replaces = [c \in Caller |-> FALSE]
    /\ reply = [c \in Caller |-> NoToken]
    /\ issued = 0 /\ accepted = {} /\ lost = {}
    /\ logouts = 0 /\ begunAt = [c \in Caller |-> 0] /\ session = 0

At(c, s) == step' = [step EXCEPT ![c] = s]

\* lock(): the gate, then the file. A caller that waits for 90 s gives up.
LockFree_Ignored == TRUE
LockFree == holder = Unset
Enter(c) == LockFree /\ holder' = c
Ends(c) ==
    /\ At(c, "idle")
    /\ attempt' = [attempt EXCEPT ![c] = EmptyRecord] /\ replaces' = [replaces EXCEPT ![c] = FALSE]
    /\ reply' = [reply EXCEPT ![c] = NoToken] /\ begunAt' = [begunAt EXCEPT ![c] = 0]
Leave(c) == holder' = Unset /\ Ends(c)
-----------------------------------------------------------------------------
(* A login: the section that begins it, the browser, the sections that end it. *)

\* begin_login_mode: a new account only once nobody is signed in.
BeginLogin(c, newAccount) ==
    /\ step[c] = "idle" /\ LockFree
    /\ newAccount => ~SignedIn /\ ~record.needsLogin /\ ~record.direct
    /\ attempt' = [attempt EXCEPT ![c] =
                      IF newAccount THEN [record EXCEPT !.client = Unset, !.subject = Unset]
                                    ELSE record]
    /\ replaces' = [replaces EXCEPT ![c] = newAccount]
    /\ begunAt' = [begunAt EXCEPT ![c] = logouts]
    /\ At(c, "browser")
    /\ UNCHANGED <<record, expired, holder, reply, server, logouts, session>>

\* The callback is wrong, declined, or never comes.
GiveUpLogin(c) ==
    /\ step[c] = "browser"
    /\ Ends(c)
    /\ UNCHANGED <<record, expired, holder, server, logouts, session>>

\* finish_login: the session must be the one the attempt was begun with.
SameSession_Any(r, a) == TRUE
SameSession(r, a) == r.generation = a.generation

\* A registration that was issued just now is saved before the exchange.
FinishLogin(c, issuedClient) ==
    /\ step[c] = "browser" /\ attempt[c].client \in {Unset, issuedClient}
    /\ IF SameSession(record, attempt[c])
       THEN /\ Enter(c) /\ At(c, "code")
            /\ attempt' = [attempt EXCEPT ![c].client = issuedClient]
            /\ record' = IF record.client = Unset
                         THEN [record EXCEPT !.client = issuedClient] ELSE record
            /\ UNCHANGED <<replaces, reply, begunAt>>
       ELSE LockFree /\ Ends(c) /\ UNCHANGED <<holder, record>>
    /\ UNCHANGED <<expired, server, logouts, session>>

\* The server answers with tokens; the previous refresh token, if it was
\* presented, is over.
Issues(c, client, subject, spent) ==
    /\ issued < MaxTokens /\ issued' = issued + 1
    /\ reply' = [reply EXCEPT ![c] =
                    [number |-> issued + 1, client |-> client, subject |-> subject]]
    /\ accepted' = (accepted \ spent) \cup {issued + 1}

ExchangeCode(c, subject) ==
    /\ step[c] = "code"
    /\ Issues(c, attempt[c].client, subject, {})
    /\ At(c, "signed")
    /\ UNCHANGED <<record, expired, holder, attempt, replaces, lost, logouts, begunAt, session>>

\* The identity is validated and the tokens are applied to the attempt's record.
Applied(r, token, direct) ==
    [r EXCEPT !.refresh = token, !.direct = direct, !.needsLogin = FALSE,
              !.generation = r.generation + 1]

SameSubject_Any(r, token) == TRUE
SameSubject(r, token) == r.subject \in {Unset, token.subject}

SaveLogin(c) ==
    /\ step[c] = "signed"
    /\ SameSubject(attempt[c], reply[c])
    /\ record' = Applied([attempt[c] EXCEPT !.subject = reply[c].subject], reply[c], TRUE)
    /\ expired' = FALSE /\ session' = begunAt[c]
    /\ Leave(c)
    /\ UNCHANGED <<server, logouts>>
-----------------------------------------------------------------------------
(* access_grant: the access token, refreshed when it has less than a minute. *)

Expire ==
    /\ SignedIn /\ ~expired /\ record.generation < MaxGeneration
    /\ expired' = TRUE
    /\ UNCHANGED <<record, holder, step, attempt, replaces, reply, server, logouts, begunAt, session>>

Refresh(c) ==
    /\ step[c] = "idle" /\ SignedIn /\ record.direct /\ ~record.needsLogin /\ expired
    /\ Enter(c) /\ At(c, "refresh")
    /\ attempt' = [attempt EXCEPT ![c] = record]
    /\ UNCHANGED <<record, expired, replaces, reply, server, logouts, begunAt, session>>

\* The reply may come without a refresh token: the old one stays in use.
ExchangeRefresh(c) ==
    LET old == attempt[c].refresh IN
    /\ step[c] = "refresh" /\ old.number \in accepted
    /\ \/ Issues(c, old.client, old.subject, {old.number})
       \/ reply' = [reply EXCEPT ![c] = old] /\ UNCHANGED <<issued, accepted>>
    /\ At(c, "refreshed")
    /\ UNCHANGED <<record, expired, holder, attempt, replaces, lost, logouts, begunAt, session>>

\* The grant may come without the permission to use the plan.
SaveRefresh(c) ==
    /\ step[c] = "refreshed"
    /\ \E direct \in BOOLEAN : record' = Applied(attempt[c], reply[c], direct)
    /\ expired' = FALSE
    /\ Leave(c)
    /\ UNCHANGED <<server, logouts, session>>

\* A terminal error: the tokens are cleared and a login is asked for.
RefreshRefused(c) ==
    /\ step[c] = "refresh" /\ attempt[c].refresh.number \notin accepted
    /\ record' = [attempt[c] EXCEPT !.refresh = NoToken, !.needsLogin = TRUE,
                                    !.generation = attempt[c].generation + 1]
    /\ expired' = FALSE
    /\ Leave(c)
    /\ UNCHANGED <<server, logouts, session>>

\* Any section may end without saving: the network, an identity that cannot be
\* validated, a future that is dropped, the end of the process. Of the tokens
\* that were sent in the meantime nothing is left.
Fail(c) ==
    /\ step[c] \in {"code", "signed", "refresh", "refreshed", "revoked"}
    /\ lost' = IF step[c] = "refreshed" THEN lost \cup ({record.refresh.number} \ accepted)
               ELSE lost
    /\ Leave(c)
    /\ UNCHANGED <<record, expired, issued, accepted, logouts, session>>
-----------------------------------------------------------------------------
(* logout: the server is asked to revoke, and the tokens are cleared anyway. *)

Logout(c) ==
    /\ step[c] = "idle" /\ logouts < MaxLogouts
    /\ Enter(c) /\ At(c, "revoked")
    /\ attempt' = [attempt EXCEPT ![c] = record]
    /\ \/ UNCHANGED <<accepted, lost>>
       \/ /\ SignedIn
          /\ accepted' = accepted \ {record.refresh.number}
          /\ lost' = lost \cup {record.refresh.number}
    /\ UNCHANGED <<record, expired, replaces, reply, issued, logouts, begunAt, session>>

Cleared(r) ==
    [r EXCEPT !.refresh = NoToken, !.direct = FALSE, !.needsLogin = FALSE,
              !.generation = r.generation + 1]

SaveLogout(c) ==
    /\ step[c] = "revoked"
    /\ record' = Cleared(attempt[c])
    /\ expired' = FALSE /\ logouts' = logouts + 1
    /\ Leave(c)
    /\ UNCHANGED <<server, session>>

AuthNext ==
    \/ Expire
    \/ \E c \in Caller :
          \/ \E newAccount \in BOOLEAN : BeginLogin(c, newAccount)
          \/ GiveUpLogin(c)
          \/ \E client \in Registration : FinishLogin(c, client)
          \/ \E subject \in Account : ExchangeCode(c, subject)
          \/ SaveLogin(c)
          \/ Refresh(c) \/ ExchangeRefresh(c) \/ SaveRefresh(c) \/ RefreshRefused(c)
          \/ Fail(c)
          \/ Logout(c) \/ SaveLogout(c)

AuthSpec == AuthInit /\ [][AuthNext]_authVars
-----------------------------------------------------------------------------
AuthTypeOK ==
    /\ record \in Record /\ expired \in BOOLEAN
    /\ holder \in Caller \cup {Unset}
    /\ \A c \in Caller : step[c] \notin {"idle", "browser"} => holder = c
    /\ step \in [Caller -> {"idle", "browser", "code", "signed", "refresh", "refreshed", "revoked"}]
    /\ attempt \in [Caller -> Record] /\ replaces \in [Caller -> BOOLEAN]
    /\ reply \in [Caller -> Token]
    /\ issued \in 0..MaxTokens /\ accepted \cup lost \subseteq 1..issued
    /\ logouts \in Nat /\ begunAt \in [Caller -> Nat] /\ session \in Nat

\* Outside of the sections the stored refresh token is the one the server
\* accepts, of the stored registration and account -- unless the server's answer
\* to its exchange or its revocation was lost. So no caller presents a token
\* that another one has used.
StoredIsUsable ==
    holder = Unset /\ SignedIn =>
        /\ record.refresh.number \in accepted \cup lost
        /\ record.refresh.client = record.client
        /\ record.refresh.subject = record.subject

\* A login that was begun before a logout does not sign anybody in after it.
LogoutHolds == SignedIn => session = logouts

\* The account changes only while nobody is signed in, and after the first login
\* only by a login that was begun to replace it.
AccountIsKept ==
    [][record'.subject # record.subject =>
          /\ ~SignedIn
          /\ record.subject # Unset => \E c \in Caller : step[c] = "signed" /\ replaces[c]
      ]_authVars
=============================================================================
