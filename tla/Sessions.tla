------------------------------ MODULE Sessions ------------------------------
(* Sign-in sessions: refresh tokens that are exchanged once, logout, and the  *)
(* creation of the first administrator (services/auth.py, the refresh token   *)
(* repository, the endpoints of api/auth.py).  Requests run concurrently on   *)
(* committed rows; a request holds the row locks it took until it commits.    *)
EXTENDS Integers, FiniteSets

CONSTANTS
    Token,    \* refresh tokens, issued in any order
    Request,  \* concurrent requests
    NoToken

ASSUME SessionsAssumption == NoToken \notin Token

VARIABLES
    tokens,   \* committed rows: each token's state
    heirs,    \* for each token, the tokens issued in exchange for it
    request,  \* what each request in flight has done, uncommitted
    admins,   \* committed bootstrap administrators
    gone      \* tokens a committed logout found active

sessionVars == <<tokens, heirs, request, admins, gone>>

Idle == [step |-> "idle", token |-> NoToken, found |-> {}]

SessionsTypeOK ==
    /\ tokens \in [Token -> {"unissued", "active", "revoked", "expired"}]
    /\ heirs \in [Token -> SUBSET Token]
    /\ request \in [Request ->
            [step : {"idle", "consumed", "logout", "inserted"},
             token : Token \cup {NoToken}, found : SUBSET Token]]
    /\ admins \in Nat
    /\ gone \subseteq Token

SessionsInit ==
    /\ tokens = [t \in Token |-> "unissued"]
    /\ heirs = [t \in Token |-> {}]
    /\ request = [r \in Request |-> Idle]
    /\ admins = 0
    /\ gone = {}

(* The row of a token consumed by a request that has not committed is locked. *)
NeverLocked(t) == FALSE
Locked(t) == \E r \in Request : request[r].step = "consumed" /\ request[r].token = t
Unissued == {t \in Token : tokens[t] = "unissued"}

(* bootstrap_admin: the insert waits for another request's insert of the      *)
(* uniquely indexed bootstrap row to commit or roll back.                     *)
BootstrapInsert(r) ==
    /\ request[r].step = "idle"
    /\ admins = 0
    /\ \A q \in Request : request[q].step # "inserted"
    /\ request' = [request EXCEPT ![r].step = "inserted"]
    /\ UNCHANGED <<tokens, heirs, admins, gone>>

BootstrapCommit(r) ==
    /\ request[r].step = "inserted"
    /\ admins' = admins + 1
    /\ request' = [request EXCEPT ![r] = Idle]
    /\ UNCHANGED <<tokens, heirs, gone>>

(* login: the account is looked up, and a new token issued that is visible    *)
(* when the request commits.                                                  *)
HasAccount == admins > 0

Login ==
    /\ HasAccount
    /\ \E t \in Unissued : tokens' = [tokens EXCEPT ![t] = "active"]
    /\ UNCHANGED <<heirs, request, admins, gone>>

(* consume_active_token: one conditional UPDATE, which waits for the row and  *)
(* then looks at the committed row again.                                     *)
Consume(r, t) ==
    /\ request[r].step = "idle"
    /\ tokens[t] = "active"
    /\ ~Locked(t)
    /\ request' = [request EXCEPT ![r] = [step |-> "consumed", token |-> t, found |-> {}]]
    /\ UNCHANGED <<tokens, heirs, admins, gone>>

(* refresh, to its commit: the token revoked and its successor issued.        *)
Succeeds(u, t) ==
    /\ tokens' = [tokens EXCEPT ![t] = "revoked", ![u] = "active"]
    /\ heirs' = [heirs EXCEPT ![t] = @ \cup {u}]

Exchange(r) ==
    /\ request[r].step = "consumed"
    /\ \E u \in Unissued : Succeeds(u, request[r].token)
    /\ request' = [request EXCEPT ![r] = Idle]
    /\ UNCHANGED <<admins, gone>>

(* revoke_all_for_user: the active rows are read, and each is then updated    *)
(* by key, which waits for the rows other requests have consumed.             *)
LogoutRead(r) ==
    /\ request[r].step = "idle"
    /\ HasAccount
    /\ request' = [request EXCEPT ![r] = [step |-> "logout", token |-> NoToken,
                                          found |-> {t \in Token : tokens[t] = "active"}]]
    /\ UNCHANGED <<tokens, heirs, admins, gone>>

RevokedUnlocked(found) == {t \in found : ~Locked(t)}
Revoked(found) == found

LogoutCommit(r) ==
    /\ request[r].step = "logout"
    /\ \A t \in Revoked(request[r].found) : ~Locked(t)
    /\ tokens' = [t \in Token |-> IF t \in Revoked(request[r].found)
                                  THEN "revoked" ELSE tokens[t]]
    /\ gone' = gone \cup request[r].found
    /\ request' = [request EXCEPT ![r] = Idle]
    /\ UNCHANGED <<heirs, admins>>

(* A request that fails or whose process dies is rolled back.                 *)
Rollback(r) ==
    /\ request[r].step # "idle"
    /\ request' = [request EXCEPT ![r] = Idle]
    /\ UNCHANGED <<tokens, heirs, admins, gone>>

Expire(t) ==
    /\ tokens[t] = "active"
    /\ ~Locked(t)
    /\ tokens' = [tokens EXCEPT ![t] = "expired"]
    /\ UNCHANGED <<heirs, request, admins, gone>>

SessionsNext ==
    \/ \E r \in Request :
          \/ BootstrapInsert(r) \/ BootstrapCommit(r)
          \/ Exchange(r) \/ LogoutRead(r) \/ LogoutCommit(r) \/ Rollback(r)
          \/ \E t \in Token : Consume(r, t)
    \/ Login
    \/ \E t \in Token : Expire(t)

SessionsSpec == SessionsInit /\ [][SessionsNext]_sessionVars
-----------------------------------------------------------------------------
(* What may be used once is used once, whatever the requests in flight: a     *)
(* refresh token has at most one successor and there is at most one           *)
(* bootstrap administrator.                                                   *)
SingleUse ==
    /\ \A t \in Token : Cardinality(heirs[t]) <= 1
    /\ admins <= 1

(* A token that a logout found active is never active again, not even when    *)
(* the refresh that had consumed it at that moment is rolled back.            *)
LogoutRevokes == \A t \in gone : tokens[t] # "active"

(* What the requests promise together, each in its commits: a token is        *)
(* accepted for one renewal and never again after it.                         *)
SignIn == INSTANCE SignIn
KeepsSignIn == SignIn!Spec
=============================================================================
