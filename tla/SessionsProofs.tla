--------------------------- MODULE SessionsProofs ---------------------------
(* Theorems about Sessions for any tokens and any requests at once.  Two      *)
(* facts carry them: a row lock excludes, so that a consumed token is active  *)
(* and in one request's hands, and no action brings a token back that was     *)
(* revoked.                                                                   *)
EXTENDS Sessions, FiniteSetTheorems, TLAPS

(* A consumed token stays active until the request that locked it commits or  *)
(* is rolled back, and no other request has it.                               *)
Exclusive ==
    \A r \in Request :
        request[r].step = "consumed" =>
            /\ request[r].token \in Token /\ tokens[request[r].token] = "active"
            /\ \A q \in Request :
                  request[q].step = "consumed" /\ request[q].token = request[r].token => q = r

(* A token has a successor only once it is revoked, and then one.             *)
OneHeir ==
    \A t \in Token :
        heirs[t] # {} => tokens[t] = "revoked" /\ \E u \in Token : heirs[t] = {u}

(* The insert of a bootstrap row waits for another's.                         *)
OneAdmin ==
    /\ admins \in {0, 1}
    /\ \A r \in Request :
          request[r].step = "inserted" =>
              /\ admins = 0
              /\ \A q \in Request : request[q].step = "inserted" => q = r

(* What a logout found has been issued; what a committed one found is over.   *)
Found ==
    /\ \A r \in Request : \A t \in request[r].found : tokens[t] # "unissued"
    /\ \A t \in gone : tokens[t] \in {"revoked", "expired"}

SessionsInv == SessionsTypeOK /\ Exclusive /\ OneHeir /\ OneAdmin /\ Found

(* The invariant holds before the first request.                              *)
LEMMA SessionsStart == SessionsInit => SessionsInv
BY SessionsAssumption
   DEF SessionsInit, SessionsInv, SessionsTypeOK, Exclusive, OneHeir, OneAdmin, Found, Idle

(* Every step of a request, a rollback and the passing of time keep it.       *)
LEMMA SessionsKept == SessionsInv /\ [SessionsNext]_sessionVars => SessionsInv'
<1> USE SessionsAssumption
        DEF SessionsInv, SessionsTypeOK, Exclusive, OneHeir, OneAdmin, Found, Idle
<1> SUFFICES ASSUME SessionsInv, [SessionsNext]_sessionVars PROVE SessionsInv'
    OBVIOUS
<1>1. ASSUME NEW r \in Request, BootstrapInsert(r) PROVE SessionsInv'
    BY <1>1 DEF BootstrapInsert
<1>2. ASSUME NEW r \in Request, BootstrapCommit(r) PROVE SessionsInv'
    BY <1>2 DEF BootstrapCommit
<1>3. CASE Login
    BY <1>3 DEF Login, Unissued
<1>4. ASSUME NEW r \in Request, NEW t \in Token, Consume(r, t) PROVE SessionsInv'
    BY <1>4 DEF Consume, Locked
<1>5. ASSUME NEW r \in Request, Exchange(r) PROVE SessionsInv'
    <2> DEFINE t == request[r].token
    <2>1. PICK u \in Unissued : Succeeds(u, t)
        BY <1>5 DEF Exchange
    <2>2. /\ request[r].step = "consumed" /\ t \in Token /\ tokens[t] = "active"
          /\ u \in Token /\ tokens[u] = "unissued"
          /\ request' = [request EXCEPT ![r] = Idle] /\ UNCHANGED <<admins, gone>>
        BY <1>5, <2>1 DEF Exchange, Unissued
    <2>3. /\ tokens' = [tokens EXCEPT ![t] = "revoked", ![u] = "active"]
          /\ heirs' = [heirs EXCEPT ![t] = @ \cup {u}]
        BY <2>1 DEF Succeeds
    <2>4. /\ tokens'[t] = "revoked" /\ tokens'[u] = "active"
          /\ \A v \in Token \ {t, u} : tokens'[v] = tokens[v]
        BY <2>2, <2>3
    <2>5. /\ heirs[t] = {} /\ heirs'[t] = {u}
          /\ \A v \in Token \ {t} : heirs'[v] = heirs[v]
        BY <2>2, <2>3
    <2>6. /\ request'[r] = Idle
          /\ \A q \in Request \ {r} : request'[q] = request[q]
        BY <2>2
    <2>7. SessionsTypeOK'
        BY <2>2, <2>3
    <2> HIDE DEF t
    <2>8. Exclusive'
        BY <2>2, <2>4, <2>6 DEF t
    <2>9. OneHeir'
        BY <2>2, <2>4, <2>5
    <2>10. OneAdmin'
        BY <2>2, <2>6
    <2>11. Found'
        BY <2>2, <2>4, <2>6
    <2> QED BY <2>7, <2>8, <2>9, <2>10, <2>11
<1>6. ASSUME NEW r \in Request, LogoutRead(r) PROVE SessionsInv'
    BY <1>6 DEF LogoutRead
<1>7. ASSUME NEW r \in Request, LogoutCommit(r) PROVE SessionsInv'
    BY <1>7 DEF LogoutCommit, Revoked, Locked
<1>8. ASSUME NEW r \in Request, Rollback(r) PROVE SessionsInv'
    BY <1>8 DEF Rollback
<1>9. ASSUME NEW t \in Token, Expire(t) PROVE SessionsInv'
    BY <1>9 DEF Expire, Locked
<1>10. CASE UNCHANGED sessionVars
    BY <1>10 DEF sessionVars
<1> QED
    BY <1>1, <1>2, <1>3, <1>4, <1>5, <1>6, <1>7, <1>8, <1>9, <1>10 DEF SessionsNext

(* A refresh token is exchanged once and one bootstrap administrator is       *)
(* created, for any number of tokens and of requests at once                  *)
(* (consume_active_token, bootstrap_admin).                                   *)
THEOREM UsedOnce == SessionsSpec => []SingleUse
<1>1. SessionsInv => SingleUse
    <2> SUFFICES ASSUME SessionsInv PROVE SingleUse
        OBVIOUS
    <2>1. ASSUME NEW t \in Token PROVE Cardinality(heirs[t]) <= 1
        <3>1. CASE heirs[t] = {}
            BY <3>1, FS_EmptySet
        <3>2. CASE heirs[t] # {}
            <4>1. PICK u \in Token : heirs[t] = {u}
                BY <3>2 DEF SessionsInv, OneHeir
            <4> QED BY <4>1, FS_Singleton
        <3> QED BY <3>1, <3>2
    <2>2. admins <= 1
        BY DEF SessionsInv, OneAdmin
    <2> QED BY <2>1, <2>2 DEF SingleUse
<1> QED BY <1>1, SessionsStart, SessionsKept, PTL DEF SessionsSpec

(* A token that a logout found active is never active again, whatever was     *)
(* under way when it was read (revoke_all_for_user).                          *)
THEOREM LogoutsHold == SessionsSpec => []LogoutRevokes
<1>1. SessionsInv => LogoutRevokes
    BY DEF SessionsInv, Found, LogoutRevokes
<1> QED BY <1>1, SessionsStart, SessionsKept, PTL DEF SessionsSpec

(* Rows, successors and requests keep their types, for any tokens and any     *)
(* requests at once.                                                          *)
THEOREM SessionsTyped == SessionsSpec => []SessionsTypeOK
<1>1. SessionsInv => SessionsTypeOK
    BY DEF SessionsInv
<1> QED BY <1>1, SessionsStart, SessionsKept, PTL DEF SessionsSpec

(* Every commit of a request is a step of SignIn, whatever the other requests *)
(* have read or locked meanwhile (bootstrap_admin, login, refresh, logout);   *)
(* what a request does before its commit is none.                             *)
LEMMA StepsSignIn ==
    SessionsInv /\ SessionsInv' /\ [SessionsNext]_sessionVars
        => [SignIn!Next]_<<tokens, heirs, admins>>
<1> USE SessionsAssumption
<1> SUFFICES ASSUME SessionsInv, SessionsInv', [SessionsNext]_sessionVars
             PROVE  [SignIn!Next]_<<tokens, heirs, admins>>
    OBVIOUS
<1>t. /\ tokens \in [Token -> {"unissued", "active"} \cup SignIn!Spent]
      /\ tokens' \in [Token -> {"unissued", "active"} \cup SignIn!Spent]
    BY DEF SessionsInv, SessionsTypeOK, SignIn!Spent
<1>1. ASSUME NEW r \in Request, BootstrapCommit(r) PROVE SignIn!Appoint
    BY <1>1 DEF BootstrapCommit, SignIn!Appoint, SessionsInv, OneAdmin
<1>2. ASSUME Login PROVE SignIn!Issue
    <2>1. PICK t \in Unissued : tokens' = [tokens EXCEPT ![t] = "active"]
        BY <1>2 DEF Login
    <2>2. admins > 0 /\ UNCHANGED <<heirs, admins>>
        BY <1>2 DEF Login, HasAccount
    <2>3. admins = 1
        BY <2>2 DEF SessionsInv, OneAdmin
    <2> QED BY <2>1, <2>2, <2>3 DEF Unissued, SignIn!Issue
<1>3. ASSUME NEW r \in Request, Exchange(r) PROVE SignIn!Renew
    <2> DEFINE t == request[r].token
    <2>1. PICK u \in Unissued : Succeeds(u, t)
        BY <1>3 DEF Exchange
    <2>2. /\ t \in Token /\ tokens[t] = "active"
          /\ u \in Token /\ tokens[u] = "unissued" /\ admins' = admins
        BY <1>3, <2>1 DEF Exchange, Unissued, SessionsInv, Exclusive
    <2>3. /\ tokens' = [tokens EXCEPT ![t] = "revoked", ![u] = "active"]
          /\ heirs' = [heirs EXCEPT ![t] = @ \cup {u}]
        BY <2>1 DEF Succeeds
    <2> HIDE DEF t
    <2>4. heirs[t] = {}
        BY <2>2 DEF SessionsInv, OneHeir
    <2>5. heirs' = [heirs EXCEPT ![t] = {u}]
        BY <2>3, <2>4
    <2> QED BY <2>2, <2>3, <2>5 DEF SignIn!Renew
<1>4. ASSUME NEW r \in Request, LogoutCommit(r) PROVE SignIn!Withdraw
    <2>1. /\ tokens' = [t \in Token |-> IF t \in request[r].found THEN "revoked" ELSE tokens[t]]
          /\ UNCHANGED <<heirs, admins>>
        BY <1>4 DEF LogoutCommit, Revoked
    <2>2. \A t \in request[r].found : tokens[t] # "unissued"
        BY DEF SessionsInv, Found
    <2> QED BY <1>t, <2>1, <2>2 DEF SignIn!Withdraw, SignIn!Spent
<1>5. ASSUME NEW t \in Token, Expire(t) PROVE SignIn!Withdraw
    BY <1>t, <1>5 DEF Expire, SignIn!Withdraw, SignIn!Spent
<1>6. ASSUME NEW r \in Request,
             \/ BootstrapInsert(r) \/ LogoutRead(r) \/ Rollback(r)
             \/ \E t \in Token : Consume(r, t)
      PROVE UNCHANGED <<tokens, heirs, admins>>
    BY <1>6 DEF BootstrapInsert, LogoutRead, Rollback, Consume
<1>7. CASE UNCHANGED sessionVars
    BY <1>7 DEF sessionVars
<1> QED
    BY <1>1, <1>2, <1>3, <1>4, <1>5, <1>6, <1>7 DEF SessionsNext, SignIn!Next

(* The sign-in sessions implement SignIn for any tokens and any requests at   *)
(* once: one administrator is appointed, before anyone signs in, a refresh    *)
(* token is good for one renewal, and no rollback or logout interleaved with  *)
(* it makes a token live that was renewed, revoked or left to expire          *)
(* (bootstrap_admin, consume_active_token, revoke_all_for_user).              *)
THEOREM SignInKept == SessionsSpec => KeepsSignIn
<1>1. SessionsInit => SignIn!Init
    BY DEF SessionsInit, SignIn!Init
<1> QED
    BY <1>1, SessionsStart, SessionsKept, StepsSignIn, PTL
    DEF SessionsSpec, KeepsSignIn, SignIn!Spec
=============================================================================
