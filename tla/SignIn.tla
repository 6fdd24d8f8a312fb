------------------------------- MODULE SignIn -------------------------------
(***************************************************************************)
(* What signing in promises to whoever relies on it, without the requests  *)
(* and locks that keep the promise: nobody holds a token before an         *)
(* administrator is appointed, and only one is; a token is good for one    *)
(* renewal, which trades it for one fresh token; and one that was renewed, *)
(* withdrawn or left to expire is never accepted again.                    *)
(***************************************************************************)
CONSTANT Token

VARIABLES
    tokens,   \* what a token is worth: only an active one is accepted
    heirs,    \* for each token, the tokens it was traded for
    admins    \* administrators appointed at the start

Spent == {"revoked", "expired"}

Init ==
    /\ tokens = [t \in Token |-> "unissued"]
    /\ heirs = [t \in Token |-> {}]
    /\ admins = 0

Appoint == admins = 0 /\ admins' = 1 /\ UNCHANGED <<tokens, heirs>>

Issue ==
    /\ admins = 1
    /\ \E t \in Token :
          tokens[t] = "unissued" /\ tokens' = [tokens EXCEPT ![t] = "active"]
    /\ UNCHANGED <<heirs, admins>>

Renew ==
    /\ \E t \in Token, u \in Token :
          /\ tokens[t] = "active" /\ tokens[u] = "unissued"
          /\ tokens' = [tokens EXCEPT ![t] = "revoked", ![u] = "active"]
          /\ heirs' = [heirs EXCEPT ![t] = {u}]
    /\ UNCHANGED admins

\* A logout withdraws several at once.
Withdraw ==
    /\ tokens' \in [Token -> {"unissued", "active"} \cup Spent]
    /\ \A t \in Token :
          tokens'[t] # tokens[t] => tokens[t] # "unissued" /\ tokens'[t] \in Spent
    /\ UNCHANGED <<heirs, admins>>

Next == Withdraw \/ Appoint \/ Issue \/ Renew

Spec == Init /\ [][Next]_<<tokens, heirs, admins>>
=============================================================================
