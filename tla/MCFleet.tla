------------------------------ MODULE MCFleet ------------------------------
(* Small deployments of Fleet for TLC.                                     *)
EXTENDS Fleet

CONSTANTS w1, h1, h2, j1, j2, r1, r2, api, local

MCKeyOf == [h \in Hosts |-> w1]
MCLoopOf == [r \in Runs |-> api]

\* Either a machine pairs and a second one registers for the same key with the
\* secret, or the local loop works: the two share nothing but the sweep.
MCInit ==
    /\ Init
    /\ \/ /\ \A r \in Runs : run[r].phase = "absent"
          /\ row[j1].status = "pending" /\ row[j2].status = "none"
          /\ agent[h1].phase = "down" /\ ~agent[h1].secret
          /\ agent[h2].phase = "down" /\ agent[h2].secret
          /\ reg[w1] = NeverSeen
       \/ /\ \A h \in Hosts : agent[h].phase = "absent" /\ ~agent[h].secret
          /\ \A j \in Jobs : row[j].status = "pending"
          /\ \A r \in Runs : run[r].phase = "idle"
          /\ reg[w1] = Deleted

MCSpec == MCInit /\ [][Next]_vars /\ Fairness
=============================================================================
