----------------------------- MODULE MCJobQueue -----------------------------
(* Small instances of JobQueue for TLC.                                    *)
EXTENDS JobQueue, TLC

CONSTANTS j1, j2, f1, f2, loc, rem, loop, agent, s1, s2

\* Who acts for which worker row, when both kinds of executor exist.
OnLocal == [e \in Executors |-> loc]
OnRemote == [e \in Executors |-> rem]
OnBoth == (loop :> loc) @@ (agent :> rem)

OneEach == [w \in Workers |-> 1]

\* Jobs, sessions and files are interchangeable (Protected is empty or all); no liveness is checked.
Interchangeable == Permutations(Jobs) \cup Permutations(Sessions)
                   \cup Permutations(Files)
=============================================================================
