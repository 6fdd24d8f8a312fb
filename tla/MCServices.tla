----------------------------- MODULE MCServices -----------------------------
(* The API's services over the database, each on its own: a behaviour is one  *)
(* of the library's, a bulk operation's, the sign-in sessions', the schedule   *)
(* windows' or a worker's paths', while the variables of the others rest.      *)
EXTENDS Library, BulkQueue, Sessions, Windows, PathMapping

VARIABLE part

MCBoundaries == {0, 2}
TwoWindows == {{}} \cup {{v, w} : v, w \in Window}

MCName == {"m", "n", "a", "x", "f", "w", "v", "s", "t", "output", "backup"}
Maps(here, there) == [server |-> here, worker |-> there]
MCMappings ==
    {<<>>, <<Maps(<<"m">>, <<"w">>)>>,
     <<Maps(<<"m">>, <<"w">>), Maps(<<"n">>, <<"v">>)>>,
     <<Maps(<<"m">>, <<"w">>), Maps(<<"m", "a">>, <<"v">>)>>,
     <<Maps(<<"m">>, <<"w">>), Maps(<<"m", "a">>, <<"w", "x">>)>>,
     <<Maps(<<"m">>, <<"w", "x">>), Maps(<<"n">>, <<"w">>)>>,
     <<Maps(<<"m">>, <<"w", "x">>), Maps(<<"m", "a">>, <<"w">>)>>}
MCMediaFiles == {<<"m", "f">>, <<"m", "a", "f">>, <<"m", "x", "f">>, <<"m", "a", "x", "f">>, <<"n", "f">>}
MCMediaRoots == {<<"m">>, <<"n">>}
MCScratches == {<<"s">>, <<"t">>}
MCServerScratch == <<"scratch">>
MCMounted == {<<"w">>, <<"w", "x">>}
MCWritable == {<<"m">>, <<"m", "a">>}

(* The bounds on the library's concurrency: one caller makes requests of all  *)
(* kinds beside the executor, and those that create, retry or restore beside  *)
(* a sweep too; Reviewer's restores and approvals run beside the other's      *)
(* requests while no job runs and no sweep has been through.  Only the newest *)
(* job has the policy that deletes its backup.                                *)
CONSTANT Reviewer
BesideAnother ==
    /\ call[Reviewer].op \in {"restore", "approve"}
    /\ ~sweep.on /\ ~seen /\ Len(plans) <= Len(jobs) + 1
    /\ \A j \in JobIds : /\ jobs[j].status # "running" /\ jobs[j].policy # "delete"
                         /\ ~jobs[j].due /\ jobs[j].backup # "gone"
    /\ \A c \in Caller \ {Reviewer} : call[c].op \in {"none", "create", "retry", "recover"}
LibraryBound ==
    /\ call[Reviewer] = NoCall \/ BesideAnother
    /\ sweep.on => \A c \in Caller : call[c].op \in {"none", "create", "retry", "restore"}
    /\ \A j \in JobIds : jobs[j].policy = "delete" => j = Len(jobs)

vars == <<part, libVars, bulkVars, sessionVars, windowVars, pathVars>>

MCInit ==
    /\ part \in {"library", "bulk", "sessions", "windows", "paths"}
    /\ LibraryInit /\ BulkInit /\ SessionsInit
    /\ windows \in IF part = "windows" THEN TwoWindows ELSE {{}}
    /\ WindowsInit
    /\ part # "windows" => now = 0
    /\ IF part = "paths" THEN PathInit
       ELSE worker = "none" /\ agent = "none" /\ task = NoTask /\ edited = FALSE

MCNext ==
    \/ part = "library" /\ LibraryNext /\ UNCHANGED <<part, bulkVars, sessionVars, windowVars, pathVars>>
    \/ part = "bulk" /\ BulkNext /\ UNCHANGED <<part, libVars, sessionVars, windowVars, pathVars>>
    \/ part = "sessions" /\ SessionsNext /\ UNCHANGED <<part, libVars, bulkVars, windowVars, pathVars>>
    \/ part = "windows" /\ WindowsNext /\ UNCHANGED <<part, libVars, bulkVars, sessionVars, pathVars>>
    \/ part = "paths" /\ PathNext /\ UNCHANGED <<part, libVars, bulkVars, sessionVars, windowVars>>

Threads == \A o \in Operation : WF_vars(part = "bulk" /\ ThreadStep(o) /\ UNCHANGED <<part, libVars, sessionVars, windowVars, pathVars>>)

MCSpec == MCInit /\ [][MCNext]_vars /\ Threads

TypeOK ==
    /\ LibraryTypeOK /\ BulkTypeOK /\ SessionsTypeOK /\ WindowsTypeOK
    /\ part = "paths" => PathTypeOK
=============================================================================
