---------------------------- MODULE PathMapping -----------------------------
(* What a remote worker is given and what is made of its answer: the media    *)
(* file's path, translated to the worker's mounts when a job is offered, and  *)
(* the paths of its result, translated back and accepted only under the       *)
(* server's own roots (encodr_shared/path_mappings.py, path_safety.py and the *)
(* preference, offer and result handlers of services/worker.py).              *)
(* A path is the sequence of its names.                                       *)
EXTENDS Integers, Sequences, SequencesExt

CONSTANTS
    Name,        \* names of files and directories
    Mappings,    \* the lists of mappings an administrator may configure
    Scratches,   \* scratch directories, likewise
    MediaFiles,  \* files of the library, as the server names them
    MediaRoots,  \* the server's media mounts; its backups are beside the files
    ServerScratch,
    Mounted,     \* worker paths that exist there with a marker file
    Writable,    \* server paths the server can write a marker in
    NoPath

(* What is mounted and mapped are directories: a media file lies inside its   *)
(* root and is no mapping, and no mapping is a backup.  A worker whose scratch *)
(* directory lies on a mapping has it in the library.                         *)
ASSUME PathAssumption ==
    /\ {"output", "backup"} \subseteq Name
    /\ Mappings \subseteq Seq([server : Seq(Name), worker : Seq(Name)])
    /\ Scratches \cup MediaFiles \cup MediaRoots \subseteq Seq(Name)
    /\ NoPath \notin Seq(Name)
    /\ \A f \in MediaFiles : \E r \in MediaRoots : r # f /\ IsPrefix(r, f)
    /\ \A ms \in Mappings : \A i \in DOMAIN ms :
          /\ ms[i].server \notin MediaFiles
          /\ ms[i].worker # <<>> => Last(ms[i].worker) # "backup"
          /\ \A s \in Scratches : IsPrefix(ms[i].worker, Append(s, "output")) =>
                \E r \in MediaRoots : IsPrefix(r, ms[i].server)

Inside(path, roots) == \E r \in roots : IsPrefix(r, path)
Rest(path, root) == SubSeq(path, Len(root) + 1, Len(path))
Beside(path, name) == Append(Front(path), name)

(* Mappings are tried from the longest server path to the shortest, and in    *)
(* the order given among equals; by server path, or by worker path.           *)
Foremost(ms, hits) ==
    CHOOSE i \in hits : \A k \in hits \ {i} :
        \/ Len(ms[i].server) > Len(ms[k].server)
        \/ Len(ms[i].server) = Len(ms[k].server) /\ i < k

ServerHits(ms, path) == {i \in DOMAIN ms : IsPrefix(ms[i].server, path)}
WorkerHits(ms, path) == {i \in DOMAIN ms : IsPrefix(ms[i].worker, path)}

ToWorker(ms, path) ==
    LET i == Foremost(ms, ServerHits(ms, path))
    IN IF ServerHits(ms, path) = {} THEN NoPath
       ELSE ms[i].worker \o Rest(path, ms[i].server)

ToServerByWorkerPath(ms, path) ==
    LET i == CHOOSE k \in WorkerHits(ms, path) :
                 \A l \in WorkerHits(ms, path) : Len(ms[l].worker) <= Len(ms[k].worker)
    IN IF WorkerHits(ms, path) = {} THEN path
       ELSE ms[i].server \o Rest(path, ms[i].worker)
ToServer(ms, path) ==
    LET i == Foremost(ms, WorkerHits(ms, path))
    IN IF WorkerHits(ms, path) = {} THEN path
       ELSE ms[i].server \o Rest(path, ms[i].worker)

(* _resolve_remote_source_path: without mappings both see the same paths.     *)
Source(ms, file) == IF ms = <<>> THEN file ELSE ToWorker(ms, file)
-----------------------------------------------------------------------------
VARIABLES
    worker,  \* its row: mappings, scratch directory, and whether the last
             \* heartbeat found all mappings usable
    agent,   \* the worker paths and scratch directory it has heard of, and
             \* the paths its last heartbeat reported as invalid
    task,    \* the job in hand
    edited   \* the row was edited since the agent last heard of it

pathVars == <<worker, agent, task, edited>>
NoTask == [at |-> "none", file |-> NoPath, given |-> NoPath, status |-> "none",
           output |-> NoPath, final |-> NoPath, backup |-> NoPath]

WorkerPaths(ms) == {ms[i].worker : i \in DOMAIN ms}
(* The row's configuration, as answers carry it.                              *)
Configuration(w, invalid) ==
    [paths |-> WorkerPaths(w.mappings), scratch |-> w.scratch, invalid |-> invalid]

PathTypeOK ==
    /\ worker.mappings \in Mappings /\ worker.scratch \in Scratches /\ worker.usable \in BOOLEAN
    /\ agent.scratch \in Scratches /\ agent.invalid \cap Mounted = {}
    /\ task.at \in {"none", "offered", "running", "done", "recorded"}
    /\ task.at # "none" => task.file \in MediaFiles /\ task.given # NoPath
    /\ edited \in BOOLEAN

PathInit ==
    /\ worker \in [mappings : Mappings, scratch : Scratches, usable : {TRUE}]
    /\ agent = Configuration(worker, {})
    /\ task = NoTask
    /\ edited = FALSE

(* update_worker_preferences: what the last heartbeat reported stays.         *)
Edit ==
    /\ \E ms \in Mappings, scratch \in Scratches :
          worker' = [worker EXCEPT !.mappings = ms, !.scratch = scratch]
    /\ edited' = TRUE
    /\ UNCHANGED <<agent, task>>

(* A heartbeat carries the agent's findings on the worker paths it knows, as  *)
(* "validation_status"; the server looks for "status" in them, finds none and *)
(* takes what its own writing of the marker gave.                             *)
Findings(paths) == paths \ Mounted
Marked(ms) == {i \in DOMAIN ms : ms[i].server \in Writable}
Validated(ms) == Marked(ms) = DOMAIN ms

Beat ==
    /\ task.at = "none"
    /\ worker' = [worker EXCEPT !.usable = Validated(worker.mappings)]
    /\ agent' = Configuration(worker, Findings(agent.paths))
    /\ edited' = FALSE
    /\ UNCHANGED task

(* _remote_worker_can_run_job, for a worker fit in all other respects.        *)
CanRun(file) == worker.usable /\ Source(worker.mappings, file) # NoPath

Offer ==
    /\ task.at = "none"
    /\ \E file \in MediaFiles :
          /\ CanRun(file)
          /\ task' = [NoTask EXCEPT !.at = "offered", !.file = file,
                                    !.given = Source(worker.mappings, file)]
    /\ UNCHANGED <<worker, agent, edited>>

(* The claim looks again, and the agent works on the path of the offer.       *)
Accept ==
    /\ task.at = "offered"
    /\ task' = IF CanRun(task.file) THEN [task EXCEPT !.at = "running"] ELSE NoTask
    /\ UNCHANGED <<worker, agent, edited>>

Execute ==
    /\ task.at = "running"
    /\ \/ task' = [task EXCEPT !.at = "done", !.status = "completed",
                      !.output = Append(agent.scratch, "output"),
                      !.final = task.given, !.backup = Beside(task.given, "backup")]
       \/ task' = [task EXCEPT !.at = "done", !.status = "failed"]
    /\ UNCHANGED <<worker, agent, edited>>

(* _normalise_remote_execution_result_paths: every path of the result is      *)
(* translated with the mappings of the moment, and must be under a root.      *)
Translated(path) == IF path = NoPath THEN NoPath ELSE ToServer(worker.mappings, path)
Authorized(path, roots) == path = NoPath \/ Inside(path, roots)
OutputRoots == MediaRoots \cup {ServerScratch, worker.scratch}
Untrusted == [NoTask EXCEPT !.at = "recorded", !.file = task.file, !.given = task.given,
                            !.status = "untrusted"]

Returned ==
    LET output == Translated(task.output)
        final == Translated(task.final)
        backup == Translated(task.backup)
    IN IF /\ Authorized(output, OutputRoots)
          /\ Authorized(final, MediaRoots)
          /\ Authorized(backup, MediaRoots)
       THEN [task EXCEPT !.at = "recorded", !.output = output, !.final = final, !.backup = backup]
       ELSE Untrusted

Return ==
    /\ task.at = "done"
    /\ task' = Returned
    /\ UNCHANGED <<worker, agent, edited>>

NextTask ==
    /\ task.at = "recorded"
    /\ task' = NoTask
    /\ UNCHANGED <<worker, agent, edited>>

PathNext == Edit \/ Beat \/ Offer \/ Accept \/ Execute \/ Return \/ NextTask

PathSpec == PathInit /\ [][PathNext]_pathVars
-----------------------------------------------------------------------------
(* What a worker did is recorded, and for the file it was asked to do: while  *)
(* its configuration stands, a completed replacement is never taken for an    *)
(* untrusted result, and its paths come back as the file's own and its        *)
(* backup's, nested mappings included.  It takes a mapping that does not      *)
(* hide the file: one whose worker path holds what the worker was given only  *)
(* when its server path holds the file.                                       *)
Visible(ms, file) == WorkerHits(ms, Source(ms, file)) \subseteq ServerHits(ms, file)

ReturnsToFile ==
    task.at = "recorded" /\ ~edited /\ Visible(worker.mappings, task.file) =>
        /\ task.status # "untrusted"
        /\ task.status = "completed" =>
              task.final = task.file /\ task.backup = Beside(task.file, "backup")

(* "Once mappings are configured we require them to validate cleanly"         *)
(* (services/worker.py:2058-2061): a job is offered only to a worker whose    *)
(* last heartbeat found none of its configured mappings invalid.  The code    *)
(* never reads the agent's finding.                                           *)
MappingsValidate ==
    task.at = "offered" /\ ~edited => agent.invalid \cap WorkerPaths(worker.mappings) = {}
=============================================================================
