------------------------------ MODULE Registry ------------------------------
(***************************************************************************)
(* One row of the workers table and the functions of WorkerRepository that *)
(* change it, with the tests WorkerService makes of a row.  Times are      *)
(* abstracted to the comparisons the code makes of them: a heartbeat is    *)
(* fresh for five minutes, a pairing token open for 24 hours.              *)
(***************************************************************************)
CONSTANTS
    Hosts,    \* machines a worker agent can be installed on
    NoHost,   \* auth_token_hash is NULL
    Nobody    \* the hash of a token whose reply never reached a machine

ASSUME RegistryAssumption == NoHost \notin Hosts /\ Nobody \notin Hosts /\ NoHost # Nobody

\* token names the machine that was sent the current token: its hash is all
\* the server keeps.
Worker == [life: {"none", "present", "deleted"}, enabled: BOOLEAN,
           status: {"unknown", "registered", "disabled"},
           health: {"unknown", "healthy", "failed"},
           token: Hosts \cup {NoHost, Nobody},
           pairing: {"none", "open", "expired"},
           beat: {"never", "fresh", "old"}]

NeverSeen == [life |-> "none", enabled |-> FALSE, status |-> "unknown",
              health |-> "unknown", token |-> NoHost, pairing |-> "none",
              beat |-> "never"]

\* upsert_local_worker, as the first run of the application leaves the row.
LocalWorker == [NeverSeen EXCEPT !.life = "present", !.enabled = TRUE,
                                 !.status = "registered"]

\* create_pending_remote_worker: every onboarding makes a key of its own.
Pending == [NeverSeen EXCEPT !.life = "present", !.enabled = TRUE,
                             !.pairing = "open"]

Present(w) == w.life = "present"

\* Mutant: the pairing token stays usable after it was used.
RegisteredUncleared(w, h, health) ==
    [life |-> "present",
     enabled |-> IF Present(w) THEN w.enabled ELSE TRUE,
     status |-> IF Present(w) /\ ~w.enabled THEN "disabled" ELSE "registered",
     health |-> health, token |-> h, pairing |-> w.pairing, beat |-> "fresh"]

\* register_remote_worker: a row an administrator disabled stays disabled.
Registered(w, h, health) ==
    [life |-> "present",
     enabled |-> IF Present(w) THEN w.enabled ELSE TRUE,
     status |-> IF Present(w) /\ ~w.enabled THEN "disabled" ELSE "registered",
     health |-> health, token |-> h, pairing |-> "none", beat |-> "fresh"]

\* mark_auth_failed: the row of the key the request names, whoever sent it.
AuthFailed(w) ==
    IF Present(w) THEN [w EXCEPT !.status = "unknown", !.health = "failed"] ELSE w

\* record_heartbeat leaves registration_status as it is.
Beaten(w, health) == [w EXCEPT !.beat = "fresh", !.health = health]

\* Mutant: enabling makes any row registered.
EnabledAlways(w, local) == [w EXCEPT !.enabled = TRUE, !.status = "registered"]

\* set_enabled(True)
Enabled(w, local) ==
    [w EXCEPT !.enabled = TRUE,
              !.status = IF local \/ w.token # NoHost THEN "registered" ELSE "unknown"]

\* set_enabled(False)
Disabled(w) ==
    [w EXCEPT !.enabled = FALSE, !.status = "disabled", !.health = "unknown"]

Deleted == [NeverSeen EXCEPT !.life = "deleted"]

\* require_authenticated_worker: 401 without, and 403 with a row refused.
Admitted(w) == w.enabled /\ w.status = "registered"

\* _ensure_remote_worker_can_execute, after the authentication.
CanExecute(w) == Admitted(w) /\ w.health # "failed"

\* worker_is_dispatchable of a remote worker.
Dispatchable(w) == Present(w) /\ CanExecute(w) /\ w.beat = "fresh"
=============================================================================
