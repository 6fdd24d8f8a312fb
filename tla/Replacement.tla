---------------------------- MODULE Replacement ----------------------------
(***************************************************************************)
(* ReplacementService: a verified output takes the place of a media file.  *)
(* Every file operation is one step, may raise an OSError, and the process *)
(* may die between two of them.  The placements of one file follow each    *)
(* other, or overlap when a job that was taken for interrupted still runs. *)
(***************************************************************************)
EXTENDS Naturals

CONSTANTS
    Placements,   \* executions of the file's jobs that reach placement
    Original,     \* the content of the file before the first of them
    Torn,         \* the content of a file whose copying was cut short
    Absent,       \* no file of that name
    Plans,        \* replacement settings considered, a subset of Settings
    Errors,       \* file operations may raise an OSError
    Cuts,         \* a copy across file systems may be cut short
    Overlap,      \* executions of one file may overlap
    NoPlan

\* The source's own name, the name with the plan's container, the backup, and
\* the name of an output placed alongside.
Names == {"source", "target", "backup", "beside"}

\* What a verified output may contain; each placement makes its own.
Versions == Placements \cup {Original}
Content == Versions \cup {Torn, Absent}

\* plan.replace; recontained: the plan's container has another suffix.
Settings == [inPlace: BOOLEAN, recontained: BOOLEAN, delete: BOOLEAN,
             strategy: {"fail", "replace_backup", "keep_existing_backup"}]

ASSUME ReplacementAssumption ==
    /\ Original \notin Placements
    /\ Torn \notin Versions
    /\ Absent \notin Versions \cup {Torn}
    /\ Plans \subseteq Settings
    /\ NoPlan \notin Settings
    /\ Errors \in BOOLEAN
    /\ Cuts \in BOOLEAN
    /\ Overlap \in BOOLEAN

VARIABLES
    disk,      \* content under each name
    aside,     \* the old backup, under the placement's temporary name
    step,      \* where each placement is
    plan,      \* its settings
    output,    \* its staged output
    marred,    \* placements that failed to undo what they had done
    before     \* history: source and backup as the checks found them

vars == <<disk, aside, step, plan, output, marred, before>>

Over == {"failed", "succeeded", "dead"}
Step == {"new", "check", "aside", "backup", "move", "undo", "restore",
         "delete", "drop"} \cup Over

Init ==
    /\ disk = [n \in Names |-> IF n = "source" THEN Original ELSE Absent]
    /\ aside = [p \in Placements |-> Absent]
    /\ step = [p \in Placements |-> "new"]
    /\ plan = [p \in Placements |-> NoPlan]
    /\ output = [p \in Placements |-> Absent]
    /\ marred = {}
    /\ before = [p \in Placements |-> [source |-> Absent, backup |-> Absent]]

Exists(n) == disk[n] # Absent

Goto(p, s) == step' = [step EXCEPT ![p] = s]

Rename(from, to) == disk' = [disk EXCEPT ![to] = disk[from], ![from] = Absent]

Target(p) ==
    IF ~plan[p].inPlace THEN "beside"
    ELSE IF plan[p].recontained THEN "target" ELSE "source"

\* create_new_backup
CreatesBackup(p) == plan[p].inPlace /\ plan[p].strategy # "keep_existing_backup"

-----------------------------------------------------------------------------
(* The execution before the placement: ffmpeg read the source.  What it     *)
(* makes of a torn file is torn and passes verification, which compares     *)
(* streams and not durations.  An operator who has a backup replaced has    *)
(* looked whether the source plays.                                         *)

\* Mutant: the API's option is stored without being resolved to a strategy.
BeginUnresolved(p) ==
    /\ step[p] = "new"
    /\ Overlap \/ \A q \in Placements : step[q] \in Over \cup {"new"}
    /\ Exists("source")
    /\ \E s \in Plans :
        plan' = [plan EXCEPT ![p] =
                    [s EXCEPT !.strategy = "keep_existing_backup_if_present"]]
    /\ output' = [output EXCEPT ![p] = IF disk["source"] = Torn THEN Torn ELSE p]
    /\ Goto(p, "check")
    /\ UNCHANGED <<disk, aside, marred, before>>

Begin(p) ==
    /\ step[p] = "new"
    /\ Overlap \/ \A q \in Placements : step[q] \in Over \cup {"new"}
    /\ Exists("source")
    /\ \E s \in Plans :
        /\ s.strategy = "replace_backup" => disk["source"] # Torn
        /\ plan' = [plan EXCEPT ![p] = s]
    /\ output' = [output EXCEPT ![p] = IF disk["source"] = Torn THEN Torn ELSE p]
    /\ Goto(p, "check")
    /\ UNCHANGED <<disk, aside, marred, before>>

-----------------------------------------------------------------------------
(* _replace_in_place and _place_alongside_original.                         *)

\* Mutant: keep_existing_backup is taken without a backup.
RefusedUnlessMissing(p) ==
    IF plan[p].inPlace
    THEN \/ ~Exists("source")
         \/ Exists("backup") /\ plan[p].strategy = "fail"
         \/ Target(p) = "target" /\ Exists("target")
    ELSE Exists("beside")

\* The tests made before any file is touched.
Refused(p) ==
    IF plan[p].inPlace
    THEN \/ ~Exists("source")
         \/ Exists("backup") /\ plan[p].strategy = "fail"
         \/ ~Exists("backup") /\ plan[p].strategy = "keep_existing_backup"
         \/ Target(p) = "target" /\ Exists("target")
    ELSE Exists("beside")

Check(p) ==
    /\ step[p] = "check"
    /\ before' = [before EXCEPT ![p] =
                    [source |-> disk["source"], backup |-> disk["backup"]]]
    /\ Goto(p, IF Refused(p) THEN "failed"
               ELSE IF ~CreatesBackup(p) THEN "move"
               ELSE IF Exists("backup") /\ plan[p].strategy = "replace_backup"
                    THEN "aside" ELSE "backup")
    /\ UNCHANGED <<disk, aside, plan, output, marred>>

\* The existing backup gets a temporary name.
MoveAside(p) ==
    /\ step[p] = "aside"
    /\ \/ /\ Exists("backup")
          /\ aside' = [aside EXCEPT ![p] = disk["backup"]]
          /\ disk' = [disk EXCEPT !["backup"] = Absent]
          /\ Goto(p, "backup")
       \/ /\ Errors \/ ~Exists("backup")
          /\ Goto(p, "failed")
          /\ UNCHANGED <<disk, aside>>
    /\ UNCHANGED <<plan, output, marred, before>>

\* A rename replaces what has the new name by then.
MoveToBackup(p) ==
    /\ step[p] = "backup"
    /\ \/ /\ Exists("source")
          /\ Rename("source", "backup")
          /\ Goto(p, "move")
       \/ /\ Errors \/ ~Exists("source")
          /\ Goto(p, "restore")
          /\ UNCHANGED disk
    /\ UNCHANGED <<aside, plan, output, marred, before>>

\* _move_generated_output: a rename, or a copy across file systems.
MoveOutput(p) ==
    /\ step[p] = "move"
    /\ \/ /\ disk' = [disk EXCEPT ![Target(p)] = output[p]]
          /\ Goto(p, IF CreatesBackup(p) /\ plan[p].delete THEN "delete" ELSE "drop")
       \/ /\ Errors
          /\ Goto(p, "undo")
          /\ UNCHANGED disk
       \/ /\ Cuts
          /\ disk' = [disk EXCEPT ![Target(p)] = Torn]
          /\ Goto(p, "undo") \/ Goto(p, "dead")
    /\ UNCHANGED <<aside, plan, output, marred, before>>

\* Mutant: the backup is moved back over whatever is there by now.
UndoAlways(p) ==
    /\ step[p] = "undo"
    /\ Goto(p, "restore")
    /\ disk' = [disk EXCEPT !["source"] = disk["backup"], !["backup"] = Absent]
    /\ UNCHANGED <<aside, plan, output, marred, before>>

\* The rollback after a move that failed.
Undo(p) ==
    /\ step[p] = "undo"
    /\ Goto(p, "restore")
    /\ LET due == CreatesBackup(p) /\ Exists("backup") /\ ~Exists("source")
       IN \/ due /\ Rename("backup", "source") /\ UNCHANGED marred
          \/ due /\ Errors /\ marred' = marred \cup {p} /\ UNCHANGED disk
          \/ ~due /\ UNCHANGED <<disk, marred>>
    /\ UNCHANGED <<aside, plan, output, before>>

\* Mutant: the old backup keeps its temporary name.
RestoreNothing(p) ==
    /\ step[p] = "restore"
    /\ Goto(p, "failed")
    /\ UNCHANGED <<disk, aside, plan, output, marred, before>>

\* _restore_replaced_backup
Restore(p) ==
    /\ step[p] = "restore"
    /\ Goto(p, "failed")
    /\ LET due == aside[p] # Absent /\ ~Exists("backup")
       IN \/ /\ due
             /\ disk' = [disk EXCEPT !["backup"] = aside[p]]
             /\ aside' = [aside EXCEPT ![p] = Absent]
             /\ UNCHANGED marred
          \/ due /\ Errors /\ marred' = marred \cup {p} /\ UNCHANGED <<disk, aside>>
          \/ ~due /\ UNCHANGED <<disk, aside, marred>>
    /\ UNCHANGED <<plan, output, before>>

\* delete_replaced_source; a backup that cannot be deleted stays.
DeleteBackup(p) ==
    /\ step[p] = "delete"
    /\ \/ disk' = [disk EXCEPT !["backup"] = Absent]
       \/ Errors /\ UNCHANGED disk
    /\ Goto(p, "drop")
    /\ UNCHANGED <<aside, plan, output, marred, before>>

\* _delete_replaced_backup_temp
DropAside(p) ==
    /\ step[p] = "drop"
    /\ \/ aside' = [aside EXCEPT ![p] = Absent]
       \/ Errors /\ UNCHANGED aside
    /\ Goto(p, "succeeded")
    /\ UNCHANGED <<disk, plan, output, marred, before>>

Die(p) ==
    /\ step[p] \notin Over \cup {"new"}
    /\ Goto(p, "dead")
    /\ UNCHANGED <<disk, aside, plan, output, marred, before>>

Next ==
    \E p \in Placements :
        \/ Begin(p) \/ Check(p) \/ MoveAside(p) \/ MoveToBackup(p)
        \/ MoveOutput(p) \/ Undo(p) \/ Restore(p) \/ DeleteBackup(p)
        \/ DropAside(p) \/ Die(p)

Spec == Init /\ [][Next]_vars

-----------------------------------------------------------------------------
(* Properties.                                                             *)

\* Every variable has its type.
TypeOK ==
    /\ disk \in [Names -> Content]
    /\ aside \in [Placements -> Content]
    /\ step \in [Placements -> Step]
    /\ plan \in [Placements -> Plans \cup {NoPlan}]
    /\ \A p \in Placements : step[p] # "new" => plan[p] \in Plans
    /\ output \in [Placements -> Content]
    /\ marred \subseteq Placements
    /\ before \in [Placements -> [source: Content, backup: Content]]

Ends(p, s) == step[p] # s /\ step'[p] = s

\* A placement that reports a failure has put the source and its backup back,
\* unless undoing failed too or a cut copy lies under the source's name.
FailureUndone ==
    [][\A p \in Placements :
        Ends(p, "failed") =>
            \/ p \in marred'
            \/ disk'["source"] = Torn
            \/ before'[p] = [source |-> disk'["source"], backup |-> disk'["backup"]]]_vars

\* A placement that reports success without deleting has left a backup: the
\* file it replaced, or the older one the operator chose to keep.
SuccessKeepsBackup ==
    [][\A p \in Placements :
        Ends(p, "succeeded") /\ plan[p].inPlace /\ ~(CreatesBackup(p) /\ plan[p].delete) =>
            /\ disk'[Target(p)] = output[p]
            /\ disk'["backup"] = IF CreatesBackup(p) THEN before[p].source
                                 ELSE before[p].backup
            /\ disk'["backup"] # Absent]_vars

\* A replace-backup retry that fails has given the old backup its name back.
FailureRestoresBackup ==
    [][\A p \in Placements :
        Ends(p, "failed") /\ p \notin marred' => aside'[p] = Absent]_vars

\* The library owner's view: complete versions under known names.  Deleting
\* the replaced source or replacing a backup is the agreement to lose the
\* original.
Vault == INSTANCE MediaVault
    WITH held <- {disk[n] : n \in Names} \ {Torn, Absent},
         agreed <- \E p \in Placements :
                       /\ step[p] # "new"
                       /\ plan[p].delete \/ plan[p].strategy = "replace_backup"
KeepsMedia == Vault!Spec

\* Without such an agreement the original is found under a known name.
OriginalKept ==
    (\A p \in Placements :
        step[p] # "new" => ~plan[p].delete /\ plan[p].strategy # "replace_backup")
    => \E n \in Names : disk[n] = Original
=============================================================================
