----------------------------- MODULE MediaVault -----------------------------
(***************************************************************************)
(* What a library owner expects of whatever replaces a media file: some    *)
(* complete version of it is always found under a name the system knows,   *)
(* and the original is given up only after someone agreed to that.         *)
(***************************************************************************)
CONSTANTS Versions, Original

VARIABLES
    held,     \* complete versions found under known names
    agreed    \* a policy or an operator allowed the original to go

Init ==
    /\ held = {Original}
    /\ agreed = FALSE

Agree == agreed' = TRUE /\ UNCHANGED held

Change ==
    /\ held' \subseteq Versions
    /\ held' # {}
    /\ Original \in held \ held' => agreed
    /\ UNCHANGED agreed

Next == Agree \/ Change

Spec == Init /\ [][Next]_<<held, agreed>>
=============================================================================
