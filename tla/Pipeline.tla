------------------------------ MODULE Pipeline ------------------------------
(***************************************************************************)
(* One media file through successive jobs: probed and planned, encoded by  *)
(* the back end the host offers, verified, measured, and put in the place  *)
(* of the original.  WorkerExecutionService.execute_job and what it calls. *)
(***************************************************************************)
EXTENDS Verification, Backends

CONSTANTS
    Library,     \* the media files considered
    Setups,      \* policies, hosts and preferences considered
    MaxPasses,   \* bound: jobs of the file
    NoPlan, NoOutput

\* artifact: the path is one of Encodr's own outputs or backups.
\* The policy in force depends on the size of the picture (Effective).
Setup == [policy: [BOOLEAN -> Policy], host: Host, preference: STRING, allow: BOOLEAN,
          artifact: BOOLEAN]

\* An output of ffmpeg: whether it did what its command line says, whether the
\* prober can read it, and how much larger than its input it is, in percent.
Outputs == [media: MediaFile, obeyed: BOOLEAN, readable: BOOLEAN, growth: Nat]

ASSUME PipelineAssumption ==
    /\ Library \subseteq MediaFile
    /\ Setups \subseteq Setup
    /\ NoOutput \notin Outputs
    /\ MaxPasses \in Nat \ {0}

VARIABLES
    setup,    \* configuration; it does not change
    media,    \* the file at the source path
    phase,    \* where its job is
    plan,     \* the job's plan
    backend,  \* the selection of its execution
    staged,   \* the output in the scratch directory
    cancel,   \* the operator asked for a cancellation
    result,   \* how the last job ended
    passes,   \* jobs ended
    past      \* history: the file as first probed, and what was last placed

vars == <<setup, media, phase, plan, backend, staged, cancel, result, passes, past>>

Phases == {"probed", "planned", "encoding", "staged", "verified", "ended"}
Results == {"none", "skipped", "manual_review", "failed", "cancelled", "completed"}

Init ==
    /\ setup \in Setups
    /\ media \in Library
    /\ phase = "probed"
    /\ plan = NoPlan
    /\ backend = NoSelection
    /\ staged = NoOutput
    /\ cancel = FALSE
    /\ result = "none"
    /\ passes = 0
    /\ past = [first |-> media, last |-> "none"]

End(outcome) ==
    /\ phase' = "ended"
    /\ result' = outcome
    /\ passes' = passes + 1

-----------------------------------------------------------------------------
(* Planning, and the start of an execution.                                 *)

InForce == setup.policy[Is4K(media)]

\* Mutant: the previous execution's output is not forgotten.
MakePlanKeeping ==
    /\ phase = "probed"
    /\ plan' = PlanFor(media, InForce)
    /\ phase' = "planned"
    /\ result' = "none"
    /\ backend' = NoSelection
    /\ UNCHANGED <<setup, media, staged, cancel, passes, past>>

MakePlan ==
    /\ phase = "probed"
    /\ plan' = PlanFor(media, InForce)
    /\ phase' = "planned"
    /\ result' = "none"
    /\ backend' = NoSelection
    /\ staged' = NoOutput
    /\ UNCHANGED <<setup, media, cancel, passes, past>>

\* build_execution_command_plan: a remux copies, on the CPU.
Selection ==
    IF plan.action = "remux" THEN [NoSelection EXCEPT !.backend = Cpu, !.accelerator = Cpu]
    ELSE Select(setup.host, setup.preference, setup.allow, plan.codec)

\* The execution ends before ffmpeg starts.
EndsAtOnce ==
    IF setup.artifact \/ plan.action = "skip" THEN "skipped"
    ELSE IF plan.action = "manual_review" THEN "manual_review"
    ELSE IF Selection = NoSelection \/ ~setup.host.ffmpeg THEN "failed"
    ELSE "none"

Start ==
    /\ phase = "planned"
    /\ IF EndsAtOnce # "none" THEN End(EndsAtOnce) /\ UNCHANGED backend
       ELSE /\ phase' = "encoding"
            /\ backend' = Selection
            /\ UNCHANGED <<result, passes>>
    /\ UNCHANGED <<setup, media, plan, staged, cancel, past>>

-----------------------------------------------------------------------------
(* ffmpeg.  It may do less than its command line says.                      *)

Damaged(out) ==
    {[out EXCEPT !.audio = Front(@)], [out EXCEPT !.audio = Reverse(@)],
     [out EXCEPT !.audio = [n \in DOMAIN @ |-> [@[n] EXCEPT !.channels = 2]]],
     [out EXCEPT !.subs = [n \in DOMAIN @ |-> [@[n] EXCEPT !.flagged = FALSE]]],
     [out EXCEPT !.subs = << >>], [out EXCEPT !.video = << >>]}
    \cup (IF out.extras = 0 THEN {} ELSE {[out EXCEPT !.extras = @ - 1]})

RequestCancel ==
    /\ phase \in {"encoding", "staged", "verified"}
    /\ ~cancel
    /\ cancel' = TRUE
    /\ UNCHANGED <<setup, media, phase, plan, backend, staged, result, passes, past>>

Output(out, obeyed, readable, growth) ==
    [media |-> out, obeyed |-> obeyed, readable |-> readable, growth |-> growth]

\* FFmpegClient.run returns; the output grows less, as much or more than allowed.
EncodeEnds ==
    /\ phase = "encoding"
    /\ ~cancel
    /\ \E bits \in Rates, known \in {"reported", "derivable", "sized", "unknown"},
          growth \in {plan.larger, plan.larger + 1}, obeyed \in BOOLEAN :
        /\ ~obeyed => known = "reported" /\ growth = plan.larger
        /\ LET out == Obeyed(media, plan, bits, known)
           IN \E seen \in IF obeyed THEN {out} ELSE Damaged(out) \ {out} :
                \E readable \in IF obeyed THEN {TRUE} ELSE BOOLEAN :
                    staged' = Output(seen, obeyed, readable, growth)
    /\ phase' = "staged"
    /\ UNCHANGED <<setup, media, plan, backend, cancel, result, passes, past>>

\* The process fails, or the cancellation watcher has stopped it: a request that
\* comes in before the process is reaped wins over its exit status.
EncodeStops ==
    /\ phase = "encoding"
    /\ End(IF cancel THEN "cancelled" ELSE "failed")
    /\ cancel' = FALSE
    /\ UNCHANGED <<setup, media, plan, backend, staged, past>>

-----------------------------------------------------------------------------
(* _verify_and_place                                                        *)

Verify ==
    /\ phase = "staged"
    /\ IF staged.readable /\ Verified(media, plan, staged.media)
       THEN phase' = "verified" /\ UNCHANGED <<result, passes>>
       ELSE End("failed")
    /\ UNCHANGED <<setup, media, plan, backend, staged, cancel, past>>

\* evaluate_execution_safety, then place_verified_output; a failed placement
\* leaves the file as it was (see Replacement).
Place ==
    /\ phase = "verified"
    /\ IF Safety(plan, Metrics(media, staged.media, staged.growth)) # "safe"
       THEN End("manual_review") /\ UNCHANGED <<media, past>>
       ELSE \/ /\ End("completed")
               /\ media' = staged.media
               /\ past' = [past EXCEPT !.last = plan.action]
            \/ End("failed") /\ UNCHANGED <<media, past>>
    /\ UNCHANGED <<setup, plan, backend, staged, cancel>>

\* The file is scanned and probed again.
Rescan ==
    /\ phase = "ended"
    /\ passes < MaxPasses
    /\ phase' = "probed"
    /\ cancel' = FALSE
    /\ UNCHANGED <<setup, media, plan, backend, staged, result, passes, past>>

Next ==
    \/ MakePlan \/ Start \/ RequestCancel \/ EncodeEnds \/ EncodeStops
    \/ Verify \/ Place \/ Rescan

Spec == Init /\ [][Next]_vars

-----------------------------------------------------------------------------
\* Types: the plan only names streams of the file it was made from, and an
\* output, a selection and a result go with the phase the job is in.
TypeOK ==
    /\ setup \in Setups
    /\ media \in MediaFile
    /\ phase \in Phases
    /\ result \in Results
    /\ passes \in 0..MaxPasses
    /\ cancel \in BOOLEAN
    /\ phase \notin {"probed", "ended"} =>
        /\ ToSet(plan.audio) \subseteq DOMAIN media.audio
        /\ ToSet(plan.subs) \subseteq DOMAIN media.subs
    /\ staged # NoOutput => staged \in Outputs
    /\ phase \in {"staged", "verified"} <=> staged # NoOutput /\ result = "none"
    /\ phase = "ended" <=> result # "none" /\ phase # "probed"

\* Planner, command builder and verifier read the same plan: an ffmpeg that does
\* what its command line says is never failed by the verifier.  Flagged forced
\* subtitles that are kept only because nothing is dropped lose their flag and
\* are an exception.
ObedientOutputPasses ==
    phase = "staged" /\ staged.obeyed
        /\ (\A i \in ToSet(plan.subs) : media.subs[i].flagged => i \in plan.forced)
    => Verified(media, plan, staged.media)

\* A file is not processed over and over: once an output has been placed, the
\* next plan skips the file or asks for a review.  The exceptions:
\*   - nothing scales a picture and a constant-quality encode has no target rate,
\*     so a picture may stay wider than the policy's limit, or above its rate;
\*   - audio of an undeclared language that the policy prefers is kept and warned
\*     about, and a 4K file with a warning is remuxed on every pass;
\*   - a subtitle that only its flag marks as for the hearing impaired: the command
\*     line clears the flag, and the next plan drops the track as a second full one;
\*   - a forced subtitle for the hearing impaired: another such track of its
\*     language, chosen for being the default one, loses that mark, and the next
\*     plan finds the forced track the better and drops the other.
Settled ==
    phase = "planned" /\ past.last # "none"
        /\ (\A v \in ToSet(media.video) :
                /\ v.width <= InForce.maxWidth \/ Is4KStream(v)
                /\ v.known = "reported" => v.bits <= InForce.maxRate)
        /\ (Is4K(media) /\ InForce.onlyPreferred => "und" \notin LanguagesOf(media.audio))
        /\ (\A s \in ToSet(past.first.subs) : s.hearing # "flag" /\ ~(s.flagged /\ IsHearing(s)))
    => plan.action \in {"skip", "manual_review"}

\* What the worker reports about its back end is what its executions do: they
\* fail to start exactly when it says that it cannot encode, and run on the back
\* end it names.  (Codecs no hardware encodes are an exception: the status does
\* not know the codec.)
StatusHonest ==
    phase = "planned" /\ plan.action = "transcode" /\ ~setup.artifact
        /\ plan.codec \in HardwareCodecs
    => LET status == Status(setup.host, setup.preference, setup.allow)
       IN /\ status.usable <=> EndsAtOnce # "failed"
          /\ status.usable => /\ status.selected = Selection.backend
                               /\ status.fallback = Selection.fallback

\* An encode only runs on hardware whose own smoke test passed, initialised the
\* way the test was.
TestedBackend ==
    LET h == setup.host
    IN CASE backend.accelerator = "qsv" -> QsvWorks(h, backend.init)
         [] backend.accelerator = "vaapi" -> h.nodes[backend.node].vaapi
         [] backend.accelerator = "nvenc" -> h.nvidia = "works"
         [] backend.accelerator = "amf" -> h.amf = "works"
         [] OTHER -> TRUE

Placed == media' # media

\* However the output went wrong, what replaces a file has, for every preferred
\* language, a track no worse than the best the file had.
KeepsBestAudio ==
    [][Placed =>
        LET Quality(m, i) == SubSeq(AudioQuality(m, InForce, i), 1, 4)
        IN \A i \in Selectable(media, InForce) \cap Preferred(media, InForce) :
            \E k \in DOMAIN media'.audio :
                /\ media'.audio[k].lang = media.audio[i].lang
                /\ ~Above(Quality(media, i), Quality(media', k))]_vars

\* No pass loses a forced subtitle the policy keeps.  Its flag may be lost where
\* its title says it too: the verifier looks for either mark.
KeepsForced ==
    [][Placed /\ InForce.keepForced =>
        \A l \in ToSet(InForce.forcedLangs) :
            LET kept == {k \in DOMAIN media'.subs : media'.subs[k].lang = l /\ IsForced(media'.subs[k])}
                forced == {i \in DOMAIN media.subs : media.subs[i].lang = l /\ media.subs[i].flagged}
            IN Cardinality(kept) >= Cardinality(forced)]_vars

\* An encoded picture takes the place of the original only at a rate above the
\* policy's floor or within the reduction it allows, measured or not.
KeepsPicture ==
    [][Placed /\ plan.encode =>
        LET from == media.video[1].bits
            to == media'.video[1].bits
        IN to >= plan.floor \/ (from - to) * 100 <= plan.reduction * from]_vars
=============================================================================
