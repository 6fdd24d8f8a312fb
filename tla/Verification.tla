---------------------------- MODULE Verification ----------------------------
(***************************************************************************)
(* What stands between an encoded output and the media file it replaces:   *)
(* the checks of the verifier and the compression guards.  Also the output *)
(* of an ffmpeg that does what its command line says.                      *)
(***************************************************************************)
EXTENDS Rulesets

-----------------------------------------------------------------------------
(* The command line: streams in the order of the plan, copied, with their    *)
(* dispositions rewritten; the picture copied or encoded.  No filter scales. *)

PrimaryAudio(plan) == plan.audio[1]

\* disposition_flags_for_selected_streams: a disposition that is not the one
\* set here is cleared.
AudioOut(m, plan, i) == [m.audio[i] EXCEPT !.default = (i = PrimaryAudio(plan))]

SubtitleOut(m, plan, i) ==
    [m.subs[i] EXCEPT !.flagged = i \in plan.forced,
                      !.default = i \notin plan.forced /\ i = plan.main,
                      !.hearing = IF @ = "flag" THEN "no" ELSE @]

\* The output, its picture encoded at a given rate when it is encoded.
Obeyed(m, plan, bits, known) ==
    [container |-> plan.container,
     video     |-> [n \in DOMAIN plan.video |->
                      IF plan.action = "transcode"
                      THEN [m.video[plan.video[n]] EXCEPT !.codec = plan.codec,
                                                         !.bits = bits, !.known = known]
                      ELSE m.video[plan.video[n]]],
     audio     |-> [n \in DOMAIN plan.audio |-> AudioOut(m, plan, plan.audio[n])],
     subs      |-> [n \in DOMAIN plan.subs |-> SubtitleOut(m, plan, plan.subs[n])],
     extras    |-> m.extras,
     hdr       |-> m.hdr]

-----------------------------------------------------------------------------
(* The verifier.                                                            *)

HasRequiredAudio(m, plan, out) ==
    {m.audio[i].lang : i \in ToSet(plan.audio)} \subseteq LanguagesOf(out.audio)

HasRequiredSubtitles(m, plan, out) ==
    /\ {m.subs[i].lang : i \in ToSet(plan.subs)} \subseteq LanguagesOf(out.subs)
    /\ plan.subs # << >> =>
        \A i \in plan.forced : \E k \in DOMAIN out.subs :
            out.subs[k].lang = m.subs[i].lang /\ IsForced(out.subs[k])

HasExpectedShape(m, plan, out) ==
    /\ Len(out.video) = Len(plan.video)
    /\ Len(out.audio) = Len(plan.audio)
    /\ Len(out.subs) = Len(plan.subs)
    /\ out.extras = m.extras

\* audio_stream_selection_matches_plan
AudioMatches(m, plan, out) ==
    /\ Len(out.audio) = Len(plan.audio)
    /\ \A n \in DOMAIN plan.audio :
        LET planned == m.audio[plan.audio[n]]
        IN /\ out.audio[n].lang = planned.lang
           /\ out.audio[n].codec = planned.codec
           /\ out.audio[n].channels = planned.channels

\* subtitle_stream_selection_matches_plan
SubtitlesMatch(m, plan, out) ==
    /\ Len(out.subs) = Len(plan.subs)
    /\ \A n \in DOMAIN plan.subs :
        LET planned == m.subs[plan.subs[n]]
        IN /\ out.subs[n].lang = planned.lang
           /\ IsForced(out.subs[n]) = IsForced(planned)

AudioDefaultMatches(plan, out) ==
    \A n \in DOMAIN out.audio :
        out.audio[n].default =
            (plan.audio # << >> /\ n \in DOMAIN plan.audio
                /\ plan.audio[n] = PrimaryAudio(plan))

\* Mutant: the first subtitle is expected to be the default one.
SubtitleDefaultFirst(plan, out) ==
    \A n \in DOMAIN out.subs : out.subs[n].default = (n = 1)

SubtitleDefaultMatches(plan, out) ==
    \A n \in DOMAIN out.subs :
        out.subs[n].default =
            (plan.main # 0 /\ n \in DOMAIN plan.subs /\ plan.subs[n] = plan.main)

HasRequiredVideo(plan, out) ==
    plan.video # << >> =>
        /\ out.video # << >>
        /\ plan.encode => out.video[1].codec = plan.codec

\* verify_output, for an output that exists and can be probed.
Verified(m, plan, out) ==
    /\ out.container = plan.container
    /\ HasRequiredAudio(m, plan, out)
    /\ HasRequiredSubtitles(m, plan, out)
    /\ HasExpectedShape(m, plan, out)
    /\ AudioMatches(m, plan, out)
    /\ SubtitlesMatch(m, plan, out)
    /\ AudioDefaultMatches(plan, out)
    /\ SubtitleDefaultMatches(plan, out)
    /\ HasRequiredVideo(plan, out)
    /\ Is4K(m) /\ ~plan.encode => Is4K(out)
    /\ plan.surround => HasSurround(out)
    /\ plan.atmos => HasAtmos(out)

-----------------------------------------------------------------------------
(* evaluate_execution_safety.  metrics: growth is the file's, in percent;    *)
(* rate is the output picture's, and saved what the picture lost of its      *)
(* input, where they could be measured.                                     *)

\* calculate_media_savings: a picture's size goes with its rate.
Metrics(m, out, growth) ==
    LET from == m.video[1]
        to == out.video[1]
    IN [growth |-> growth,
        rate |-> IF to.known \in {"reported", "derivable"} THEN to.bits ELSE NoRate,
        input |-> from.bits,
        saved |-> IF "unknown" \in {from.known, to.known} THEN NoRate ELSE from.bits - to.bits]

\* compression_reduction_percent is within a limit.
ReductionWithin(metrics, percent) == metrics.saved * 100 <= percent * metrics.input

\* Mutant: a reduction that cannot be measured is let through.
SafetyOptimistic(plan, metrics) ==
    CASE metrics.growth > plan.larger -> "output_larger_than_input"
      [] ~plan.encode \/ metrics.saved = NoRate -> "safe"
      [] metrics.rate # NoRate /\ metrics.rate < plan.floor -> "below_floor"
      [] OTHER -> "safe"

Safety(plan, metrics) ==
    CASE metrics.growth > plan.larger -> "output_larger_than_input"
      [] metrics.growth <= plan.larger /\ ~plan.encode -> "safe"
      [] OTHER ->
            CASE metrics.saved = NoRate -> "unmeasurable"
              [] metrics.saved # NoRate /\ metrics.rate # NoRate ->
                    IF metrics.rate < plan.floor THEN "below_floor" ELSE "safe"
              [] OTHER -> IF ReductionWithin(metrics, plan.reduction)
                          THEN "safe" ELSE "unmeasurable"
=============================================================================
