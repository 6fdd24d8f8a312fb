------------------------------ MODULE Planning ------------------------------
(***************************************************************************)
(* From a media file and the policy in force for its path to a plan: which *)
(* streams stay, whether the picture is encoded again, which action that   *)
(* makes, and what the verifier will hold the output to.                   *)
(***************************************************************************)
EXTENDS Media

\* Lists of languages and codecs are in order of preference.
Policy == [audioLangs: Seq(Languages), onlyPreferred: BOOLEAN,
           keepSurround: BOOLEAN, keepSevenOne: BOOLEAN, keepAtmos: BOOLEAN,
           codecOrder: Seq(AudioCodecs), commentary: BOOLEAN, maxTracks: Nat,
           subLangs: Seq(Languages), forcedLangs: Seq(Languages),
           keepForced: BOOLEAN, keepFull: BOOLEAN, keepHearing: BOOLEAN,
           dropOther: BOOLEAN, container: Containers,
           order: SUBSET {"skip", "remux", "transcode"},
           codec: Codecs, transcode: BOOLEAN, maxRate: Nat, maxWidth: Nat,
           low1080: Nat, low720: Nat, floor1080: Nat, floor720: Nat,
           codec4K: Codecs, transcode4K: BOOLEAN, stripOnly: BOOLEAN,
           reduction: Nat, larger: Nat]

-----------------------------------------------------------------------------
(* Profiles: the override with the longest prefix of the path replaces the  *)
(* fields of the base policy that its profile sets.                         *)

Matches(path, prefix) ==
    Len(prefix) <= Len(path) /\ SubSeq(path, 1, Len(prefix)) = prefix

ProfileFor(overrides, path) ==
    LET matching == {o \in overrides : Matches(path, o.prefix)}
    IN IF matching = {} THEN {}
       ELSE {CHOOSE o \in matching :
                \A p \in matching : Len(p.prefix) <= Len(o.prefix)}

\* resolve_planning_policy
Resolved(base, overrides, path) ==
    [field \in DOMAIN base |->
        IF \E o \in ProfileFor(overrides, path) : field \in DOMAIN o.sets
        THEN (CHOOSE o \in ProfileFor(overrides, path) : TRUE).sets[field]
        ELSE base[field]]

-----------------------------------------------------------------------------
(* Choosing streams.                                                        *)

\* Python's comparison of score tuples.
Above(p, q) ==
    \E i \in DOMAIN p : p[i] > q[i] /\ \A k \in 1..(i - 1) : p[k] = q[k]

Flag(b) == IF b THEN 1 ELSE 0

\* Rank of x in a list of preferences, 0 when it is not in it.
Rank(list, x) ==
    IF \E i \in DOMAIN list : list[i] = x
    THEN Len(list) + 1 - (CHOOSE i \in DOMAIN list : list[i] = x)
    ELSE 0

\* audio_quality_score
AudioQuality(m, p, i) ==
    LET a == m.audio[i]
    IN <<Flag(a.atmos /\ p.keepAtmos), Flag(IsSevenOne(a) /\ p.keepSevenOne),
         Flag(IsSurround(a) /\ p.keepSurround), a.channels,
         Rank(p.codecOrder, a.codec), Flag(a.default), -i>>

\* audio_stream_score
AudioScore(m, p, i) ==
    <<Rank(p.audioLangs, m.audio[i].lang)>> \o AudioQuality(m, p, i)

\* subtitle_stream_score
SubtitleScores(m, langs) ==
    [i \in DOMAIN m.subs |->
        LET s == m.subs[i]
        IN <<Rank(langs, s.lang), Flag(s.default), Flag(IsForced(s)), -i>>]

\* The elements of S; before[i] is the set of those that come before i.
Arranged(S, before) ==
    [n \in 1..Cardinality(S) |-> CHOOSE i \in S : Cardinality(before[i]) = n - 1]

\* The elements of a sequence that are in S, in its order.
Filtered(s, S) ==
    LET at == {n \in DOMAIN s : s[n] \in S}
        order == Arranged(at, [n \in at |-> {k \in at : k < n}])
    IN [n \in DOMAIN order |-> s[order[n]]]

\* Candidates are compared by a function from them to their scores.
Best(S, score) == CHOOSE i \in S : \A k \in S \ {i} : Above(score[i], score[k])

\* The best stream of each preferred language that has one, in that order.
BestPerLanguage(langs, candidates, score) ==
    LET present == Filtered(langs, {l \in Languages : candidates[l] # {}})
    IN [n \in DOMAIN present |-> Best(candidates[present[n]], score)]

ByScore(S, score) == Arranged(S, [i \in S |-> {k \in S : Above(score[k], score[i])}])

Preferred(m, p) == {i \in DOMAIN m.audio : Rank(p.audioLangs, m.audio[i].lang) > 0}

Selectable(m, p) ==
    {i \in IF p.onlyPreferred THEN Preferred(m, p) ELSE DOMAIN m.audio :
        p.commentary \/ ~m.audio[i].commentary}

\* No acceptable audio: the planner stops and asks for a review.
AudioMissing(m, p) == Selectable(m, p) = {}

\* Mutant: the first track of each language instead of the best.
SelectFirstAudio(m, p) ==
    BestPerLanguage(p.audioLangs,
        [l \in Languages |-> {i \in Selectable(m, p) : m.audio[i].lang = l}],
        [i \in DOMAIN m.audio |-> <<-i>>])

\* select_audio_streams: the best track of each preferred language, then, when
\* other languages are allowed, the best of the rest up to max_tracks_to_keep.
SelectAudio(m, p) ==
    LET best == BestPerLanguage(p.audioLangs,
                    [l \in Languages |-> {i \in Selectable(m, p) : m.audio[i].lang = l}],
                    [i \in DOMAIN m.audio |-> AudioQuality(m, p, i)])
        rest == ByScore(Selectable(m, p) \ ToSet(best),
                        [i \in DOMAIN m.audio |-> AudioScore(m, p, i)])
        room == IF p.onlyPreferred \/ Len(best) >= p.maxTracks
                THEN 0 ELSE p.maxTracks - Len(best)
    IN IF AudioMissing(m, p) THEN << >>
       ELSE best \o SubSeq(rest, 1, IF room < Len(rest) THEN room ELSE Len(rest))

\* Mutant: titles decide instead of flags.
ForcedByTitle(m, p) ==
    {i \in DOMAIN m.subs : p.keepForced /\ m.subs[i].titled}

ForcedCandidates(m, p) ==
    {i \in DOMAIN m.subs : /\ p.keepForced
                           /\ Rank(p.forcedLangs, m.subs[i].lang) > 0
                           /\ m.subs[i].flagged}

\* Titled "forced" and not flagged: the planner asks for a review.
AmbiguousForced(m, p) ==
    {i \in DOMAIN m.subs : /\ p.keepForced
                           /\ Rank(p.forcedLangs, m.subs[i].lang) > 0
                           /\ ~m.subs[i].flagged /\ m.subs[i].titled}

MainCandidates(m, l) ==
    {i \in DOMAIN m.subs : /\ m.subs[i].lang = l
                           /\ ~IsForced(m.subs[i]) /\ ~IsHearing(m.subs[i])}

HearingCandidates(m, l) == {i \in DOMAIN m.subs : m.subs[i].lang = l /\ IsHearing(m.subs[i])}

\* The full subtitle of each preferred language.
MainSubtitles(m, p) ==
    IF ~p.keepFull THEN << >>
    ELSE BestPerLanguage(p.subLangs, [l \in Languages |-> MainCandidates(m, l)],
                         SubtitleScores(m, << >>))

HearingSubtitles(m, p) ==
    IF ~p.keepHearing THEN << >>
    ELSE BestPerLanguage(p.subLangs, [l \in Languages |-> HearingCandidates(m, l)],
                         SubtitleScores(m, << >>))

\* select_subtitle_streams
SelectSubtitles(m, p) ==
    LET forced == ByScore(ForcedCandidates(m, p), SubtitleScores(m, p.forcedLangs))
        full == forced \o Filtered(MainSubtitles(m, p), DOMAIN m.subs \ ToSet(forced))
        hearing == Filtered(HearingSubtitles(m, p), DOMAIN m.subs \ ToSet(full))
    IN IF p.dropOther THEN full \o hearing ELSE [i \in DOMAIN m.subs |-> i]

-----------------------------------------------------------------------------
(* The picture and the action.                                              *)

LowRate(v, p) ==
    /\ v.known = "reported"
    /\ v.bits < (IF Is720(v) THEN p.low720 ELSE p.low1080)

\* build_4k_video_plan: a 4K picture is encoded again only for its codec, and
\* only where the rules allow a 4K encode at all.
Needs4KTranscode(v, p) == p.transcode4K /\ v.codec # p.codec4K

\* Mutant: a picture at the limit is encoded again.
NeedsTranscodeAtLimit(v, p) ==
    IF Is4KStream(v) THEN Needs4KTranscode(v, p)
    ELSE \/ v.codec # p.codec
         \/ v.known = "reported" /\ v.bits >= p.maxRate

\* build_non_4k_video_plan: any other picture is encoded again for its codec,
\* its rate or its width, unless its rate is already low.
NeedsTranscode(v, p) ==
    IF Is4KStream(v)
    THEN Needs4KTranscode(v, p)
    ELSE /\ ~LowRate(v, p)
         /\ \/ v.codec # p.codec
            \/ v.known = "reported" /\ v.bits > p.maxRate
            \/ v.width > p.maxWidth

VideoNeedsReview(m, p) ==
    \/ Len(m.video) # 1
    \/ Is4K(m) /\ ~p.transcode4K /\ ~p.stripOnly

\* build_container_plan
NeedsRemux(m, p) == m.container # p.container

\* determine_action
Action(m, p, encode, cleanup, warned) ==
    LET remux == NeedsRemux(m, p)
        compliant == ~encode /\ ~cleanup /\ ~remux /\ ~warned
    IN IF VideoNeedsReview(m, p) \/ AudioMissing(m, p) \/ AmbiguousForced(m, p) # {}
       THEN "manual_review"
       ELSE CASE Is4K(m) /\ encode -> "transcode"
              [] Is4K(m) /\ ~encode -> IF compliant THEN "skip" ELSE "remux"
              [] ~Is4K(m) /\ encode ->
                    IF p.transcode /\ "transcode" \in p.order THEN "transcode" ELSE "manual_review"
              [] ~Is4K(m) /\ ~encode /\ (cleanup \/ remux) ->
                    IF "remux" \in p.order THEN "remux" ELSE "manual_review"
              [] OTHER -> IF compliant /\ "skip" \in p.order THEN "skip" ELSE "manual_review"

\* Warnings that survive without a review: undetermined audio left aside, and
\* no subtitle selected although there are some.
Warned(m, p) ==
    \/ p.onlyPreferred /\ "und" \in LanguagesOf(m.audio)
    \/ SelectSubtitles(m, p) = << >> /\ m.subs # << >>

\* build_processing_plan
PlanFor(m, p) ==
    LET audio == SelectAudio(m, p)
        subs == SelectSubtitles(m, p)
        main == MainSubtitles(m, p)
        one == Len(m.video) = 1
        encode == one /\ NeedsTranscode(m.video[1], p)
        cleanup == Len(audio) < Len(m.audio) \/ Len(subs) < Len(m.subs)
    IN [action    |-> Action(m, p, encode, cleanup, Warned(m, p)),
        audio     |-> audio,
        subs      |-> subs,
        video     |-> IF one THEN <<1>> ELSE << >>,
        encode    |-> encode,
        codec     |-> IF ~one THEN "none"
                      ELSE IF Is4K(m) /\ ~p.transcode4K THEN m.video[1].codec
                      ELSE IF Is4K(m) THEN p.codec4K ELSE p.codec,
        container |-> p.container,
        forced    |-> ForcedCandidates(m, p),
        main      |-> IF main = << >> THEN 0 ELSE main[1],
        surround  |-> \E i \in ToSet(audio) : IsSurround(m.audio[i]),
        atmos     |-> \E i \in ToSet(audio) : m.audio[i].atmos,
        floor     |-> IF ~one THEN 0 ELSE IF Is720(m.video[1]) THEN p.floor720 ELSE p.floor1080,
        reduction |-> p.reduction,
        larger    |-> p.larger,
        protected |-> Is4K(m) \/ m.hdr \/ HasAtmos(m)]
=============================================================================
