------------------------------- MODULE Media -------------------------------
(***************************************************************************)
(* A media file as the prober normalises it: what the planner and the      *)
(* verifier look at, stream by stream.  A stream's index is its position   *)
(* among the streams of its kind.                                          *)
(***************************************************************************)
EXTENDS Integers, Sequences, FiniteSets, SequencesExt

CONSTANTS
    Languages,     \* language tags; "und" stands for a missing one
    Codecs,        \* video codecs
    AudioCodecs,   \* audio codecs
    Containers,    \* file extensions
    Widths,        \* picture widths, in pixels
    Rates,         \* video bit rates, in Mbps
    NoRate         \* a bit rate that is not known

ASSUME MediaAssumption ==
    /\ "und" \in Languages
    /\ Widths \subseteq Nat
    /\ Rates \subseteq Nat \ {0}
    /\ NoRate \notin Int

\* bits is the picture's bit rate.  ffprobe may report it; failing that it can
\* be derived from the stream's size and the duration, or only the size is
\* known, or nothing is.
VideoStream == [codec: Codecs, width: Widths, bits: Rates,
                known: {"reported", "derivable", "sized", "unknown"}]

AudioStream == [lang: Languages, codec: AudioCodecs, channels: Nat,
                atmos: BOOLEAN, commentary: BOOLEAN, default: BOOLEAN]

\* flagged: the disposition says forced; titled: the title does.  hearing is
\* "no", "flag" (the disposition says hearing impaired) or "title".
SubtitleStream == [lang: Languages, flagged: BOOLEAN, titled: BOOLEAN,
                   hearing: {"no", "flag", "title"}, default: BOOLEAN]

MediaFile == [container: Containers, video: Seq(VideoStream),
              audio: Seq(AudioStream), subs: Seq(SubtitleStream),
              extras: Nat, hdr: BOOLEAN]

\* Widths go with heights in the model: a picture as wide as 4K is 4K.
Is4KStream(v) == v.width >= 3840
Is4K(m) == \E i \in DOMAIN m.video : Is4KStream(m.video[i])

\* resolution_bucket: 720p or 1080p.
Is720(v) == v.width <= 1280

IsSurround(a) == a.channels >= 6
IsSevenOne(a) == a.channels >= 8
IsForced(s) == s.flagged \/ s.titled
IsHearing(s) == s.hearing # "no"

HasSurround(m) == \E i \in DOMAIN m.audio : IsSurround(m.audio[i])
HasAtmos(m) == \E i \in DOMAIN m.audio : m.audio[i].atmos

LanguagesOf(streams) == {streams[i].lang : i \in DOMAIN streams}
=============================================================================
