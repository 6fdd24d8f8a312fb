----------------------------- MODULE MCPipeline -----------------------------
(* Small instances of Pipeline for TLC: a media file varies in its audio and *)
(* subtitles, or in its picture, or the host and the preference vary.        *)
EXTENDS Pipeline

Audio(lang, codec, channels) ==
    [lang |-> lang, codec |-> codec, channels |-> channels,
     atmos |-> FALSE, commentary |-> FALSE, default |-> FALSE]
Sub(lang) ==
    [lang |-> lang, flagged |-> FALSE, titled |-> FALSE, hearing |-> "no", default |-> FALSE]
Picture(codec, width, bits, known) ==
    [codec |-> codec, width |-> width, bits |-> bits, known |-> known]

AudioKinds ==
    {Audio("eng", "aac", 2), [Audio("eng", "truehd", 8) EXCEPT !.default = TRUE],
     [Audio("eng", "truehd", 6) EXCEPT !.atmos = TRUE], Audio("fra", "aac", 6),
     Audio("und", "aac", 2), [Audio("eng", "aac", 2) EXCEPT !.commentary = TRUE]}
SubKinds ==
    {[Sub("eng") EXCEPT !.default = TRUE], [Sub("eng") EXCEPT !.flagged = TRUE],
     [Sub("eng") EXCEPT !.titled = TRUE], [Sub("eng") EXCEPT !.flagged = TRUE, !.titled = TRUE],
     [Sub("eng") EXCEPT !.hearing = "title"],
     [Sub("eng") EXCEPT !.hearing = "flag"], [Sub("fra") EXCEPT !.flagged = TRUE], Sub("fra")}
ForcedHearing ==
    {[Sub("eng") EXCEPT !.hearing = "title", !.flagged = TRUE],
     [Sub("eng") EXCEPT !.hearing = "title", !.default = TRUE]}

UpTo2(S) == {<<x>> : x \in S} \cup {<<x, y>> : x \in S, y \in S}

File(container, video, audio, subs) ==
    [container |-> container, video |-> video, audio |-> audio, subs |-> subs,
     extras |-> 1, hdr |-> FALSE]

Streams ==
    {File("avi", <<Picture("hevc", 1920, 4, "reported")>>, audio, subs) :
        audio \in UpTo2(AudioKinds), subs \in {<<Sub("eng")>>}}
    \cup {File("avi", <<Picture("hevc", 1920, 4, "reported")>>, <<Audio("eng", "aac", 2)>>, subs) :
        subs \in UpTo2(SubKinds) \cup UpTo2(ForcedHearing) \cup {<< >>}}
Pictures ==
    {File("mkv", <<Picture(codec, width, bits, known)>>,
          <<Audio("fra", "aac", 6), Audio("eng", "aac", 2)>>, <<Sub("eng")>>) :
        codec \in {"hevc", "h264"}, width \in {1280, 1920, 3840}, bits \in {1, 4, 9},
        known \in {"reported", "sized", "unknown"}}
OneFile ==
    File("mkv", <<Picture("h264", 1920, 9, "reported")>>, <<Audio("eng", "aac", 2)>>, <<Sub("eng")>>)

Untold == File("avi", <<Picture("hevc", 3840, 4, "reported")>>, <<Audio("und", "aac", 2)>>, <<Sub("eng")>>)
MCLibrary == {Untold} \cup Streams \cup Pictures \cup {OneFile}
MCRates == {1, 4, 9}

Base ==
    [audioLangs |-> <<"eng", "fra">>, onlyPreferred |-> TRUE, keepSurround |-> TRUE,
     keepSevenOne |-> TRUE, keepAtmos |-> TRUE, codecOrder |-> <<"truehd", "aac">>,
     commentary |-> FALSE, maxTracks |-> 2, subLangs |-> <<"eng">>,
     forcedLangs |-> <<"eng">>, keepForced |-> TRUE, keepFull |-> TRUE,
     keepHearing |-> TRUE, dropOther |-> TRUE, container |-> "mkv",
     order |-> {"skip", "remux", "transcode"}, codec |-> "hevc", transcode |-> TRUE,
     maxRate |-> 4, maxWidth |-> 1920, low1080 |-> 2, low720 |-> 1, floor1080 |-> 2,
     floor720 |-> 1, codec4K |-> "hevc", transcode4K |-> FALSE, stripOnly |-> TRUE,
     reduction |-> 60, larger |-> 4]
\* A film library with an anime directory, and the rules saved for it: none,
\* those shown as its defaults, or the picture left alone.
Configuration(own, rules) ==
    [base |-> Base,
     profiles |-> [films |-> own,
                   anime |-> [onlyPreferred |-> FALSE, audioLangs |-> <<"eng">>, dropOther |-> FALSE],
                   anime4K |-> [transcode4K |-> TRUE, stripOnly |-> FALSE, codec |-> "h264",
                                commentary |-> TRUE, keepFull |-> FALSE]],
     overrides |-> <<[prefix |-> <<"movies">>, profile |-> "films"],
                     [prefix |-> <<"anime">>, profile |-> "anime"],
                     [prefix |-> <<"anime", "4k">>, profile |-> "anime4K"]>>,
     roots |-> [movies |-> <<"movies">>],
     rules |-> [s \in RulesetNames |-> rules]]
NoRules == Configuration([maxTracks |-> 1], {})
Saved(ruleset) == DefaultRules(NoRules, ruleset)
StripOnly == [Saved([library |-> "movies", is4K |-> FALSE]) EXCEPT !.handling = "strip_only", !.keepForced = FALSE,
                                                                         !.audioLangs = <<"eng", "und">>]
Encode4K == [Saved([library |-> "movies", is4K |-> TRUE]) EXCEPT !.handling = "transcode"]
InForceFor(c, path) == [is4K \in BOOLEAN |-> Effective(c, path, {}, is4K)]
Policies ==
    {InForceFor(NoRules, path) : path \in {<<"movies">>, <<"anime">>, <<"anime", "4k", "a">>}}
    \cup {InForceFor(Configuration([maxTracks |-> 1], {r}), <<"movies", "a">>) : r \in {StripOnly, Encode4K}}

Bare == [ffmpeg |-> TRUE, windows |-> FALSE, nodes |-> << >>, accels |-> {},
         vainfo |-> TRUE, winQsv |-> FALSE, nvidia |-> "absent", amf |-> "absent"]
Node(vendor, qsv, vaapi) ==
    [vendor |-> vendor, readable |-> TRUE, qsv |-> qsv, vainfo |-> TRUE, vaapi |-> vaapi]
Nodes == {Node("intel", qsv, vaapi) : qsv \in SUBSET {"direct", "derived"}, vaapi \in BOOLEAN}
            \cup {Node("amd", {}, vaapi) : vaapi \in BOOLEAN}
Hosts ==
    {[Bare EXCEPT !.ffmpeg = ffmpeg, !.accels = accels, !.nodes = <<n>>] :
        ffmpeg \in BOOLEAN, accels \in {{}, {"qsv", "vaapi"}}, n \in Nodes}
    \cup {[Bare EXCEPT !.accels = {"qsv", "vaapi"}, !.nodes = <<n, k>>] : n \in Nodes, k \in Nodes}
    \cup {[Bare EXCEPT !.windows = windows, !.accels = {"qsv"}, !.winQsv = works,
                       !.nvidia = IF works THEN "works" ELSE "visible",
                       !.amf = IF works THEN "visible" ELSE "works"] :
            windows \in BOOLEAN, works \in BOOLEAN}
    \cup {[Bare EXCEPT !.accels = {"qsv", "vaapi"}, !.nodes = <<[n EXCEPT !.readable = FALSE]>>] : n \in Nodes}

Setting(policy, host, preference, allow, artifact) ==
    [policy |-> policy, host |-> host, preference |-> preference,
     allow |-> allow, artifact |-> artifact]

Vary == {Setting(policy, Bare, "cpu_only", TRUE, FALSE) : policy \in Policies}
HostSettings ==
    {Setting([is4K \in BOOLEAN |-> Base], host, preference, allow, FALSE) :
        host \in Hosts, preference \in DOMAIN Normalised, allow \in BOOLEAN}
    \cup {Setting([is4K \in BOOLEAN |-> Base], Bare, "unknown", TRUE, TRUE)}
MCSetups == Vary \cup HostSettings

MCInit == Init /\ (setup \in Vary \/ media = OneFile)
MCSpec == MCInit /\ [][Next]_vars

\* Hosts are only told apart until the encode.
UntilEncode == setup \in Vary \/ phase \in {"probed", "planned"}
=============================================================================
