------------------------------ MODULE Rulesets ------------------------------
(***************************************************************************)
(* Which policy is in force for a file: the rules an administrator saved   *)
(* for its library, over the configured policy and its profiles            *)
(* (services/setup.py, PlansService._config_bundle_for_source).            *)
(* A configuration is a record: base, the policy; profiles, from names to  *)
(* the fields they set; overrides, the sequence of path prefixes with the  *)
(* profile each names; roots, from the libraries that have one to their    *)
(* directories; rules, from rulesets to what is saved for them (none or    *)
(* one).                                                                   *)
(***************************************************************************)
EXTENDS Planning

Libraries == {"movies", "tv"}
RulesetNames == [library: Libraries, is4K: BOOLEAN]
Handling == {"transcode", "strip_only", "preserve_video"}

\* _validate_processing_rules; saved rules that fail it count as none.
Accepted(r) ==
    /\ r.codec \in Codecs /\ r.container \in Containers /\ r.handling \in Handling
    /\ ToSet(r.audioLangs) \cup ToSet(r.subLangs) \subseteq Languages
    /\ r.reduction \in 0..95 /\ r.larger \in 0..100

Stored(c, ruleset) == {r \in c.rules[ruleset] : Accepted(r)}

-----------------------------------------------------------------------------
(* The library of a path, and the profile that is the library's own.        *)

\* The longest root that holds the path; of two equal ones the TV library's.
LibraryOf(roots, path) ==
    LET within == {l \in DOMAIN roots : Matches(path, roots[l])}
    IN IF within = {} THEN {}
       ELSE {CHOOSE l \in within : \A k \in within \ {l} :
                \/ Len(roots[l]) > Len(roots[k])
                \/ Len(roots[l]) = Len(roots[k]) /\ l = "tv"}

RulesetOf(c, path, is4K) ==
    {[library |-> l, is4K |-> is4K] : l \in LibraryOf(c.roots, path)}

\* The first override whose prefix mentions the library, else the profile
\* named after it.
OwnProfile(c, library) ==
    LET mentioning == SelectSeq(c.overrides, LAMBDA o : library \in ToSet(o.prefix))
    IN IF mentioning = << >> THEN library ELSE mentioning[1].profile

-----------------------------------------------------------------------------
(* The rules over a policy, and over the fields a profile sets.             *)

AudioRules(r) ==
    [audioLangs |-> r.audioLangs, onlyPreferred |-> r.onlyPreferred,
     keepSurround |-> r.keepSurround, keepSevenOne |-> r.keepSevenOne,
     keepAtmos |-> r.keepAtmos]
SubtitleRules(r) ==
    [subLangs |-> r.subLangs, keepFull |-> r.keepFull, dropOther |-> r.dropOther,
     forcedLangs |-> IF r.keepForced THEN r.subLangs ELSE <<"und">>]
VideoRules(r) ==
    [container |-> r.container, codec |-> r.codec, codec4K |-> r.codec,
     reduction |-> r.reduction, low1080 |-> r.low1080, low720 |-> r.low720,
     floor1080 |-> r.floor1080, floor720 |-> r.floor720, larger |-> r.larger]
FourKRules(r) ==
    [transcode4K |-> r.handling = "transcode", stripOnly |-> r.handling # "transcode"]
NonFourKRules(r) ==
    [transcode |-> r.handling = "transcode",
     order |-> {"skip", "remux"} \cup IF r.handling = "transcode" THEN {"transcode"} ELSE {}]

\* _config_bundle_for_source: how the picture is handled is set for the size
\* the file has.
Ruled(base, r, is4K) ==
    (IF is4K THEN FourKRules(r) ELSE NonFourKRules(r))
        @@ AudioRules(r) @@ SubtitleRules(r) @@ VideoRules(r)
        @@ [keepForced |-> r.keepForced] @@ base

\* _profile_with_rules: a group the profile has is overwritten, but for what it
\* says of transcoding below 4K.
RuledProfile(sets, r) ==
    LET Has(group) == DOMAIN sets \cap group # {}
        Group(group, fields) == IF Has(group) THEN fields ELSE << >>
    IN Group(DOMAIN AudioRules(r) \cup {"codecOrder", "commentary", "maxTracks"}, AudioRules(r))
        @@ Group(DOMAIN SubtitleRules(r) \cup {"keepHearing"}, SubtitleRules(r))
        @@ Group(DOMAIN (VideoRules(r) @@ FourKRules(r) @@ NonFourKRules(r))
                    \cup {"maxRate", "maxWidth"}, VideoRules(r) @@ FourKRules(r))
        @@ sets

\* The policy for a path and a size; chosen is the ruleset a request or a
\* watched folder names, when it names one.
Effective(c, path, chosen, is4K) ==
    LET ruleset == IF chosen # {} THEN chosen ELSE RulesetOf(c, path, is4K)
        rules == UNION {Stored(c, s) : s \in ruleset}
        Overrides(profiles) == {[prefix |-> o.prefix, sets |-> profiles[o.profile]] :
                                   o \in ToSet(c.overrides)}
    IN IF rules = {} THEN Resolved(c.base, Overrides(c.profiles), path)
       ELSE LET r == CHOOSE x \in rules : TRUE
                own == OwnProfile(c, (CHOOSE s \in ruleset : TRUE).library)
            IN Resolved(Ruled(c.base, r, is4K),
                        Overrides([n \in DOMAIN c.profiles |->
                            IF n = own THEN RuledProfile(c.profiles[n], r) ELSE c.profiles[n]]),
                        path)

-----------------------------------------------------------------------------
\* _default_processing_rules: what the administrator is shown, and saves when he
\* changes nothing.  4K pictures have no low-rate limits of their own
\* (the code's are 3.0 and 1.5 Mbps).
DefaultRules(c, ruleset) ==
    LET own == OwnProfile(c, ruleset.library)
        p == IF own \in DOMAIN c.profiles THEN c.profiles[own] @@ c.base ELSE c.base
    IN [audioLangs |-> p.audioLangs, onlyPreferred |-> p.onlyPreferred,
        keepSurround |-> p.keepSurround, keepSevenOne |-> p.keepSevenOne,
        keepAtmos |-> p.keepAtmos, subLangs |-> p.subLangs, keepForced |-> c.base.keepForced,
        keepFull |-> p.keepFull, dropOther |-> p.dropOther, container |-> p.container,
        codec |-> IF ruleset.is4K THEN p.codec4K ELSE p.codec,
        handling |-> IF ruleset.is4K
                     THEN IF p.transcode4K /\ ~p.stripOnly THEN "transcode" ELSE "preserve_video"
                     ELSE IF p.transcode THEN "transcode" ELSE "strip_only",
        reduction |-> p.reduction, larger |-> p.larger,
        low1080 |-> IF ruleset.is4K THEN 3 ELSE p.low1080,
        low720 |-> IF ruleset.is4K THEN 1 ELSE p.low720,
        floor1080 |-> p.floor1080, floor720 |-> p.floor720]
=============================================================================
