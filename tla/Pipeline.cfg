\* Files with up to two audio and subtitle streams, pictures of every size and rate,
\* six policies; and one file on every host, with every preference.  The number of
\* passes is bounded, so the last one ends the behaviour.
SPECIFICATION MCSpec
CONSTANTS
    Languages = {"eng", "fra", "und"}
    Codecs = {"h264", "hevc", "av1"}
    AudioCodecs = {"aac", "truehd"}
    Containers = {"mkv", "avi"}
    Widths = {1280, 1920, 3840}
    NoRate = NoRate
    NoPlan = NoPlan
    NoOutput = NoOutput
    MaxPasses = 2
    Rates <- MCRates
    Library <- MCLibrary
    Setups <- MCSetups
CHECK_DEADLOCK FALSE
CONSTRAINT UntilEncode
INVARIANTS
    TypeOK
    ObedientOutputPasses
    Settled
    StatusHonest
    TestedBackend
PROPERTIES
    KeepsBestAudio
    KeepsForced
    
