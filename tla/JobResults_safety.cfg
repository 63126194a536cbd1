\* Every transcript of up to three segments, with every set of up to two turns.
SPECIFICATION Spec
CONSTANTS
    RawSegments <- MCRawSegments
    Infos <- MCInfos
    RawTurns <- MCRawTurns
    LegacyTexts <- MCLegacyTexts
    MaxSegments = 3
    MaxTurns = 2
INVARIANTS
    TranscriptIsComplete
    EmissionOrderShowsInTiesOnly
    TranscriptFollowsTheClock
    AnswerIsCoherent
    SpeakersAreExplained
