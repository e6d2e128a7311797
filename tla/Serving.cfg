CONSTANTS
    MaxCrashes = 1
    ShardSizes = {1, 2, 3, 4}
    ShardPads = {2, 4}
    ShardVocabularies <- TokensAround
    ShardWidths = {3, 4, 8, 10}
    AdaptiveReqs = {r1, r2}
    AdaptiveFull = 3
    AdaptiveUnit = 2
    AdaptiveBootSets = {{1, 3}}
    AdaptiveOverrides <- OverrideFiles
    AdaptiveSeen = 2
    AdaptiveClimb = 3
    tokA = tokA
    tokB = tokB
    tokS = tokS
    GrammarTokens = {tokA, tokB, tokS, tokT}
    GrammarDelta <- Alternating
    GrammarStart = "q0"
    GrammarEnd = "end"
    GrammarThought = tokT
    GrammarDrafts = 3
    GrammarLength = 5
    CoopLayers = 2
    CoopEligible = {1}
    CoopNeed = 2
    CoopCalls = 5
    RingRows = 3
    RingBlocks = {0, 1}
    RingKPool = 2
    RingStride = 5
    RingMaxPos = 5
    RingMaxChunk = 4
    MambaPages = {2, 4}
    MambaCheckpoint = 4
    MambaPrompt = 19
    MambaGrants = {1, 2, 3, 4, 5, 8, 9}
    MambaBackoff = 0
    MambaBatches = 2
    MambaSpec = 1
SPECIFICATION MCSpec
CHECK_DEADLOCK FALSE
INVARIANTS
    InstallConsistent
    RefusesOverDrift
    LayoutServed
    DenseServed
    ExpertsServed
    LengthsHonoured
    LaunchesIsolated
    MatcherInStep
    StatesAligned
    RingsPrivate
