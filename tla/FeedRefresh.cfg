SPECIFICATION Spec
CONSTANTS
    reddit = reddit
    blog = blog
    Feeds = {1, 2, 3}
    Presses <- MCPresses
    Sites <- MCSites
    SiteOf <- MCSiteOf
    Rounds = {1, 2}
    Concurrency = 1
    Rests = {1}
    MaxTroubles = 1
    NoRound = NoRound
INVARIANT
    OneRoundPerSite
PROPERTIES
    RestIsKept
    EveryRoundEnds
    EveryFeedIsFetched
