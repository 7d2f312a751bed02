SPECIFICATION PagesSpec
CONSTANTS
    NoLength = NoLength
    Tabs = {t1}
    Analyses = {a1, a2}
    MaxLast = 2
    Outcomes <- MixedOutcomes
    Earlier <- NoneOrOneBefore
    None = None
SYMMETRY Symmetry
INVARIANTS
    OwnRunShown
    ScoreNotTakenForMore
    OverviewScoreNotOlder
    TrendBornOut
    OneStory
CHECK_DEADLOCK FALSE
