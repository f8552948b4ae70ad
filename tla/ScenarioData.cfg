SPECIFICATION MCSpec
CONSTANTS
    Moments = 2
    Commands = 5
    Runs = 1
    None = None
    Torn = Torn
    Cut = Cut
    Attempts = 2
    MaxVersion = 2
    MaxEdits = 2
    MaxCommands = 3
INVARIANTS OneMoment GradedAsSeen FetchedIsWhole CommittedIsWhole ScoredAsSealed LikeWithLike BaselineAgreed
CHECK_DEADLOCK FALSE
