SPECIFICATION MCSpec
CONSTANTS
    Hypotheses = {"h1", "h2"}
    Claim = {"known", "fresh"}
    Titled <- MCTitled
    Authored <- MCAuthored
    Merges <- MCMerges
    MaxUsd = 1
    Price = 1
    MaxMines = 4
    MaxEdits = 1
    MaxStops = 1
    Nil = Nil
    a = a
    b = b
    Candidates = {a, b}
    Traps = {"trap"}
    Readings <- MCReadings
    Replies <- MCAnswers
    Truths <- MCTruths
    Items = {1, 2}
    Texts = {1, 2}
    Grades = 3
    MaxRevisions = 1
INVARIANTS QuotesHold PaidOnce DraftBuilds PassedOnMerit MetOnMerit
CHECK_DEADLOCK FALSE
