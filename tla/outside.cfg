SPECIFICATION OutsideSpec
CONSTANTS
    follower = follower
    Receiver = {follower}
    Task = follower
    Inline = {"a", "b"}
    Spawned = {"h"}
    Capacity = 2
    Triggers = {"webhook"}
    ListensAt = "web"
    MaxTransitions = 2
    GithubAnswers = FALSE
    MaxRead = 2
INVARIANTS CommitTellsTheOutcome ReportsAreTrue
PROPERTIES FollowerEnds ViewsMoveOn
CHECK_DEADLOCK FALSE
