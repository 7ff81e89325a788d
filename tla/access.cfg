SPECIFICATION AccessSpec
CONSTANTS
    Email = {e1, e2}
    Request = {r1, r2, r3, r4}
    MaxPassword = 2
    MaxTokens = 4
    MaxBoots = 3
    Grant = {g1}
    Socket = {s1, s2}
    Target = {h1}
    MaxOutput = 3
    MaxHeld = 2
    NoKey = NoKey
    Call = {r1, r2, r3}
    Key = {"k", "l"}
    Delivery = {d1, d2}
    Commit = {c1}
    Pushed = {s1, s2}
    MaxSends = 2
    User = {u1, u2}
    Lifetime = 4
    Margin = 2
    MaxInstalls = 2
    MaxEvents = 2
    Editor = {t1}
    Place = {p1, p2, p0}
    Unusable = {p0}
    Secret = {k1}
    Spelled <- MCSpelled
    MaxSaves = 1
    Caller = {"a", "b"}
    Crowd = {"a"}
INVARIANTS CredentialsEnd
           TokensOutliveTheirUse
           ShellHasOneReader
           RepeatedCallsActOnce
           RecordTellsWhatWasDone
PROPERTIES PushDeploysItsWatchers SavesMakeNothingUp CriticalIsTouchedOnPurpose
SYMMETRY Anonymous
CHECK_DEADLOCK FALSE
