SPECIFICATION Spec
CONSTANTS
    Host = {y1, y2}
    Address = {a1}
    Key = {k1, k2}
    Conn = {s1, s2}
    NoKey = NoKey
    Mangled = Mangled
    Request = {x1, x2}
    BuildHost = {y1, y2}
    NoDefault = NoDefault
    Call = {x1, x2}
    Asked <- MCAsked
    MaxEdits = 1
    Service = {s1, s2}
    Unit = {u1, u2}
    Port = {p1}
    Handler = {x1, x2}
    NoRow = NoRow
    NoOne = NoOne
    Client = {x1, x2}
    User = {y1, z1, z2, z3}
    Target = {z1, z2}
    HostUser = {z3}
    TargetPage = 1
    MaxSecrets = 2
    Worker = {x1, x2}
    Code = {k1, k2}
    Builder = {s1, s2}
    ServicePage = 1
    NoApp = NoApp
    MaxReleases = 7
    Keeps = {0, 1, 2, 3}
INVARIANTS DefaultDanglesByRaceOrFault ActiveServesTheRows OnlyAcceptedConfigsGoLive
           UnitsHaveRows PortsAreNotShared
           RetentionServesRollback
PROPERTIES PinMovesByReviewOrFirstUse SecretsAreLostOnPurpose SourcesStayBound
SYMMETRY Anonymous
CONSTRAINT Alone
CHECK_DEADLOCK FALSE
