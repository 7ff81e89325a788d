SPECIFICATION FormSpec
CONSTANTS
    Editor = {t1}
    Place = {p1, p2, p0}
    Unusable = {p0}
    Secret = {s1}
    Spelled <- MCSpelled
    MaxSaves = 1
PROPERTY HealthCheckIsCarried
CHECK_DEADLOCK FALSE
