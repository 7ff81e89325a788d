SPECIFICATION Spec
CONSTANTS
    Build = {b1}
    BuildHost = {h1, h2}
    Missing = {h2}
    Local = Local
    Newline = Newline
    CarriageReturn = CarriageReturn
    Letter = Letter
    MaxBytes = 5
    MaxPartial = 2
    Viewer = {v1, v2}
    Capacity = 2
    MaxJournal = 4
    MaxTail = 2
INVARIANTS WorkspaceGone  LinesArriveAsWritten
PROPERTIES BuildEnds
CHECK_DEADLOCK FALSE
