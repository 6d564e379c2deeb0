SPECIFICATION Spec
CONSTANTS
    Calls = {c1, c2}
    Outputs = {o1, o2}
    None = None
    MaxEnds = 1
INVARIANTS
    AlarmIsFounded
    ReplyIsFetchable
PROPERTIES
    ReleasedIsJudged
CHECK_DEADLOCK FALSE
