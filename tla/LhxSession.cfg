CONSTANTS
    Characters = {c1}
    Nobody = Nobody
    Fallback = Fallback
    NameTries = 2
SPECIFICATION Spec
INVARIANT PatchesGoWithSession
INVARIANT EditsAreSaved
PROPERTY SessionsEnd
PROPERTY PatchFollowsSettings
CHECK_DEADLOCK FALSE
