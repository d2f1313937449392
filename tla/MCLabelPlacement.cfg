CONSTANTS
    LabelInputs <- MCInputs
    None = None
SPECIFICATION LabelSpec
INVARIANTS
    LabelTypeOK
    SamplesFollowRoute
    LabelAvoidsNodes
