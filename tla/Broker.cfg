SPECIFICATION Spec
CONSTANTS
    Sids = {s1}
    MaxStarts = 2
    MaxFaults = 1
INVARIANTS TypeOK NoSilentOrphan GrantSurvives
PROPERTIES OrphansAreSwept DeadMeansGone TerminateEndsTree
CHECK_DEADLOCK FALSE
