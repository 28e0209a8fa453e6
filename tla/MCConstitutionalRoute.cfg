CONSTANTS
    Tokens = {1, 2, 3, 4, 5, 6, 7, 8}
    None = None
    MaxRuns = 2
    MaxFault = 1
SPECIFICATION FairSpec
INVARIANTS
    CandidateIsBounded
    ReceiptsAreTrue
    FailClosed
PROPERTIES
    AttemptResolves
    CommittedIsServed
