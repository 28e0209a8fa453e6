SPECIFICATION FairSpec
CONSTANTS
    g1 = g1
    o1 = o1
    o2 = o2
    c1 = c1
    NoJob = NoJob
    Job = {g1, o1, o2}
    Guest = {g1}
    Live = {c1}
    Free = {o1, o2}
    Est = 2
    Price = 2
    CreditLimit = 5
    Rpm = 2
    Tpm = 4
    DailyBudget = 4
    Actual = {0, 3}
    MaxDay = 2
    CrashInside = TRUE
    Extra = {o2}
    Scope = {"off", "guest"}
INVARIANTS
    CreditsBalance
    DailyBalance
    RingReconciled
    ResultsReferenced
    QueueMatchesRows
PROPERTIES
    JobsEnd
