SPECIFICATION RiskFairSpec
INVARIANTS
    RiskTypeOK
    StopStands
    ResumeComplete
PROPERTIES
    ResumesWhenHealthy
    StopsWhenStale
