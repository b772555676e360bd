\* More workers than permits, more than one of them waiting, a server that
\* allows just one channel more than the limiter, and one failure.
CONSTANTS
    Worker = {w1, w2, w3}
    Limit = 1
    Iterations = 2
    MaxSessions = 2
    Options <- MCOptions
    Faults = 1
SPECIFICATION StressSpec
INVARIANTS PermitsConserved NoLostWakeup VerificationNeverRefused CleanExitMeansVerified CountedIsReal CleanupAlone
PROPERTIES ServedInOrder RunEnds
\* The command ends.
CHECK_DEADLOCK FALSE
