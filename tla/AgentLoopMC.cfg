CONSTANT N = 3
SPECIFICATION FairSpec
INVARIANTS TypeOK RoundVisitsAll ShutdownReportsErrors
PROPERTIES NoRoundAfterStop FollowsProtocol CancelStopsLoop KeepsCollecting
