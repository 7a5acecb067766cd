SPECIFICATION RuntimeSpec
INVARIANTS RoundTrips TablesKept HeapSafe MatchersAgree
PROPERTY RuntimeSteps
CHECK_DEADLOCK FALSE
