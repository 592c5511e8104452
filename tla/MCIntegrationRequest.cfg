CONSTANT Retries = 3
SPECIFICATION FairSpec
INVARIANTS
    TypeOK
    OkIsOwnAnswer
PROPERTIES
    OutcomeIsFinal
    ImplementsCall
    CallReturns
CHECK_DEADLOCK FALSE
