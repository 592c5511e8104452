CONSTANT Retries = 3
SPECIFICATION Spec
INVARIANT
    RetriesAsConfigured
CHECK_DEADLOCK FALSE
