SPECIFICATION Spec
CONSTANTS
    Mac = {m1, m2}
    RemoveDelay = 1
    MaxTime = 5
    Null = Null
INVARIANT TypeOK
PROPERTIES ForgottenOnlyAfterDelay ImplementsStore
CHECK_DEADLOCK FALSE
