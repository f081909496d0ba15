CONSTANTS
    n1 = n1
    n2 = n2
    None = None
    Names <- MCNames
    MaxSteps <- MCMaxSteps

SPECIFICATION Spec

INVARIANTS
    TypeOK
    StoredOutputIsLatest

PROPERTY
    ImplementsSequentialPlan

\* The embedder stops after Done, and a panic ends its task.
CHECK_DEADLOCK FALSE
