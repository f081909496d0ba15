CONSTANTS
    n1 = n1
    n2 = n2
    None = None
    Names <- MCNames
    MaxSteps <- MCMaxSteps

SPECIFICATION Spec

INVARIANT
    NoStepRunsTwice

\* The embedder stops after Done, and a panic ends its task.
CHECK_DEADLOCK FALSE
