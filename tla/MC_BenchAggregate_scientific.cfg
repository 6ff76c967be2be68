\* Two runs that print a time in scientific notation.
CONSTANTS
    Failed = Failed
    None = None
    Outputs <- SciOutputs
    WarmupArgs = {0}
    RunArgs = {2}
    NumpyBuilds = {"rejects"}

SPECIFICATION Spec

INVARIANT QuantityMinimum

\* The script ends: its final state has no successor.
CHECK_DEADLOCK FALSE
