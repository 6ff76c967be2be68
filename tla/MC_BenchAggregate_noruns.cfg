\* --runs 0.
CONSTANTS
    Failed = Failed
    None = None
    Outputs <- MainOutputs
    WarmupArgs = {0}
    RunArgs = {0}
    NumpyBuilds = {"rejects"}

SPECIFICATION Spec

INVARIANT NoOutputReported

\* The script ends: its final state has no successor.
CHECK_DEADLOCK FALSE
