\* One run whose output contains the word NUMBER.
CONSTANTS
    Failed = Failed
    None = None
    Outputs <- WordOutputs
    WarmupArgs = {0}
    RunArgs = {1}
    NumpyBuilds = {"rejects"}

SPECIFICATION Spec

INVARIANT Completion

\* The script ends: its final state has no successor.
CHECK_DEADLOCK FALSE
