\* Two runs that print different counts of numbers, with numpy < 1.24.
CONSTANTS
    Failed = Failed
    None = None
    Outputs <- RaggedOutputs
    WarmupArgs = {0}
    RunArgs = {2}
    NumpyBuilds = {"objects"}

SPECIFICATION Spec

INVARIANT MinimumOfRuns

\* The script ends: its final state has no successor.
CHECK_DEADLOCK FALSE
