\* Up to one warmup and three runs over outputs of one format, with failing
\* runs, under both numpy behaviours.
CONSTANTS
    Failed = Failed
    None = None
    Outputs <- MainOutputs
    WarmupArgs = {0, 1}
    RunArgs = {0, 1, 2, 3}
    NumpyBuilds = {"rejects", "objects"}

SPECIFICATION Spec

INVARIANT TypeOK
INVARIANT MinimumOfRuns
INVARIANT Completion

\* The script ends: its final state has no successor.
CHECK_DEADLOCK FALSE
