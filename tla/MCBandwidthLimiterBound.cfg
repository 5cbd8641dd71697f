CONSTANTS
    t1 = t1
    t2 = t2
    Tasks <- MCTasks
    Unit = 4
    Burst = 1
    Sizes = {1, 5}
    MaxItems = 3
    MaxRefill = 3

SPECIFICATION Spec
SYMMETRY MCSymmetry

\* Every upload stream is finite: the runs end with all tasks done.
CHECK_DEADLOCK FALSE

INVARIANT BandwidthBound
