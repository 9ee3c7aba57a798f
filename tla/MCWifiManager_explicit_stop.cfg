SPECIFICATION Spec
CONSTANTS
    L2Threads = {monitor}
    ControlThreads = {reactor}
    NoThread = NoThread
INVARIANTS
    ExplicitStopLeavesIdle
