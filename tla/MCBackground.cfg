CONSTANT MaxJobs = 1
SPECIFICATION Spec
INVARIANT NoOrphanedCalls
CHECK_DEADLOCK FALSE
