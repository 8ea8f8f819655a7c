SPECIFICATION Spec
CONSTANT MaxBroken = 0
INVARIANT EverySoundGroupLoads
CHECK_DEADLOCK FALSE
