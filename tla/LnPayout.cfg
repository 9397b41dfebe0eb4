CONSTANT Invoice = {i1, i2, i3}
SPECIFICATION FairSpec
INVARIANT TypeOK
INVARIANT PaidOnce
INVARIANT ManualMeansStopped
INVARIANT NeverForgotten
PROPERTY StopIsNotLost
PROPERTY PayoutEnds
CHECK_DEADLOCK FALSE
