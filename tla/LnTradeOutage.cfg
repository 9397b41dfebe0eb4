CONSTANT Sponsors = {s1}
CONSTANT MaxHolds = 1
CONSTANT MaxCrashes = 1
CONSTANT MinLife = 0
CONSTANT Deposits = {}
CONSTANT Failing = {"reads", "effects", "answers"}
SPECIFICATION Spec
INVARIANT PayoutBacked
INVARIANT NoFalseAlarm
INVARIANT LossIsReported
