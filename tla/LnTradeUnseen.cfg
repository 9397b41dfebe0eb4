CONSTANT Sponsors = {s1}
CONSTANT MaxHolds = 1
CONSTANT MaxCrashes = 0
CONSTANT MinLife = 4
CONSTANT Deposits = {}
CONSTANT Failing = {"reads"}
SPECIFICATION Spec
INVARIANT NoForfeitAfterPaying
