CONSTANT Sponsors = {s1, s2}
CONSTANT MaxHolds = 3
CONSTANT MaxCrashes = 0
CONSTANT MinLife = 4
CONSTANT Deposits = {"sponsor"}
CONSTANT Failing = {"effects"}
SPECIFICATION Spec
SYMMETRY Symmetry
INVARIANT MoneyByRule
