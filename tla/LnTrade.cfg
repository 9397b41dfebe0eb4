CONSTANT Sponsors = {s1, s2}
CONSTANT MaxHolds = 3
CONSTANT MaxCrashes = 1
CONSTANT MinLife = 0
CONSTANT Deposits = {"customer", "sponsor"}
CONSTANT Failing = {}
SPECIFICATION Spec
SYMMETRY Symmetry
INVARIANT TypeOK
INVARIANT NoForfeitAfterPaying
INVARIANT NothingLeftHanging
INVARIANT EscrowFollowsKrw
