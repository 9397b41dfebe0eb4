CONSTANT Sponsors = {s1, s2}
CONSTANT Utxos = {u1}
CONSTANT MaxReorgs = 1
CONSTANT MaxCrashes = 1
CONSTANT Mishaps = {"lapse", "evicted", "refused", "sweep", "release-anywhere"}
SPECIFICATION Spec
INVARIANT LedgerFollowsChain
INVARIANT BondsGoWhereTheyShould
PROPERTY ClockIsFair
CHECK_DEADLOCK FALSE
