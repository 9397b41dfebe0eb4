CONSTANT Sponsors = {s1}
CONSTANT Utxos = {u1, u2}
CONSTANT MaxReorgs = 1
CONSTANT MaxCrashes = 0
CONSTANT Mishaps = {}
SPECIFICATION Spec
INVARIANT TypeOK
INVARIANT KrwProtectsEscrow
INVARIANT ReleaseIsReady
CHECK_DEADLOCK FALSE
