CONSTANT Hold = {h1, h2}
SPECIFICATION Spec
INVARIANT TypeOK
INVARIANT RecordTruthful
INVARIANT NoOrphanAtNode
INVARIANT NoFalseAlarm
PROPERTY KeepsPromise
