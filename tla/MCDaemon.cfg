CONSTANT x1 = x1
CONSTANT x2 = x2
SPECIFICATION Spec
SYMMETRY Symmetry
INVARIANT RequestsAreJudged
INVARIANT ChangesAreSeen
INVARIANT WindowsAreLongEnough
INVARIANT MoneyIsSafe
PROPERTY NothingIsUndone
