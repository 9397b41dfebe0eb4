CONSTANT x1 = x1
CONSTANT x2 = x2
SPECIFICATION Spec
SYMMETRY Symmetry
CONSTRAINT Bounds
INVARIANT CardsAreTrue
INVARIANT ChatIsTrue
INVARIANT DevicesAreKnown
INVARIANT AccountsAreSafe
PROPERTY NothingIsMissed
