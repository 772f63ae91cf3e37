\* Three entries in a heap made for one, which grows; two pollers.
CONSTANTS
  Entries = {e1, e2, e3}
  Callers = {c1}
  Pollers = {p1, p2}
  Times = {1, 2}
  Size = 1
  MaxPerPoll = 2
SPECIFICATION Spec
SYMMETRY Symmetry
INVARIANTS HeapSound RefsBalance
PROPERTIES ImplementsTimers
