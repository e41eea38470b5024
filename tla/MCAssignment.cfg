SPECIFICATION Spec
CONSTANTS
  Predecessors = 3
  Successors = 2
  Prices = {0, 1, 3, 4}
  NoPair = NoPair
  Unmatched = 3
  Blocked = 9
INVARIANTS
  TypeOK
  Certified
  LinksBest
PROPERTIES
  Terminates
\* The algorithm stops when every predecessor has a column.
CHECK_DEADLOCK FALSE
