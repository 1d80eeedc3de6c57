CONSTANTS
  Requests = {r1, r2}
  Files = {f1, f2}
  NameCount = 2
  MaxLoadTests = 1
  Moves <- FewMoves
  MaxFaults = 0
SYMMETRY Symmetry
SPECIFICATION Spec
\* When all requests are answered everything comes to rest.
CHECK_DEADLOCK FALSE
INVARIANT LimitHeld
