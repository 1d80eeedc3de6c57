CONSTANTS
  Requests = {r1, r2, r3, r4}
  Files = {f1}
  NameCount = 4
  MaxLoadTests = 2
  Moves <- FewMoves
  MaxFaults = 1
SYMMETRY Symmetry
SPECIFICATION Spec
\* When all requests are answered everything comes to rest.
CHECK_DEADLOCK FALSE
INVARIANT TypeOK
INVARIANT DuplicatesAreRaces
INVARIANT SomeOverwriterWins
