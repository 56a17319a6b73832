SPECIFICATION Spec

CONSTANTS
  h1 = h1
  h2 = h2
  Nobody = Nobody

 
 
INVARIANT PeopleServed
INVARIANT MemoryKept
PROPERTY StepsKept
CHECK_DEADLOCK FALSE
SYMMETRY Symmetry
