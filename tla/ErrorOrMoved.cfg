SPECIFICATION Spec
CONSTANTS
  Objects = {o1, o2}
  Errors = {e1}
INVARIANT ValidIsAlive
