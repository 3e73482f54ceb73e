SPECIFICATION Spec
CONSTANTS
  Objects = {o1, o2, o3}
  Errors = {e1, e2}
INVARIANTS TagTellsTruth NothingLeaked
