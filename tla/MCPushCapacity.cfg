SPECIFICATION Spec
CONSTANTS
  Variables = {x1}
  Addresses = {a1, a2}
  Elements = {e1, e2}
  Uninit = uninit
  SmallCapacity = 1
  UninitCounts <- AnyCount
  MaxLength = 2
  Careful = {"push", "extend", "reserve", "from_iter"}
  Garbage = garbage
  Nothing = nothing
  MaxRefs = 2
SYMMETRY Symmetry
INVARIANTS LengthWithinCapacity
CONSTRAINTS NothingLeaked CountsBounded
