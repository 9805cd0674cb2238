SPECIFICATION Spec
CONSTANTS
  Variables = {x1, x2, x3}
  Addresses = {a1, a2, a3}
  Texts = {empty, large, other}
  SmallTexts = {empty}
  Empty = empty
  Garbage = garbage
  Nothing = nothing
  MaxRefs = 2
SYMMETRY Symmetry
INVARIANTS ReferencesCounted SendSafeAlone
PROPERTIES StaysReadonly ValuesKept
