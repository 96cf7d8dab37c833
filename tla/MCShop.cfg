SPECIFICATION Spec
CONSTANTS
  Reqs = {r1, r2, r3}
  Browsers = {b1, b2}
  Products = {p1, p2}
  Quantities = {2}
  None = None
SYMMETRY Symmetry
CHECK_DEADLOCK FALSE
INVARIANTS TypeOK CartIsolation DuplicateOnlyIfTwoAdds CartAsShopped
PROPERTY OthersLeaveIt
