SPECIFICATION Spec
CONSTANTS
  n1 = n1
  up = up
  down = down
  Dirs = {up, down}
  Nodes = {n1}
  Copies <- TwoInbounds
  MaxUse = 3
  MaxExpiry = 3
  MaxEvents = 2
  NoRow = NoRow
  NoBase = NoBase
SYMMETRY Directions
INVARIANTS TypeOK CountedOnce
 
