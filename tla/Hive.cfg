SPECIFICATION Spec
CONSTANTS
  A = A  B = B  x = x  y = y
  Hives = {A, B}
  Values = {1, 2}
  Allocators = {x, y}
  SlotNpos = 6
  MaxSize = 6
  MaxSlots = 6
  Programs <- ThePrograms
SYMMETRY Interchangeable
INVARIANTS Sound
PROPERTIES Stable ImplementsContract
CHECK_DEADLOCK FALSE
