SPECIFICATION Spec
CONSTANTS
  a = a
  b = b
  q = q
  r1 = r1
  r2 = r2
  x1 = x1
  x2 = x2
  x3 = x3
  c1 = c1
  c2 = c2
  c3 = c3
  c4 = c4
  None = None
  Paths = {a, b, q}
  Internal = {q}
  Slot <- OwnNames
  Payloads = {c1, c2, c3, c4}
  Ids = {x1, x2}
  Requests = {r1, r2}
  Groups <- Both
  MaxFaults = 1
CHECK_DEADLOCK FALSE
SYMMETRY Symmetry
INVARIANTS Undoable Listed Agreement NotesLead
PROPERTIES OnlyKnownLosses RestoresWhatItTook
