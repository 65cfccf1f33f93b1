CONSTANTS
  Size = 3
  Values = {1, 2}
  MaxSpan = 5
  Fits = FALSE
SPECIFICATION Spec
PROPERTY RingIsAQueue
