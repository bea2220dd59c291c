SPECIFICATION Spec
CONSTANTS
  MaxKeys = 4
  MaxEarlyKeys = 2
INVARIANTS
  PrintsWhatIsTyped
PROPERTIES
  EverythingPrinted
  BufferDrained
