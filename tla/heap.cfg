SPECIFICATION Spec
CONSTANTS
  HeapStart = 2
  HeapEnd = 26
  Word = 2
  Wrap = 32
  MallocLengths <- MCMallocLengths
  ReallocLengths <- MCReallocLengths
INVARIANTS Tiled GivenBack
PROPERTIES CallsHonoured
