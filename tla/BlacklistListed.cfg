CONSTANTS
  Pointer <- MCPointer
  Kind <- MCKind
  Inputs <- MCInputs
  Memory <- MCMemory
  Lines <- MCLines
  MaxLines = 2
SPECIFICATION Spec
INVARIANT ListedAreDropped
