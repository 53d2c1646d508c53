CONSTANTS
  NbCounters = 2
  Wrap = 3
  RegMax = 2
  MaxEvents = 6
  Packets <- MCPackets
  GetSize = 3
  SendBurst = 2
  Pointer <- MCPointer
  Kind <- MCKind
  Inputs <- MCInputs
  Memory <- MCMemory
  Lines <- MCLines
  MaxLines = 2
SPECIFICATION MCSpec
INVARIANTS TypeOK PrintedAsRead StopsReversed NothingMiscounted
PROPERTIES ImplementsRecord ImplementsChannel EverythingPrinted
