SPECIFICATION PrintfSpec
CONSTANTS
  PRINTF_NTOA_BUFFER_SIZE = 8
  TypeRange <- MCTypeRange
  PointerDigits = 2
  Conversions <- MCConversions
  Leads = {0, 1}
  Counts = {0, 4, 12}
  Room = 13
INVARIANTS NumberBufferHolds TextAsSpecified
CHECK_DEADLOCK FALSE
