CONSTANTS
  Types <- MCTypes
  UInts <- MCUInts
  Ints <- MCInts
  Enums <- MCEnums
  Texts <- MCTexts
  Unknown <- MCUnknown
  MaxCalls = 2
SPECIFICATION Spec
INVARIANTS Delivered RejectedForText
