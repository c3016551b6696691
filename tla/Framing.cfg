SPECIFICATION Spec
CONSTANTS
  Radix = 8
  Width <- MCWidth
  MaxCount = 2
  Messages <- MCMessages
  MaxFrame = 40
  MaxSends = 2
  Window = 3
INVARIANTS
  BytesConserved
  NeverRefused
  CutIsMalformed
PROPERTIES
  ChannelPromise
