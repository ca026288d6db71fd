SPECIFICATION MCSpec
CONSTANTS
  Messages <- TwoMessages
  Texts <- TextWithFlag
  FrameTimeout = 1
  MaxTexts = 1
  MaxFaults = 2
  Alphabet = {0, 32, 93, 94, 125, 126, 255}
  Damage = {0, 1, 2, 4, 8, 16, 32, 64, 93, 94, 125, 126, 128, 255}
  MaxLen = 3
  None = None
INVARIANTS RInv Resynchronised RoundTrip DamageDetected
CHECK_DEADLOCK FALSE
