CONSTANTS
  Stale = 0
  Messages <- WideMessages
  Paths = {"/dev/ttySX0"}
  NotOpen = "-1"
  Settings <- MCSettings
  Answers <- MCAnswers
  Masks = {1, 128, 255}
  FrameMaxLen = 256
  Fragile <- MCFragile
SPECIFICATION Spec
INVARIANT FieldsUnderstood
