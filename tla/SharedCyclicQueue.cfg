CONSTANTS
  Size = 3
  Value = {a, b, c}
  NoValue = NoValue
  Modes <- SoundModes
SPECIFICATION Spec
INVARIANT SemaphoresCountCells
PROPERTY ImplementsBoundedQueue
