SPECIFICATION Spec
CONSTANTS
    Unmasked = {0, 1, 14}
    MaxTicks = 3
INVARIANTS
    TypeOK
    NothingLeftInService
    ReadyForInterrupts
PROPERTIES
    ByteTaken
