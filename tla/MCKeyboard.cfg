SPECIFICATION Spec
CONSTANTS
    a = a
    enter = enter
    abnt = abnt
    left = left
    right = right
    CapsLock = CapsLock
    NoChar = NoChar
    Letters <- MCLetters
    Symbols = {}
    Controls <- MCControls
    ShiftKeys <- MCShiftKeys
    Mute = {}
    Foreign <- MCForeign
    BufSize = 3
    PortSize = 1
INVARIANTS
    TypeOK
    ShiftNotStuck
PROPERTIES
    IsKeyQueue
    CharDelivered
