SPECIFICATION Spec
CONSTANTS
    Width = 4
    Height = 2
    LineSize = 4
    MaxDigits = 2
    Letters = {"e", "c", "g", "o"}
    Glyphs = {"m", "/", ">", "_", "u", "?"}
    Digits <- MCDigits
    Echo = "e"
    Clear = "c"
    Guess = "g"
    Others = {"o"}
    Outputs <- MCOutputs
    Prompt <- MCPrompt
    Unknown <- MCUnknown
    Rules <- MCRules
    Ask <- MCAsk
    Hint <- MCMessage
    Praise <- MCMessage
    Highest = 10
    Randoms = {0, 32759}
    MaxGuesses = 2
INVARIANTS
    ConsoleTypeOK
    PromptShown
    NothingBehind
PROPERTIES
    IsLineEditor
    EditKeepsRest
    WinIsSeen
