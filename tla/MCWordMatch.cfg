SPECIFICATION WordSpec
CONSTANTS
    Values <- MCValues
    Patterns <- MCPatterns
    Chars = {"a", "b", "-", "?", "*", "nl"}
    WordChars = {"a", "b"}
    Newline = "nl"
INVARIANTS
    FindsWholeWords
CHECK_DEADLOCK FALSE
