\* Every text of up to MaxLength characters, with words of any length.
CONSTANTS
    MaxCharacters = 5
    Overlap = 2
    MaxLength = 13
    MaxWord = 13
SPECIFICATION FairSpec
CHECK_DEADLOCK FALSE
INVARIANTS
    TypeOK
    PhrasesKept
PROPERTIES
    ShortWordsAdvance
    ShortWordsTerminate
