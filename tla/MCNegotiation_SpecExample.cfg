CONSTANTS
    MaxTokens = 3
    QValues <- MCQValues
    NoQ = NoQ
    Absent = Absent
SPECIFICATION SpecExampleSpec
INVARIANT GzipLosingToWildcardNotSelected
CHECK_DEADLOCK FALSE
