CONSTANTS
    MaxTokens = 3
    QValues <- MCQValues
    NoQ = NoQ
    Absent = Absent
SPECIFICATION Spec
INVARIANT ResultMatchesReference
CHECK_DEADLOCK FALSE
