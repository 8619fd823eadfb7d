CONSTANTS
    Names <- MCNames
    Values <- MCValues
    MaxTokens = 3
    Absent = Absent
SPECIFICATION Spec
INVARIANT TypeOK
INVARIANT LookupMatchesReference
