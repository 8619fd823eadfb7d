CONSTANTS
    MaxRefs <- MCMaxRefs
    MaxWire <- MCMaxWire
    MaxOut <- MCMaxOut
SPECIFICATION Spec
PROPERTY ReplyEncodingMatches
CHECK_DEADLOCK FALSE
