CONSTANTS
    MaxRefs <- MCMaxRefs
    MaxWire <- MCMaxWire
    MaxOut <- MCMaxOut
SPECIFICATION Spec
PROPERTY DropOwnedCancels
CHECK_DEADLOCK FALSE
