CONSTANTS
    MaxRefs <- MCMaxRefs
    MaxWire <- MCMaxWire
    MaxOut <- MCMaxOut
SPECIFICATION Spec
PROPERTY FrozenAfterFinalize
CHECK_DEADLOCK FALSE
