CONSTANTS
    MaxRefs <- MCMaxRefs
    MaxWire <- MCMaxWire
    MaxOut <- MCMaxOut
SPECIFICATION Spec
INVARIANT TypeOK
INVARIANT LifetimeSafety
INVARIANT OneShotResponse
PROPERTY Reclaimed
PROPERTY ImplementsResponse
CHECK_DEADLOCK FALSE
