CONSTANTS
    None = None
    PrioBits = 16
    OnloadArgs <- MCOnloadArgs
SPECIFICATION Spec
INVARIANT OnloadTrapsPrefix
