SPECIFICATION Spec
CONSTANTS
    ProcsOf <- MCProcsOf
    None = None
    Keys = {1, 2}
    NumLevels = 3
    HeapPrio <- MCHeapPrio
    Arrival <- MCArrival
    KeyPairs <- MCKeyPairs
INVARIANTS
    TreapExact
PROPERTIES
    Implements
