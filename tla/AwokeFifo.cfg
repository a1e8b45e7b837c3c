SPECIFICATION Spec
CONSTANTS
    Values = {a, b, c}
    Zero = Zero
    capacity = 4
    UIntMax = 15
INVARIANTS
    IndicesAgree
PROPERTIES
    RefinesBoundedQueue
