SPECIFICATION Spec
CONSTANTS
    Values = {a, b, c}
    Zero = Zero
    Beyond = Beyond
    NodeNr = 4
INVARIANTS
    NoOverrun
PROPERTIES
    RefinesBoundedQueue
