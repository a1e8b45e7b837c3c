SPECIFICATION Spec
CONSTANTS
    Nodes = {1, 2}
    Priors = {0, 1}
    Capacities = {0, 6}
    MaxNr = 6
INVARIANTS TypeOK HeapOrdered RootIsMinimum
PROPERTY RefinesPriorityQueue
