\* Heaps of three levels, whose last one is full of siblings and cousins.
CONSTANTS
    MaxRows = 6
    MaxRowTime = 2
SPECIFICATION HeapSpec
INVARIANT HeapOrdered
PROPERTY RowsConserved
