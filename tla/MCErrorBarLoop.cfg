CONSTANT Tables <- MCTables

SPECIFICATION Spec

INVARIANT TypeOK
INVARIANT DrawnSeriesAreOwnMeans
PROPERTY AllSeriesDrawn

\* The loop ends: the state after it is final.
CHECK_DEADLOCK FALSE
