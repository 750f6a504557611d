CONSTANT Tables <- MCRealTables

SPECIFICATION Spec

\* The bars the scripts draw, against the measurements they stand for.
INVARIANT ErrorBarSpansMeasurements

CHECK_DEADLOCK FALSE
