CONSTANT Loops <- MCLoops

SPECIFICATION Spec

INVARIANT TypeOK
INVARIANT LinesDrawnLeftToRight
INVARIANT PointsWithinYLim
INVARIANT DrawnSeriesAreTableColumns
INVARIANT OneTwinAxes
PROPERTY AllSeriesDrawn

\* The loop ends: after EndLoop the script goes on to styling and savefig.
CHECK_DEADLOCK FALSE
