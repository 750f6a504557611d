CONSTANTS
    Scripts <- MCFigScripts
    MaxCalls <- MCFigCalls
    Backends <- MCBackends

SPECIFICATION Spec

\* plt.subplots() in one Agg process, once per call, with no plt.close().
INVARIANT OpenFiguresWithinWarningLimit

CHECK_DEADLOCK FALSE
