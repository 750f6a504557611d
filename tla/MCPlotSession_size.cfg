CONSTANTS
    Scripts <- MCScripts
    MaxCalls <- MCMaxCalls
    Backends <- MCBackends

SPECIFICATION Spec

\* plt.figure(1) after plt.subplots() took number 1 in an Agg process.
INVARIANT SavedChartHasRequestedSize

CHECK_DEADLOCK FALSE
