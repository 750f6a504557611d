CONSTANTS
    Scripts <- MCScripts
    MaxCalls <- MCMaxCalls
    Backends <- MCInteractive

SPECIFICATION Spec

PROPERTY RenderedChartsSpec

\* The processes stop once the bound on calls is reached.
CHECK_DEADLOCK FALSE
