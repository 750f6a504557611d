CONSTANTS
    Scripts <- MCScripts
    MaxCalls <- MCMaxCalls
    Backends <- MCBackends

SPECIFICATION Spec

INVARIANT TypeOK
PROPERTY RenderedAxesSpec
INVARIANT NoDataShapeError
INVARIANT SingleWriterPerOutput

\* The processes stop once the bound on calls is reached.
CHECK_DEADLOCK FALSE
