CONSTANTS
    Clients = {c1, c2}
    Inputs <- ServedInputs
    StartOutcomes = {"ok", "socket", "setup", "thread"}
    SpawnFails = TRUE
    MaxStarts = 2
    None = None
    HandlerResponses <- MCHandlerResponses
SPECIFICATION Spec
INVARIANT ResponseFitsBuffer
PROPERTY StopReturns ConnectionsClosed
