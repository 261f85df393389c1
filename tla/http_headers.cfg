CONSTANTS
    Clients = {c1}
    Inputs <- HeaderInputs
    StartOutcomes = {"ok"}
    SpawnFails = FALSE
    MaxStarts = 1
    None = None
    HandlerResponses <- MCHandlerResponses
SPECIFICATION Spec
INVARIANT HandlerSeesRequest
