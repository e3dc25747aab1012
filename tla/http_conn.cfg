SPECIFICATION FairSpec
CONSTANTS
    Requests <- MCRequests
    Tables <- MCTables
    Param <- MCParam
    Bodies <- MCBodies
    Statuses = {200, 404}
    Headers <- MCHeaders
    LengthKeys = {"Content-Length", "content-length"}
    MaxHeaders = 2
    MaxCalls = 2
    MaxBuf = 4
    MaxResp = 4
    SizeMod = 16
INVARIANTS BodyWhole ParamsOfRoute
PROPERTIES ImplementsRemoteCall TaskReturns
CHECK_DEADLOCK FALSE
