SPECIFICATION Spec

CONSTANTS
    Configs <- MCConfigs
    RouteIDs <- MCRouteIDs
    Requests <- MCRequests
    Registered <- MCRegistered

INVARIANTS
    TypeOK
    SourceHasPrecedence
    NothingDangles
    
