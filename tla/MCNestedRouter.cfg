SPECIFICATION RoutingSpec
CONSTANTS
    Routers = {"server", "sub"}
    Root = "server"
    Patterns <- MCPatterns
    Singles = {":x", ":y"}
    Rests = {"*r", "*"}
    Nameless = {"*"}
    Targets <- MCTargets
    Methods = {"GET", "POST"}
    All = "All"
    Middlewares = {"m1", "m2"}
    MaxOps = 4
INVARIANT NestedRouteFound
CHECK_DEADLOCK FALSE
